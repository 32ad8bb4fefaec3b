------------------------ MODULE MCExecutionIntent ------------------------
(* Instances of ExecutionIntent.  Transaction h2, when it is in Hashes,     *)
(* makes a transfer d2 of its own; every other one makes the transfer d1.   *)
EXTENDS ExecutionIntent, TLC

CONSTANTS h2, d1, d2

MCPays == [h \in Hashes |-> IF h = h2 THEN d2 ELSE d1]

Symmetry == Permutations(Owners) \cup Permutations(Handlers)
===========================================================================
