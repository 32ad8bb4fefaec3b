----------------------- MODULE MCPayrollSettlement -----------------------
(* Instances of PayrollSettlement: transaction h_k pays batch k; any other  *)
(* one pays something else.                                                 *)
EXTENDS PayrollSettlement, TLC

CONSTANTS h1, h2, d1, d2, d0

MCKeys == 1..NumUnits
MCDue == [k \in Keys |-> IF k = 1 THEN d1 ELSE d2]
MCPays == [h \in Hashes |-> CASE h = h1 -> d1 [] h = h2 -> d2 [] OTHER -> d0]

Symmetry == Permutations(Handlers)
==========================================================================
