----------------------------- MODULE MCPayroll -----------------------------
(* A payroll of two batches, in two kinds of behaviours:                    *)
(*   overlap  two requests at the same time, about batch 1, with the right  *)
(*            and a wrong transaction; nobody pays batch 2 meanwhile;       *)
(*   serial   one request at a time, about both batches, with the           *)
(*            transactions of both, perhaps crosswise.                      *)
EXTENDS MCPayrollSettlement

CONSTANT h0

VARIABLE focus

Active == {p \in Handlers : pc[p] # "idle"}

UsesHash(h) == \/ chain[h] # "unseen"
               \/ \E k \in Keys : transactionHash[k] = h
               \/ \E p \in Active : local[p].hash = h

Overlap == /\ ~UsesHash(h2)
           /\ status[2] \in {"ABSENT", "CREATED"}
           /\ unitStatus[2] \in {"absent", "PENDING"}
           /\ \A p \in Active : local[p].unit = 2 => local[p].flow = "reconcile"

Serial == Cardinality(Active) <= 1 /\ ~UsesHash(h0)

MCInit == Init /\ focus \in {"overlap", "serial"}

MCNext ==
    /\ UNCHANGED focus
    /\ Next
    /\ IF focus = "overlap" THEN Overlap' ELSE Serial'

MCSpec == MCInit /\ [][MCNext]_<<vars, focus>>

(* The task agrees with its units while requests do not overlap: reports of *)
(* the same unit that do are counted twice (ExecutedIsPaid).                *)
SerialTaskMatchesUnits == focus = "serial" => TaskMatchesUnits

=============================================================================
