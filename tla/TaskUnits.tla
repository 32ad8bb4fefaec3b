----------------------------- MODULE TaskUnits -----------------------------
(***************************************************************************)
(* The Task and TaskUnit rows of a unit-based task and                      *)
(* TaskUnitService.reportUnit, the database transaction that records the    *)
(* outcome of one unit.  Prisma opens it at PostgreSQL's default isolation  *)
(* level, READ COMMITTED: each statement sees what is committed when it     *)
(* starts, an updated row stays locked until the transaction ends, and the  *)
(* writes appear at commit.                                                 *)
(***************************************************************************)
EXTENDS Naturals, FiniteSets

CONSTANTS
    NumUnits,    \* Task.totalUnits
    Handlers     \* requests that may be inside reportUnit at the same time

ASSUME NumUnitsAssumption == NumUnits \in Nat \ {0}

Units == 1..NumUnits

VARIABLES
    taskStatus,      \* Task.status, "absent" before the row is created
    unitStatus,      \* TaskUnit.status
    completedUnits,
    failedUnits,
    tx               \* the transaction each request is in

rowVars == <<taskStatus, unitStatus, completedUnits, failedUnits>>
unitVars == <<rowVars, tx>>

Outcomes == {"SUCCESS", "FAILED"}

(* A transaction: the statement it executes next, its arguments and the     *)
(* counters as it read them.                                                *)
Transactions == [at : {"none", "unitRead", "unitUpdate", "taskRead", "taskUpdate"},
                 unit : 0..NumUnits, result : Outcomes,
                 completed : Nat, failed : Nat]

Transaction(at, k, result) ==
    [at |-> at, unit |-> k, result |-> result, completed |-> 0, failed |-> 0]

NoTransaction == Transaction("none", 0, "FAILED")

UnitInit ==
    /\ taskStatus = "absent"
    /\ unitStatus = [k \in Units |-> "absent"]
    /\ completedUnits = 0
    /\ failedUnits = 0
    /\ tx = [p \in Handlers |-> NoTransaction]

-----------------------------------------------------------------------------
(* The create transaction of createPayrollTask (and of createLiquidityTask, *)
(* with one unit).                                                          *)
CreateTask ==
    /\ taskStatus = "absent"
    /\ taskStatus' = "assigned"
    /\ unitStatus' = [k \in Units |-> "PENDING"]
    /\ UNCHANGED <<completedUnits, failedUnits, tx>>

RecomputeTaskStatus(completed, failed) ==
    CASE failed > 0 -> "review"
      [] failed = 0 /\ completed = NumUnits -> "executed"
      [] OTHER -> "in_progress"

Idle(p) == tx[p].at = "none"

BeginReport(p, k, result) ==
    /\ Idle(p)
    /\ tx' = [tx EXCEPT ![p] = Transaction("unitRead", k, result)]

EndReport(p) == tx' = [tx EXCEPT ![p] = NoTransaction]

(* A unit that is no longer PENDING was reported before: nothing to do. *)
UnitReadAny(p) ==   \* variant: a reported unit is reported again
    /\ tx[p].at = "unitRead"
    /\ tx' = [tx EXCEPT ![p].at = "unitUpdate"]
    /\ UNCHANGED rowVars

UnitRead(p) ==
    /\ tx[p].at = "unitRead"
    /\ \/ unitStatus[tx[p].unit] # "PENDING" /\ EndReport(p)
       \/ unitStatus[tx[p].unit] = "PENDING" /\ tx' = [tx EXCEPT ![p].at = "unitUpdate"]
    /\ UNCHANGED rowVars

(* taskUnit.update takes the unit's row lock, or waits for it; its WHERE    *)
(* clause names the id only.                                                *)
Locked(k) == \E q \in Handlers : tx[q].unit = k /\ tx[q].at \in {"taskRead", "taskUpdate"}

UnitUpdate(p) ==
    /\ tx[p].at = "unitUpdate"
    /\ ~Locked(tx[p].unit)
    /\ tx' = [tx EXCEPT ![p].at = "taskRead"]
    /\ UNCHANGED rowVars

TaskRead(p) ==
    /\ tx[p].at = "taskRead"
    /\ tx' = [tx EXCEPT ![p].at = "taskUpdate",
                        ![p].completed = completedUnits,
                        ![p].failed = failedUnits]
    /\ UNCHANGED rowVars

(* The increments are relative and the task row is locked from the first    *)
(* one to the commit; the status is computed from the counters read before. *)
Good(result) == IF result = "SUCCESS" THEN 1 ELSE 0
Bad(result) == IF result = "FAILED" THEN 1 ELSE 0

AbsoluteUpdate(p) ==   \* variant: the counters are written, not incremented
    LET t == tx[p] IN
    /\ t.at = "taskUpdate"
    /\ unitStatus' = [unitStatus EXCEPT ![t.unit] = t.result]
    /\ completedUnits' = t.completed + Good(t.result)
    /\ failedUnits' = t.failed + Bad(t.result)
    /\ taskStatus' = RecomputeTaskStatus(t.completed + Good(t.result), t.failed + Bad(t.result))
    /\ EndReport(p)

TaskUpdate(p) ==
    LET t == tx[p] IN
    /\ t.at = "taskUpdate"
    /\ unitStatus' = [unitStatus EXCEPT ![t.unit] = t.result]
    /\ completedUnits' = completedUnits + Good(t.result)
    /\ failedUnits' = failedUnits + Bad(t.result)
    /\ taskStatus' = RecomputeTaskStatus(t.completed + Good(t.result), t.failed + Bad(t.result))
    /\ EndReport(p)

(* A crash or a lost connection rolls the transaction back. *)
Rollback(p) == ~Idle(p) /\ EndReport(p) /\ UNCHANGED rowVars

TxStep(p) == UnitRead(p) \/ UnitUpdate(p) \/ TaskRead(p) \/ TaskUpdate(p)

UnitNext ==
    \/ CreateTask
    \/ \E p \in Handlers :
        \/ /\ taskStatus # "absent"
           /\ \E k \in Units : \E result \in Outcomes : BeginReport(p, k, result)
           /\ UNCHANGED rowVars
        \/ TxStep(p)
        \/ Rollback(p)

UnitSpec == UnitInit /\ [][UnitNext]_unitVars

-----------------------------------------------------------------------------
UnitTypeOK ==
    /\ taskStatus \in {"absent", "assigned", "in_progress", "review", "executed"}
    /\ unitStatus \in [Units -> {"absent", "PENDING"} \cup Outcomes]
    /\ completedUnits \in Nat
    /\ failedUnits \in Nat
    /\ tx \in [Handlers -> Transactions]

Reported(result) == {k \in Units : unitStatus[k] = result}

(* Overlapping reports, of the same unit or of several, lose no increment:  *)
(* the outcome every unit shows is in the counter of that outcome.          *)
NoReportLost ==
    /\ Cardinality(Reported("SUCCESS")) <= completedUnits
    /\ Cardinality(Reported("FAILED")) <= failedUnits

(* Types, and no report lost.                                               *)
ReportsAreCounted == UnitTypeOK /\ NoReportLost

(* The task agrees with its units: counters and the status they imply.      *)
TaskMatchesUnits ==
    LET paid == Cardinality(Reported("SUCCESS"))
        lost == Cardinality(Reported("FAILED")) IN
    /\ completedUnits = paid
    /\ failedUnits = lost
    /\ paid + lost > 0 => taskStatus = RecomputeTaskStatus(paid, lost)

(* reportUnit is idempotent: a task counts as executed only when every unit *)
(* was reported as paid.                                                    *)
ExecutedIsPaid == taskStatus = "executed" => Reported("SUCCESS") = Units
=============================================================================
