---------------------- MODULE PayrollSettlementProofs ----------------------
(***************************************************************************)
(* reportUnit, for any number of units and of overlapping requests: what    *)
(* its transactions guarantee however they interleave, and what they        *)
(* guarantee only when no unit is reported twice at the same time.          *)
(*                                                                         *)
(* Payroll rows follow the chain under every interleaving of requests, for  *)
(* any number of batches, transactions and requests at a time; and where    *)
(* the task agrees with its units.                                          *)
(***************************************************************************)
EXTENDS PayrollSettlement, IntentStoreProofs, TaskUnits, TLAPS, FiniteSetTheorems

(* The sets the counters stand for are finite. *)
LEMMA UnitsFinite ==
    /\ IsFiniteSet(Units)
    /\ Cardinality(Units) = NumUnits
    /\ \A S \in SUBSET Units : /\ IsFiniteSet(S)
                               /\ Cardinality(S) \in Nat
                               /\ Cardinality(S) <= NumUnits
                               /\ Cardinality(S) = NumUnits => S = Units
<1>1. IsFiniteSet(Units) /\ Cardinality(Units) = NumUnits
  BY NumUnitsAssumption, FS_Interval DEF Units
<1>2. ASSUME NEW S \in SUBSET Units
      PROVE  /\ IsFiniteSet(S)
             /\ Cardinality(S) \in Nat
             /\ Cardinality(S) <= NumUnits
             /\ Cardinality(S) = NumUnits => S = Units
  BY <1>1, FS_Subset, FS_CardinalityType
<1> QED BY <1>1, <1>2

(* Reporting one more unit with an outcome adds at most one to the number   *)
(* of units with it, exactly one when the unit was PENDING.                 *)
LEMMA ReportedAfter ==
    ASSUME unitStatus \in [Units -> {"absent", "PENDING"} \cup Outcomes],
           NEW k \in Units, NEW r \in Outcomes,
           unitStatus' = [unitStatus EXCEPT ![k] = r],
           NEW o \in Outcomes
    PROVE  /\ Cardinality(Reported(o)) \in Nat
           /\ Cardinality(Reported(o)') \in Nat
           /\ Cardinality(Reported(o)') <= Cardinality(Reported(o)) + (IF r = o THEN 1 ELSE 0)
           /\ unitStatus[k] = "PENDING" =>
                Cardinality(Reported(o)') = Cardinality(Reported(o)) + (IF r = o THEN 1 ELSE 0)
<1>1. /\ Reported(o) \in SUBSET Units
      /\ Reported(o)' \in SUBSET Units
  BY DEF Reported
<1>2. /\ IsFiniteSet(Reported(o)) /\ Cardinality(Reported(o)) \in Nat
      /\ IsFiniteSet(Reported(o)') /\ Cardinality(Reported(o)') \in Nat
  BY <1>1, UnitsFinite
<1>3. CASE r = o
  <2>1. Reported(o)' \subseteq Reported(o) \cup {k} /\ Reported(o) \cup {k} \subseteq Reported(o)'
    BY <1>3 DEF Reported
  <2>2. unitStatus[k] = "PENDING" => k \notin Reported(o)
    BY DEF Reported, Outcomes
  <2>3. Cardinality(Reported(o)') = Cardinality(Reported(o) \cup {k})
    BY <2>1
  <2>4. Cardinality(Reported(o) \cup {k}) =
          IF k \in Reported(o) THEN Cardinality(Reported(o)) ELSE Cardinality(Reported(o)) + 1
    BY <1>2, FS_AddElement
  <2> QED BY <1>2, <1>3, <2>2, <2>3, <2>4
<1>4. CASE r # o
  <2>1. Reported(o)' \in SUBSET Reported(o)
    BY <1>4 DEF Reported
  <2>2. Cardinality(Reported(o)') <= Cardinality(Reported(o))
    BY <1>2, <2>1, FS_Subset
  <2>3. unitStatus[k] = "PENDING" => Reported(o)' = Reported(o)
    BY <1>4 DEF Reported, Outcomes
  <2> QED BY <1>2, <1>4, <2>2, <2>3
<1> QED BY <1>3, <1>4

-----------------------------------------------------------------------------
(* The transactions stay well typed. *)
LEMMA TransactionsTyped ==
    \A at \in {"none", "unitRead", "unitUpdate", "taskRead", "taskUpdate"},
       k \in 0..NumUnits, r \in Outcomes : Transaction(at, k, r) \in Transactions
  BY DEF Transaction, Transactions

(* One statement of a transaction: the types, and no increment is lost.     *)
LEMMA TxStepCounts ==
    ASSUME ReportsAreCounted, NEW p \in Handlers, TxStep(p)
    PROVE  ReportsAreCounted'
<1> USE DEF ReportsAreCounted
<1>1. tx[p] \in Transactions /\ NoTransaction \in Transactions
  BY NumUnitsAssumption, TransactionsTyped DEF UnitTypeOK, NoTransaction, Outcomes
<1>2. ASSUME UNCHANGED rowVars, NEW t \in Transactions, tx' = [tx EXCEPT ![p] = t]
      PROVE  ReportsAreCounted'
  BY <1>2 DEF UnitTypeOK, NoReportLost, Reported, rowVars
<1>3. CASE UnitRead(p)
  <2>1. [tx[p] EXCEPT !.at = "unitUpdate"] \in Transactions
    BY <1>1 DEF Transactions
  <2> QED BY <1>1, <1>2, <1>3, <2>1 DEF UnitRead, EndReport
<1>4. CASE UnitUpdate(p)
  <2>1. [tx[p] EXCEPT !.at = "taskRead"] \in Transactions
    BY <1>1 DEF Transactions
  <2> QED BY <1>2, <1>4, <2>1 DEF UnitUpdate
<1>5. CASE TaskRead(p)
  <2> DEFINE t == [tx[p] EXCEPT !.at = "taskUpdate", !.completed = completedUnits,
                                !.failed = failedUnits]
  <2>1. t \in Transactions
    BY <1>1 DEF Transactions, UnitTypeOK
  <2>2. tx' = [tx EXCEPT ![p] = t]
    BY <1>5 DEF TaskRead
  <2> QED BY <1>2, <1>5, <2>1, <2>2 DEF TaskRead
<1>6. CASE TaskUpdate(p)
  <2> DEFINE k == tx[p].unit
             r == tx[p].result
  <2>1. /\ r \in Outcomes /\ k \in 0..NumUnits
        /\ Good(r) = (IF r = "SUCCESS" THEN 1 ELSE 0)
        /\ Bad(r) = (IF r = "FAILED" THEN 1 ELSE 0)
    BY <1>1 DEF Transactions, Good, Bad
  <2>2. /\ completedUnits' = completedUnits + Good(r)
        /\ failedUnits' = failedUnits + Bad(r)
        /\ completedUnits \in Nat /\ failedUnits \in Nat
        /\ unitStatus' = [unitStatus EXCEPT ![k] = r]
        /\ unitStatus \in [Units -> {"absent", "PENDING"} \cup Outcomes]
    BY <1>6 DEF TaskUpdate, UnitTypeOK
  <2>3. UnitTypeOK'
    <3>1. taskStatus' \in {"in_progress", "review", "executed"}
      BY <1>6 DEF TaskUpdate, RecomputeTaskStatus
    <3>2. completedUnits' \in Nat /\ failedUnits' \in Nat
      BY <2>1, <2>2
    <3>3. unitStatus' \in [Units -> {"absent", "PENDING"} \cup Outcomes]
      BY <2>1, <2>2
    <3>4. tx' \in [Handlers -> Transactions]
      BY <1>1, <1>6 DEF TaskUpdate, EndReport, UnitTypeOK
    <3> QED BY <3>1, <3>2, <3>3, <3>4 DEF UnitTypeOK
  <2>4. CASE k \notin Units
    <3>1. unitStatus' = unitStatus
      BY <2>2, <2>4
    <3>2. \A o \in Outcomes : Reported(o)' = Reported(o) /\ Cardinality(Reported(o)) \in Nat
      BY <3>1, UnitsFinite DEF Reported
    <3> QED BY <2>1, <2>2, <2>3, <3>2 DEF NoReportLost, Outcomes
  <2>5. CASE k \in Units
    <3>1. \A o \in Outcomes :
            /\ Cardinality(Reported(o)) \in Nat
            /\ Cardinality(Reported(o)') \in Nat
            /\ Cardinality(Reported(o)') <= Cardinality(Reported(o)) + (IF r = o THEN 1 ELSE 0)
      BY <2>1, <2>2, <2>5, ReportedAfter
    <3> QED BY <2>1, <2>2, <2>3, <3>1 DEF NoReportLost, Outcomes
  <2> QED BY <2>4, <2>5
<1> QED BY <1>3, <1>4, <1>5, <1>6 DEF TxStep

(* The rows are created with nothing reported. *)
LEMMA CreateCounts ==
    ASSUME ReportsAreCounted, CreateTask
    PROVE  ReportsAreCounted'
<1>1. UnitTypeOK'
  BY DEF ReportsAreCounted, UnitTypeOK, CreateTask
<1>2. \A o \in Outcomes : Reported(o)' = {}
  BY DEF CreateTask, Reported, Outcomes
<1>3. completedUnits' \in Nat /\ failedUnits' \in Nat
  BY <1>1 DEF UnitTypeOK
<1> QED BY <1>1, <1>2, <1>3, FS_EmptySet DEF ReportsAreCounted, NoReportLost, Outcomes

LEMMA UnitInitCounts == UnitInit => ReportsAreCounted
<1> SUFFICES ASSUME UnitInit PROVE ReportsAreCounted
  OBVIOUS
<1>1. UnitTypeOK
  BY NumUnitsAssumption, TransactionsTyped DEF UnitInit, UnitTypeOK, NoTransaction, Outcomes
<1>2. \A o \in Outcomes : Reported(o) = {}
  BY DEF UnitInit, Reported, Outcomes
<1> QED BY <1>1, <1>2, FS_EmptySet DEF UnitInit, ReportsAreCounted, NoReportLost, Outcomes

(* What leaves the rows alone and every transaction well typed. *)
LEMMA QuietCounts ==
    ASSUME ReportsAreCounted, UNCHANGED rowVars, tx' \in [Handlers -> Transactions]
    PROVE  ReportsAreCounted'
  BY DEF ReportsAreCounted, UnitTypeOK, NoReportLost, Reported, rowVars

(* What a step may do to the rows and the transactions, here and in the     *)
(* modules that call reportUnit: a failed report may begin another one at   *)
(* once.                                                                    *)
UnitAction ==
    \/ CreateTask
    \/ \E p \in Handlers :
        \/ TxStep(p)
        \/ EndReport(p) /\ UNCHANGED rowVars
        \/ /\ taskStatus # "absent"
           /\ \E k \in Units : \E r \in Outcomes :
                 tx' = [tx EXCEPT ![p] = Transaction("unitRead", k, r)]
           /\ UNCHANGED rowVars

LEMMA UnitNextActs == [UnitNext]_unitVars => [UnitAction]_unitVars
  BY DEF UnitNext, UnitAction, BeginReport, Rollback

LEMMA UnitActionCounts == ReportsAreCounted /\ [UnitAction]_unitVars => ReportsAreCounted'
<1> SUFFICES ASSUME ReportsAreCounted, [UnitAction]_unitVars
             PROVE  ReportsAreCounted'
  OBVIOUS
<1>1. /\ tx \in [Handlers -> Transactions]
      /\ NoTransaction \in Transactions
      /\ \A k \in Units, r \in Outcomes : Transaction("unitRead", k, r) \in Transactions
  BY NumUnitsAssumption, TransactionsTyped
  DEF ReportsAreCounted, UnitTypeOK, NoTransaction, Outcomes, Units
<1>2. ASSUME NEW p \in Handlers, NEW k \in Units, NEW r \in Outcomes, UNCHANGED rowVars,
             tx' = [tx EXCEPT ![p] = Transaction("unitRead", k, r)]
      PROVE  ReportsAreCounted'
  BY <1>1, <1>2, QuietCounts
<1>3. ASSUME NEW p \in Handlers, EndReport(p), UNCHANGED rowVars
      PROVE  ReportsAreCounted'
  BY <1>1, <1>3, QuietCounts DEF EndReport
<1>4. CASE UNCHANGED unitVars
  BY <1>1, <1>4, QuietCounts DEF unitVars
<1> QED BY <1>2, <1>3, <1>4, TxStepCounts, CreateCounts DEF UnitAction

(* However reports of the same unit or of several interleave, fail and roll *)
(* back, no increment of completedUnits or failedUnits is lost              *)
(* (TaskUnitService.reportUnit).                                            *)
THEOREM NoReportIsLost == UnitSpec => []ReportsAreCounted
  BY UnitInitCounts, UnitNextActs, UnitActionCounts, PTL DEF UnitSpec

-----------------------------------------------------------------------------
(* Counters that count every report still say more than the units do when   *)
(* one unit is reported twice at the same time.  Here no two requests       *)
(* report the same unit at the same time; reports of different units may    *)
(* overlap in any way.                                                      *)
Distinct == \A p, q \in Handlers : ~Idle(p) /\ ~Idle(q) /\ tx[p].unit = tx[q].unit => p = q

DistinctSpec == UnitInit /\ [][UnitNext /\ Distinct']_unitVars

(* A request past its check works on a unit nobody else reports, so its     *)
(* outcome is still to be counted; the counters it has read can only be     *)
(* behind.                                                                  *)
OpenReports ==
    \A p \in Handlers : ~Idle(p) =>
        /\ taskStatus # "absent"
        /\ tx[p].unit \in Units
        /\ tx[p].at # "unitRead" => unitStatus[tx[p].unit] = "PENDING"
        /\ tx[p].at = "taskUpdate" => /\ tx[p].completed <= completedUnits
                                      /\ tx[p].failed <= failedUnits

CountersExact == /\ completedUnits = Cardinality(Reported("SUCCESS"))
                 /\ failedUnits = Cardinality(Reported("FAILED"))

DistinctInv ==
    /\ UnitTypeOK
    /\ Distinct
    /\ OpenReports
    /\ taskStatus = "absent" => \A k \in Units : unitStatus[k] = "absent"
    /\ CountersExact
    /\ ExecutedIsPaid

LEMMA DistinctInitInv == UnitInit => DistinctInv
<1> SUFFICES ASSUME UnitInit PROVE DistinctInv
  OBVIOUS
<1>1. UnitTypeOK
  BY UnitInitCounts DEF ReportsAreCounted
<1>2. Reported("SUCCESS") = {} /\ Reported("FAILED") = {}
  BY DEF UnitInit, Reported
<1>3. \A p \in Handlers : Idle(p)
  BY DEF UnitInit, Idle, NoTransaction, Transaction
<1> QED
  BY <1>1, <1>2, <1>3, FS_EmptySet
  DEF UnitInit, DistinctInv, Distinct, OpenReports, CountersExact, ExecutedIsPaid

(* A step that reports nothing: it only moves transaction p, which keeps    *)
(* its unit or begins on one, and may take the counters as they are.        *)
LEMMA DistinctQuiet ==
    ASSUME DistinctInv, Distinct', UNCHANGED rowVars,
           NEW p \in Handlers, NEW t \in Transactions, tx' = [tx EXCEPT ![p] = t],
           t.at # "none" => /\ taskStatus # "absent"
                            /\ t.unit \in Units
                            /\ t.at # "unitRead" => unitStatus[t.unit] = "PENDING"
                            /\ t.at = "taskUpdate" => /\ t.completed <= completedUnits
                                                      /\ t.failed <= failedUnits
    PROVE  DistinctInv'
<1> USE DEF DistinctInv
<1>1. UnitTypeOK'
  BY DEF UnitTypeOK, rowVars
<1>2. OpenReports'
  BY DEF OpenReports, Idle, UnitTypeOK, rowVars
<1>3. CountersExact' /\ ExecutedIsPaid'
  BY DEF CountersExact, ExecutedIsPaid, Reported, rowVars
<1> QED BY <1>1, <1>2, <1>3 DEF rowVars

(* The statement that writes the outcome. *)
LEMMA DistinctUpdate ==
    ASSUME DistinctInv, Distinct', NEW p \in Handlers, TaskUpdate(p)
    PROVE  DistinctInv'
<1> DEFINE t == tx[p]
           k == tx[p].unit
           r == tx[p].result
<1>1. /\ t \in Transactions /\ r \in Outcomes /\ k \in Units /\ ~Idle(p)
      /\ unitStatus[k] = "PENDING"
      /\ t.completed \in Nat /\ t.failed \in Nat
      /\ t.completed <= completedUnits /\ t.failed <= failedUnits
  BY DEF DistinctInv, UnitTypeOK, OpenReports, TaskUpdate, Transactions, Idle
<1>2. /\ unitStatus' = [unitStatus EXCEPT ![k] = r]
      /\ unitStatus \in [Units -> {"absent", "PENDING"} \cup Outcomes]
      /\ completedUnits \in Nat /\ failedUnits \in Nat
      /\ completedUnits' = completedUnits + Good(r)
      /\ failedUnits' = failedUnits + Bad(r)
  BY DEF DistinctInv, UnitTypeOK, TaskUpdate
<1>3. /\ Good(r) = (IF r = "SUCCESS" THEN 1 ELSE 0)
      /\ Bad(r) = (IF r = "FAILED" THEN 1 ELSE 0)
      /\ Good(r) \in Nat /\ Bad(r) \in Nat
  BY DEF Good, Bad
<1>4. \A o \in Outcomes :
        /\ Cardinality(Reported(o)') \in Nat
        /\ Cardinality(Reported(o)') = Cardinality(Reported(o)) + (IF r = o THEN 1 ELSE 0)
  BY <1>1, <1>2, ReportedAfter
<1>5. UnitTypeOK'
  <2>1. ReportsAreCounted
    <3>1. \A o \in Outcomes : Cardinality(Reported(o)) \in Nat
      BY UnitsFinite DEF Reported
    <3> QED BY <3>1 DEF DistinctInv, CountersExact, ReportsAreCounted, NoReportLost, Outcomes
  <2>2. ReportsAreCounted'
    BY <2>1, TxStepCounts DEF TxStep
  <2> QED BY <2>2 DEF ReportsAreCounted
<1>6. CountersExact'
  BY <1>2, <1>3, <1>4 DEF DistinctInv, CountersExact, Outcomes
<1>7. OpenReports'
  <2>1. ASSUME NEW q \in Handlers, ~Idle(q)'
        PROVE  /\ q # p /\ tx'[q] = tx[q] /\ ~Idle(q) /\ tx[q].unit # k
    BY <1>1, <2>1 DEF TaskUpdate, EndReport, DistinctInv, UnitTypeOK, Distinct, Idle,
                      NoTransaction, Transaction
  <2>2. taskStatus' # "absent"
    BY DEF TaskUpdate, RecomputeTaskStatus
  <2>3. \A q \in Handlers : tx[q].completed \in Nat /\ tx[q].failed \in Nat
    BY DEF DistinctInv, UnitTypeOK, Transactions
  <2>4. /\ completedUnits' >= completedUnits /\ failedUnits' >= failedUnits
        /\ completedUnits' \in Nat /\ failedUnits' \in Nat
    BY <1>2, <1>3
  <2>5. ASSUME NEW q \in Handlers, ~Idle(q)'
        PROVE  /\ tx[q].unit \in Units
               /\ tx[q].at # "unitRead" => unitStatus'[tx[q].unit] = "PENDING"
               /\ tx[q].at = "taskUpdate" => /\ tx[q].completed <= completedUnits'
                                             /\ tx[q].failed <= failedUnits'
    BY <1>2, <2>1, <2>3, <2>4, <2>5 DEF DistinctInv, OpenReports
  <2> QED BY <2>1, <2>2, <2>5 DEF OpenReports
<1>8. ExecutedIsPaid'
  <2>1. SUFFICES ASSUME taskStatus' = "executed"
                 PROVE  Reported("SUCCESS")' = Units
    BY DEF ExecutedIsPaid
  <2>2. t.failed + Bad(r) = 0 /\ t.completed + Good(r) = NumUnits
    <3>1. taskStatus' = RecomputeTaskStatus(t.completed + Good(r), t.failed + Bad(r))
      BY DEF TaskUpdate
    <3>2. t.failed + Bad(r) \in Nat
      BY <1>1, <1>3
    <3> QED BY <2>1, <3>1, <3>2 DEF RecomputeTaskStatus
  <2>3. r = "SUCCESS"
    BY <1>1, <1>3, <2>2 DEF Outcomes
  <2>4. Cardinality(Reported("SUCCESS")') = completedUnits + 1
    BY <1>4, <2>3 DEF DistinctInv, CountersExact, Outcomes
  <2>5. Reported("SUCCESS")' \in SUBSET Units
    BY DEF Reported
  <2>6. /\ Cardinality(Reported("SUCCESS")') \in Nat
        /\ Cardinality(Reported("SUCCESS")') <= NumUnits
        /\ Cardinality(Reported("SUCCESS")') = NumUnits => Reported("SUCCESS")' = Units
    BY <2>5, UnitsFinite
  <2> QED BY <1>1, <1>2, <1>3, <2>2, <2>3, <2>4, <2>6, NumUnitsAssumption
<1>9. taskStatus' # "absent"
  BY DEF TaskUpdate, RecomputeTaskStatus
<1> QED BY <1>5, <1>6, <1>7, <1>8, <1>9 DEF DistinctInv

LEMMA DistinctNextInv == DistinctInv /\ [UnitAction /\ Distinct']_unitVars => DistinctInv'
<1> SUFFICES ASSUME DistinctInv, [UnitAction /\ Distinct']_unitVars
             PROVE  DistinctInv'
  OBVIOUS
<1>1. /\ tx \in [Handlers -> Transactions]
      /\ NoTransaction \in Transactions /\ NoTransaction.at = "none"
      /\ completedUnits \in Nat /\ failedUnits \in Nat
  <2>1. NoTransaction \in Transactions
    BY NumUnitsAssumption, TransactionsTyped DEF NoTransaction, Outcomes
  <2> QED BY <2>1 DEF DistinctInv, UnitTypeOK, NoTransaction, Transaction
<1>2. ASSUME CreateTask, Distinct'
      PROVE  DistinctInv'
  <2>1. UnitTypeOK'
    BY <1>2 DEF DistinctInv, UnitTypeOK, CreateTask
  <2>2. Reported("SUCCESS")' = {} /\ Reported("FAILED")' = {}
    BY <1>2 DEF CreateTask, Reported
  <2>3. Reported("SUCCESS") = {} /\ Reported("FAILED") = {}
    BY <1>2 DEF CreateTask, DistinctInv, Reported
  <2>4. \A p \in Handlers : Idle(p) /\ Idle(p)'
    BY <1>2 DEF CreateTask, DistinctInv, OpenReports, Idle
  <2> QED
    BY <1>2, <2>1, <2>2, <2>3, <2>4
    DEF CreateTask, DistinctInv, OpenReports, CountersExact, ExecutedIsPaid
<1>3. ASSUME NEW p \in Handlers, NEW k \in Units, NEW r \in Outcomes, taskStatus # "absent",
             tx' = [tx EXCEPT ![p] = Transaction("unitRead", k, r)], UNCHANGED rowVars, Distinct'
      PROVE  DistinctInv'
  <2> DEFINE t == Transaction("unitRead", k, r)
  <2>1. t \in Transactions /\ t.at = "unitRead" /\ t.unit = k
    BY TransactionsTyped DEF Transaction, Units
  <2> HIDE DEF t
  <2>2. tx' = [tx EXCEPT ![p] = t]
    BY <1>3 DEF t
  <2> QED BY <1>3, <2>1, <2>2, DistinctQuiet
<1>4. ASSUME NEW p \in Handlers, EndReport(p), UNCHANGED rowVars, Distinct'
      PROVE  DistinctInv'
  BY <1>1, <1>4, DistinctQuiet DEF EndReport
<1>5. ASSUME NEW p \in Handlers, TxStep(p), Distinct'
      PROVE  DistinctInv'
  <2>1. tx[p] \in Transactions
    BY <1>1
  <2>2. tx[p].at # "none" => /\ taskStatus # "absent"
                             /\ tx[p].unit \in Units
                             /\ tx[p].at # "unitRead" => unitStatus[tx[p].unit] = "PENDING"
    BY DEF DistinctInv, OpenReports, Idle
  <2>3. CASE UnitRead(p) /\ ~EndReport(p)
    <3> DEFINE t == [tx[p] EXCEPT !.at = "unitUpdate"]
    <3>1. t \in Transactions /\ t.at = "unitUpdate" /\ t.unit = tx[p].unit
      BY <2>1 DEF Transactions
    <3>2. tx' = [tx EXCEPT ![p] = t] /\ unitStatus[tx[p].unit] = "PENDING" /\ UNCHANGED rowVars
      BY <2>3 DEF UnitRead
    <3>3. tx[p].at = "unitRead"
      BY <2>3 DEF UnitRead
    <3> HIDE DEF t
    <3> QED BY <1>5, <2>2, <3>1, <3>2, <3>3, DistinctQuiet
  <2>4. CASE UnitRead(p) /\ EndReport(p)
    BY <1>4, <1>5, <2>4 DEF UnitRead
  <2>5. CASE UnitUpdate(p)
    <3> DEFINE t == [tx[p] EXCEPT !.at = "taskRead"]
    <3>1. t \in Transactions /\ t.at = "taskRead" /\ t.unit = tx[p].unit
      BY <2>1 DEF Transactions
    <3>2. tx' = [tx EXCEPT ![p] = t] /\ tx[p].at = "unitUpdate" /\ UNCHANGED rowVars
      BY <2>5 DEF UnitUpdate
    <3> HIDE DEF t
    <3> QED BY <1>5, <2>2, <3>1, <3>2, DistinctQuiet
  <2>6. CASE TaskRead(p)
    <3> DEFINE t == [tx[p] EXCEPT !.at = "taskUpdate", !.completed = completedUnits,
                                  !.failed = failedUnits]
    <3>1. /\ t \in Transactions /\ t.at = "taskUpdate" /\ t.unit = tx[p].unit
          /\ t.completed = completedUnits /\ t.failed = failedUnits
      BY <1>1, <2>1 DEF Transactions
    <3>2. tx' = [tx EXCEPT ![p] = t] /\ tx[p].at = "taskRead" /\ UNCHANGED rowVars
      BY <2>6 DEF TaskRead
    <3> HIDE DEF t
    <3>3. t.completed <= completedUnits /\ t.failed <= failedUnits
      BY <1>1, <3>1
    <3> QED BY <1>5, <2>2, <3>1, <3>2, <3>3, DistinctQuiet
  <2> QED BY <1>5, <2>3, <2>4, <2>5, <2>6, DistinctUpdate DEF TxStep
<1>6. ASSUME UNCHANGED unitVars
      PROVE  DistinctInv'
  BY <1>6
  DEF unitVars, rowVars, DistinctInv, UnitTypeOK, Distinct, OpenReports, Idle, CountersExact,
      ExecutedIsPaid, Reported
<1> QED BY <1>2, <1>3, <1>4, <1>5, <1>6 DEF UnitAction

(* The invariant of every behaviour without two reports of one unit. *)
THEOREM DistinctInvariant == DistinctSpec => []DistinctInv
<1>1. [UnitNext /\ Distinct']_unitVars => [UnitAction /\ Distinct']_unitVars
  BY UnitNextActs
<1> QED BY <1>1, DistinctInitInv, DistinctNextInv, PTL DEF DistinctSpec

(* Reporting one unit twice at the same time is the only way a task is      *)
(* recorded as executed with a unit that is not: without it, whatever else  *)
(* overlaps, the counters are exact and executed means that every unit was  *)
(* paid (TaskUnitService.reportUnit, recomputeTaskStatus).                  *)
THEOREM DistinctReportsArePaid == DistinctSpec => [](CountersExact /\ ExecutedIsPaid)
<1>1. DistinctInv => CountersExact /\ ExecutedIsPaid
  BY DEF DistinctInv
<1> QED BY <1>1, DistinctInvariant, PTL

-----------------------------------------------------------------------------
(* One request at a time inside reportUnit. *)
Serial == \A p, q \in Handlers : ~Idle(p) /\ ~Idle(q) => p = q

SerialSpec == UnitInit /\ [][UnitNext /\ Serial']_unitVars

(* What the transaction has read is then what it finds at its commit, so    *)
(* the status it computes is the one the units imply.                       *)
SnapshotCurrent ==
    \A p \in Handlers : tx[p].at = "taskUpdate" =>
        tx[p].completed = completedUnits /\ tx[p].failed = failedUnits

StatusCurrent ==
    completedUnits + failedUnits > 0 =>
        taskStatus = RecomputeTaskStatus(completedUnits, failedUnits)

SerialInv == DistinctInv /\ Serial /\ SnapshotCurrent /\ StatusCurrent

LEMMA SerialInitInv == UnitInit => SerialInv
<1> SUFFICES ASSUME UnitInit PROVE SerialInv
  OBVIOUS
<1>1. \A p \in Handlers : Idle(p) /\ tx[p].at = "none"
  BY DEF UnitInit, Idle, NoTransaction, Transaction
<1>2. ~(completedUnits + failedUnits > 0)
  BY DEF UnitInit
<1> QED BY <1>1, <1>2, DistinctInitInv DEF SerialInv, Serial, SnapshotCurrent, StatusCurrent

LEMMA SerialNextInv == SerialInv /\ [UnitAction /\ Serial']_unitVars => SerialInv'
<1> SUFFICES ASSUME SerialInv, [UnitAction /\ Serial']_unitVars
             PROVE  SerialInv'
  OBVIOUS
<1>1. DistinctInv'
  <2>1. Serial' => Distinct'
    BY DEF Serial, Distinct, Idle
  <2> QED BY <2>1, DistinctNextInv DEF SerialInv
<1>2. Serial'
  BY DEF SerialInv, Serial, Idle, unitVars
<1>3. /\ tx \in [Handlers -> Transactions]
      /\ NoTransaction.at = "none"
      /\ completedUnits \in Nat /\ failedUnits \in Nat
  BY DEF SerialInv, DistinctInv, UnitTypeOK, NoTransaction, Transaction
<1>4. ASSUME UNCHANGED rowVars, NEW p \in Handlers, NEW t, tx' = [tx EXCEPT ![p] = t],
             t.at = "taskUpdate" => t.completed = completedUnits /\ t.failed = failedUnits
      PROVE  SnapshotCurrent' /\ StatusCurrent'
  BY <1>3, <1>4 DEF SerialInv, SnapshotCurrent, StatusCurrent, rowVars
<1>5. CASE CreateTask
  <2>1. Reported("SUCCESS") = {} /\ Reported("FAILED") = {}
    BY <1>5 DEF CreateTask, SerialInv, DistinctInv, Reported
  <2>2. completedUnits' = 0 /\ failedUnits' = 0
    BY <1>5, <2>1, FS_EmptySet DEF CreateTask, SerialInv, DistinctInv, CountersExact
  <2>3. ~(completedUnits' + failedUnits' > 0)
    BY <2>2
  <2> QED BY <1>1, <1>2, <1>5, <2>3 DEF CreateTask, SerialInv, SnapshotCurrent, StatusCurrent
<1>6. ASSUME NEW p \in Handlers, EndReport(p), UNCHANGED rowVars
      PROVE  SnapshotCurrent' /\ StatusCurrent'
  BY <1>3, <1>4, <1>6 DEF EndReport
<1>7. ASSUME NEW p \in Handlers, NEW k \in Units, NEW r \in Outcomes, UNCHANGED rowVars,
             tx' = [tx EXCEPT ![p] = Transaction("unitRead", k, r)]
      PROVE  SnapshotCurrent' /\ StatusCurrent'
  BY <1>4, <1>7 DEF Transaction
<1>8. ASSUME NEW p \in Handlers, TxStep(p)
      PROVE  SnapshotCurrent' /\ StatusCurrent'
  <2> DEFINE u == [tx[p] EXCEPT !.at = "unitUpdate"]
             v == [tx[p] EXCEPT !.at = "taskRead"]
             w == [tx[p] EXCEPT !.at = "taskUpdate", !.completed = completedUnits,
                                !.failed = failedUnits]
  <2>1. /\ u.at = "unitUpdate" /\ v.at = "taskRead"
        /\ w.completed = completedUnits /\ w.failed = failedUnits
    BY <1>3 DEF Transactions
  <2>2. CASE UnitRead(p)
    BY <1>4, <1>6, <2>1, <2>2 DEF UnitRead
  <2>3. CASE UnitUpdate(p)
    BY <1>4, <2>1, <2>3 DEF UnitUpdate
  <2>4. CASE TaskRead(p)
    <3>1. tx' = [tx EXCEPT ![p] = w] /\ UNCHANGED rowVars
      BY <2>4 DEF TaskRead
    <3> HIDE DEF w
    <3> QED BY <1>4, <2>1, <3>1
  <2>5. CASE TaskUpdate(p)
    <3>1. \A q \in Handlers : tx'[q].at # "taskUpdate"
      <4>1. \A q \in Handlers : q # p => Idle(q)
        BY <2>5 DEF TaskUpdate, SerialInv, Serial, Idle
      <4>2. \A q \in Handlers : tx'[q].at = "none"
        BY <1>3, <2>5, <4>1 DEF TaskUpdate, EndReport, Idle
      <4> QED BY <4>2
    <3>2. /\ tx[p].completed = completedUnits /\ tx[p].failed = failedUnits
      BY <2>5 DEF TaskUpdate, SerialInv, SnapshotCurrent
    <3>3. taskStatus' = RecomputeTaskStatus(completedUnits', failedUnits')
      BY <2>5, <3>2 DEF TaskUpdate
    <3> QED BY <3>1, <3>3 DEF SnapshotCurrent, StatusCurrent, RecomputeTaskStatus
  <2> QED BY <1>8, <2>2, <2>3, <2>4, <2>5 DEF TxStep
<1>9. ASSUME UNCHANGED unitVars
      PROVE  SnapshotCurrent' /\ StatusCurrent'
  BY <1>9 DEF unitVars, rowVars, SerialInv, SnapshotCurrent, StatusCurrent
<1>10. ASSUME ~CreateTask
       PROVE  SnapshotCurrent' /\ StatusCurrent'
  BY <1>6, <1>7, <1>8, <1>9, <1>10 DEF UnitAction
<1> QED
  BY <1>1, <1>2, <1>5, <1>10 DEF SerialInv

(* One at a time, reports also leave the status the units imply.            *)
LEMMA SerialMatches == SerialInv => TaskMatchesUnits
<1> SUFFICES ASSUME SerialInv PROVE TaskMatchesUnits
  OBVIOUS
<1> QED BY DEF SerialInv, DistinctInv, CountersExact, StatusCurrent, TaskMatchesUnits

(* A task always agrees with its units, counters and status, when requests  *)
(* do not overlap inside reportUnit (TaskUnitService.reportUnit).           *)
THEOREM SerialTaskMatches == SerialSpec => []TaskMatchesUnits
<1>1. [UnitNext /\ Serial']_unitVars => [UnitAction /\ Serial']_unitVars
  BY UnitNextActs
<1> QED BY <1>1, SerialInitInv, SerialNextInv, SerialMatches, PTL DEF SerialSpec

-----------------------------------------------------------------------------
(* The settlement of the batches *)

(* The intents come before the task and ask for what their batch is due. *)
RowsDue ==
    \A k \in Keys : /\ Exists(k) => payload[k] = Due[k]
                    /\ taskStatus # "absent" => Exists(k)

(* A unit shows SUCCESS only over a completed intent. *)
UnitsProven == \A k \in Keys : unitStatus[k] = "SUCCESS" => status[k] = "COMPLETED"

(* What a suspended request may still rely on.  From BoundLabels on the     *)
(* hash it works with is the intent's; at ProvenLabels the transaction was  *)
(* seen to pay the batch, and at failWrite it was at least mined.  In the   *)
(* reconcile loop a copy that says VERIFYING is taken only where no UPDATE  *)
(* of beginVerification is left to do.                                      *)
InitLabels == {"initAcquire", "initFind", "initCreate", "initAttach"}
ProvenLabels == {"completeRead", "completeWrite"}
UnseenLabels == {"reportRead", "bindRead", "bindWrite", "beginRead", "beginWrite"}
BoundLabels == ProvenLabels \cup {"beginRead", "beginWrite", "beginReread", "receipt", "failWrite"}

HandlerOK(p) ==
    LET k == local[p].unit
        h == local[p].hash IN
    /\ pc[p] \notin InitLabels \cup {"idle"} => k \in Keys /\ Exists(k)
    /\ pc[p] \notin {"initAcquire", "initFind", "initCreate", "idle"} => taskStatus # "absent"
    /\ pc[p] \in {"initFind", "initCreate"} => \A l \in Keys : Exists(l)
    /\ pc[p] \in {"reportRead", "bindRead", "bindWrite"} => h \in Hashes
    /\ pc[p] = "reconcileRead" => h = NoHash
    /\ pc[p] \in BoundLabels \/ (pc[p] = "reporting" /\ h # NoHash) =>
           transactionHash[k] = h /\ h \in Hashes
    /\ pc[p] \in UnseenLabels => local[p].seen # "VERIFYING"
    /\ pc[p] \in ProvenLabels => PaysBatch(h, k)
    /\ pc[p] = "failWrite" => chain[h] # "unseen"

(* A transaction of reportUnit belongs to the request that waits for it. *)
TxOK(p) == ~Idle(p) => /\ pc[p] = "reporting"
                       /\ tx[p].unit = local[p].unit
                       /\ tx[p].result = "SUCCESS" => status[local[p].unit] = "COMPLETED"

IndInv ==
    /\ StoreInv
    /\ TypeOK
    /\ NoReportLost
    /\ RowsDue
    /\ UnitsProven
    /\ PendingIsNotFailure
    /\ \A p \in Handlers : HandlerOK(p) /\ TxOK(p)

-----------------------------------------------------------------------------
(* Every await of a request is a statement of the store or leaves the store *)
(* alone: the completion it issues follows an exact receipt, the failure a  *)
(* bound hash.                                                              *)
LEMMA PayrollStoreStep == IndInv /\ [Next]_vars => [StoreNext]_storeVars
<1> SUFFICES ASSUME IndInv, [Next]_vars
             PROVE  [StoreNext]_storeVars
  OBVIOUS
<1>1. ASSUME NEW p \in Handlers, Step(p)
      PROVE  [StoreNext]_storeVars
  <2> DEFINE k == local[p].unit
             h == local[p].hash
  <2>1. HandlerOK(p)
    BY DEF IndInv
  <2>2. CASE InitAcquire(p)
    <3>1. \A l \in Keys : Due[l] \in Payloads
      BY UnitsAssumption
    <3> QED BY <2>2, <3>1 DEF InitAcquire, StoreNext
  <2>3. CASE BindUpdate(p)
    <3>1. k \in Keys /\ Exists(k) /\ h \in Hashes
      BY <2>1, <2>3 DEF BindUpdate, HandlerOK, InitLabels
    <3> QED BY <2>3, <3>1 DEF BindUpdate, StoreNext
  <2>4. CASE BeginWrite(p)
    <3>1. k \in Keys /\ "SUBMITTED" \in Statuses
      BY <2>1, <2>4 DEF BeginWrite, HandlerOK, InitLabels, Statuses
    <3> QED BY <2>4, <3>1 DEF BeginWrite, StoreNext
  <2>5. CASE CompleteUpdate(p)
    <3>1. /\ k \in Keys
          /\ transactionHash[k] # NoHash
          /\ ReceiptMatches(transactionHash[k], payload[k])
      BY <2>1, <2>5, NullAssumption
      DEF CompleteUpdate, HandlerOK, InitLabels, BoundLabels, ProvenLabels, PaysBatch
    <3> QED BY <2>5, <3>1 DEF CompleteUpdate, StoreNext
  <2>6. CASE FailUpdate(p)
    <3>1. k \in Keys /\ transactionHash[k] # NoHash
      BY <2>1, <2>6, NullAssumption DEF FailUpdate, HandlerOK, InitLabels, BoundLabels
    <3> QED BY <2>6, <3>1 DEF FailUpdate, StoreNext
  <2>7. CASE InitFind(p) \/ InitCreate(p) \/ InitAttach(p) \/ ReportRead(p) \/ BindRead(p)
    BY <2>7 DEF InitFind, InitCreate, InitAttach, ReportRead, BindRead
  <2>8. CASE ReconcileRead(p) \/ BeginRead(p) \/ BeginReread(p) \/ Receipt(p)
    BY <2>8 DEF ReconcileRead, BeginRead, BeginReread, Receipt
  <2>9. CASE CompleteRead(p) \/ Reporting(p)
    BY <2>9 DEF CompleteRead, Reporting
  <2> QED BY <1>1, <2>2, <2>3, <2>4, <2>5, <2>6, <2>7, <2>8, <2>9 DEF Step
<1>2. ASSUME NEW p \in Handlers, InitRequest(p) \/ ReportRequest(p) \/ ReportFails(p) \/ Crash(p)
      PROVE  UNCHANGED storeVars
  BY <1>2 DEF InitRequest, ReportRequest, ReportFails, Crash
<1>3. CASE OtherRequests
  BY <1>3 DEF OtherRequests, StoreNext
<1>4. CASE Chain
  BY <1>4 DEF Chain, StoreNext, Clock
<1>5. CASE UNCHANGED vars
  BY <1>5 DEF vars
<1> QED BY <1>1, <1>2, <1>3, <1>4, <1>5 DEF Next

(* The two ways a request goes on after an exception: it leaves the task's  *)
(* rows alone, or it begins to report its unit.                             *)
LEMMA ReportActs ==
    ASSUME NEW p \in Handlers, NEW r \in Outcomes, ReportUnit(p, r), UNCHANGED rowVars,
           local[p].unit \in Keys, taskStatus # "absent"
    PROVE  UnitAction
  BY UnitsAssumption DEF ReportUnit, BeginReport, UnitAction

(* Every await of a request is a step of reportUnit or leaves the task, its *)
(* units and the transactions alone.                                        *)
LEMMA PayrollUnitStep == IndInv /\ [Next]_vars => [UnitAction]_unitVars
<1> SUFFICES ASSUME IndInv, [Next]_vars
             PROVE  UnitAction \/ UNCHANGED unitVars
  OBVIOUS
<1> USE DEF Goto, Jump, Become, Return
<1>1. ASSUME UNCHANGED <<taskVars, tx>>
      PROVE  UNCHANGED unitVars
  BY <1>1 DEF taskVars, unitVars
<1>2. ASSUME NEW p \in Handlers, NextUnit(p)
      PROVE  UNCHANGED tx
  BY <1>2 DEF NextUnit
<1>3. ASSUME NEW p \in Handlers, Step(p)
      PROVE  UnitAction \/ UNCHANGED unitVars
  <2>1. HandlerOK(p)
    BY DEF IndInv
  <2>2. ASSUME NEW r \in Outcomes, ReportUnit(p, r), UNCHANGED taskVars,
               pc[p] \notin InitLabels \cup {"idle"}
        PROVE  UnitAction
    <3>1. local[p].unit \in Keys /\ taskStatus # "absent"
      BY <2>1, <2>2 DEF HandlerOK, InitLabels
    <3> QED BY <2>2, <3>1, ReportActs DEF taskVars
  <2>3. ASSUME Throw(p), UNCHANGED taskVars, pc[p] \notin InitLabels \cup {"idle"}
        PROVE  UnitAction \/ UNCHANGED unitVars
    <3>1. CASE \E r \in Outcomes : ReportUnit(p, r)
      BY <2>2, <2>3, <3>1
    <3>2. CASE UNCHANGED tx
      BY <1>1, <2>3, <3>2
    <3> QED BY <2>3, <3>1, <3>2 DEF Throw, Outcomes
  <2>4. CASE InitCreate(p)
    BY <2>4 DEF InitCreate, UnitAction, unitVars
  <2>5. CASE InitAcquire(p) \/ InitFind(p) \/ InitAttach(p)
    <3>1. UNCHANGED <<rowVars, tx>>
      BY <1>2, <2>5 DEF InitAcquire, InitFind, InitAttach, taskVars
    <3> QED BY <3>1 DEF unitVars
  <2>6. CASE ReportRead(p) \/ BindRead(p) \/ BindUpdate(p) \/ BeginRead(p) \/ BeginReread(p)
    BY <1>1, <2>6 DEF ReportRead, BindRead, BindUpdate, BeginRead, BeginReread
  <2>7. CASE ReconcileRead(p)
    <3>1. UNCHANGED taskVars /\ pc[p] \notin InitLabels \cup {"idle"}
      BY <2>7 DEF ReconcileRead, InitLabels
    <3>2. UNCHANGED tx \/ \E r \in Outcomes : ReportUnit(p, r)
      BY <1>2, <2>7 DEF ReconcileRead, Outcomes
    <3> QED BY <1>1, <2>2, <3>1, <3>2
  <2>8. CASE BeginWrite(p) \/ Receipt(p)
    <3>1. UNCHANGED taskVars /\ pc[p] \notin InitLabels \cup {"idle"}
      BY <2>8 DEF BeginWrite, Receipt, InitLabels
    <3>2. UNCHANGED tx \/ Throw(p)
      BY <1>2, <2>8 DEF BeginWrite, Receipt
    <3> QED BY <1>1, <2>3, <3>1, <3>2
  <2>9. CASE CompleteRead(p) \/ CompleteUpdate(p) \/ FailUpdate(p)
    <3>1. UNCHANGED taskVars /\ pc[p] \notin InitLabels \cup {"idle"}
      BY <2>9 DEF CompleteRead, CompleteUpdate, FailUpdate, InitLabels
    <3>2. UNCHANGED tx \/ Throw(p) \/ \E r \in Outcomes : ReportUnit(p, r)
      BY <2>9 DEF CompleteRead, CompleteUpdate, FailUpdate, Outcomes
    <3> QED BY <1>1, <2>2, <2>3, <3>1, <3>2
  <2>10. CASE Reporting(p)
    <3>1. CASE TxStep(p)
      BY <3>1 DEF UnitAction
    <3>2. CASE NextUnit(p) /\ UNCHANGED taskVars
      BY <1>1, <1>2, <3>2
    <3> QED BY <2>10, <3>1, <3>2 DEF Reporting
  <2> QED BY <1>3, <2>4, <2>5, <2>6, <2>7, <2>8, <2>9, <2>10 DEF Step
<1>4. ASSUME NEW p \in Handlers, InitRequest(p) \/ ReportRequest(p)
      PROVE  UnitAction \/ UNCHANGED unitVars
  <2>1. CASE UNCHANGED tx
    BY <1>1, <1>4, <2>1 DEF InitRequest, ReportRequest
  <2>2. CASE \E k \in Keys : BeginReport(p, k, "FAILED") /\ UNCHANGED taskVars /\ taskStatus # "absent"
    BY <2>2, UnitsAssumption DEF BeginReport, UnitAction, Outcomes, taskVars
  <2> QED BY <1>4, <2>1, <2>2 DEF InitRequest, ReportRequest
<1>5. ASSUME NEW p \in Handlers, ReportFails(p)
      PROVE  UnitAction
  <2>1. HandlerOK(p)
    BY DEF IndInv
  <2>2. local[p].unit \in Units /\ taskStatus # "absent" /\ UNCHANGED rowVars
    BY <1>5, <2>1, UnitsAssumption DEF HandlerOK, InitLabels, ReportFails, taskVars
  <2> QED BY <1>5, <2>2 DEF ReportFails, UnitAction, Outcomes
<1>6. ASSUME NEW p \in Handlers, Crash(p)
      PROVE  UnitAction
  BY <1>6 DEF Crash, UnitAction, taskVars
<1>7. CASE OtherRequests \/ Chain \/ UNCHANGED vars
  BY <1>1, <1>7 DEF OtherRequests, Chain, vars
<1> QED BY <1>3, <1>4, <1>5, <1>6, <1>7 DEF Next

-----------------------------------------------------------------------------
(* What a step of slot p does to the slots: it moves p, with well-typed     *)
(* locals, and no other one.                                                *)
MovesOnly(p) ==
    /\ pc' \in [Handlers -> Labels]
    /\ local' \in [Handlers -> Locals]
    /\ \A q \in Handlers : q # p => pc'[q] = pc[q] /\ local'[q] = local[q] /\ tx'[q] = tx[q]

HandlerAction(p) ==
    InitRequest(p) \/ ReportRequest(p) \/ Step(p) \/ ReportFails(p) \/ Crash(p)

LEMMA SlotStep ==
    ASSUME IndInv, NEW p \in Handlers, HandlerAction(p)
    PROVE  MovesOnly(p)
<1>1. /\ pc \in [Handlers -> Labels]
      /\ local \in [Handlers -> Locals]
      /\ tx \in [Handlers -> Transactions]
      /\ status \in [Keys -> Statuses \cup {"ABSENT"}]
      /\ transactionHash \in [Keys -> Hashes \cup {NoHash}]
      /\ HandlerOK(p)
  BY DEF IndInv, TypeOK, StoreTypeOK, UnitTypeOK
<1>2. ASSUME NEW label \in Labels, NEW r \in Locals, NEW t \in Transactions,
             pc' = [pc EXCEPT ![p] = label],
             local' = [local EXCEPT ![p] = r] \/ UNCHANGED local,
             tx' = [tx EXCEPT ![p] = t] \/ UNCHANGED tx
      PROVE  MovesOnly(p)
  BY <1>1, <1>2 DEF MovesOnly
<1>3. ASSUME NEW label \in Labels, NEW r \in Locals, Become(p, label, r) \/ Jump(p, label)
      PROVE  MovesOnly(p)
  BY <1>1, <1>2, <1>3 DEF Become, Jump, Goto
<1>4. \A f \in {"none", "init", "reconcile", "report"}, k \in 0..NumUnits, h \in Hashes \cup {NoHash} :
        NewLocal(f, k, h) \in Locals
  BY DEF NewLocal, Locals
<1>5. IdleLocal \in Locals /\ NoTransaction \in Transactions
  BY <1>4, NumUnitsAssumption, TransactionsTyped DEF IdleLocal, NoTransaction, Outcomes
<1>6. Return(p) => MovesOnly(p)
  BY <1>3, <1>5 DEF Return, Labels
<1>7. local[p] \in Locals /\ local[p].unit \in 0..NumUnits
  BY <1>1 DEF Locals
<1>8. NextUnit(p) => MovesOnly(p)
  <2>1. local[p].unit < NumUnits => local[p].unit + 1 \in 0..NumUnits
    BY <1>7, NumUnitsAssumption
  <2>2. local[p].unit < NumUnits => NewLocal("reconcile", local[p].unit + 1, NoHash) \in Locals
    BY <1>4, <2>1
  <2> QED BY <1>3, <1>6, <2>2 DEF NextUnit, Labels
<1>9. \A k \in 0..NumUnits, r \in Outcomes : Transaction("unitRead", k, r) \in Transactions
  BY TransactionsTyped
<1>10. ASSUME NEW r \in Outcomes, ReportUnit(p, r)
       PROVE  MovesOnly(p)
  BY <1>2, <1>7, <1>9, <1>10 DEF ReportUnit, BeginReport, Labels
<1>11. Throw(p) => MovesOnly(p)
  BY <1>3, <1>6, <1>7, <1>10 DEF Throw, Labels, Outcomes
<1>12. CASE InitRequest(p)
  BY <1>3, <1>4, <1>12, NumUnitsAssumption DEF InitRequest, Labels
<1>13. CASE ReportRequest(p)
  <2>1. \A k \in Keys, h \in Hashes \cup {NoHash} :
          NewLocal("report", k, h) \in Locals /\ Transaction("unitRead", k, "FAILED") \in Transactions
    BY <1>4, <1>9, UnitsAssumption, NumUnitsAssumption DEF Units, Outcomes
  <2>2. CASE \E k \in Keys : /\ pc' = [pc EXCEPT ![p] = "reporting"]
                             /\ local' = [local EXCEPT ![p] = NewLocal("report", k, NoHash)]
                             /\ BeginReport(p, k, "FAILED")
    BY <1>2, <2>1, <2>2 DEF BeginReport, Labels
  <2>3. CASE \E k \in Keys : \E h \in Hashes : Become(p, "reportRead", NewLocal("report", k, h))
    BY <1>3, <2>1, <2>3 DEF Labels
  <2> QED BY <1>13, <2>2, <2>3 DEF ReportRequest
<1>14. CASE InitAcquire(p) \/ InitFind(p) \/ InitCreate(p) \/ InitAttach(p)
  <2>1. UNCHANGED <<handlerVars, tx>> => MovesOnly(p)
    BY <1>1 DEF MovesOnly, handlerVars
  <2>2. NewLocal("reconcile", 0, NoHash) \in Locals
    BY <1>4, NumUnitsAssumption
  <2> QED
    BY <1>3, <1>7, <1>8, <1>14, <2>1, <2>2 DEF InitAcquire, InitFind, InitCreate, InitAttach, Labels
<1>15. CASE ReportRead(p) \/ BindRead(p) \/ BindUpdate(p)
  BY <1>3, <1>6, <1>7, <1>15 DEF ReportRead, BindRead, BindUpdate, Labels
<1>16. ASSUME NEW k \in Keys, k = local[p].unit
       PROVE  /\ [local[p] EXCEPT !.seen = status[k]] \in Locals
              /\ [local[p] EXCEPT !.hash = transactionHash[k], !.seen = status[k]] \in Locals
  <2>1. status[k] \in Statuses \cup {"ABSENT"} /\ transactionHash[k] \in Hashes \cup {NoHash}
    BY <1>1
  <2> QED BY <1>7, <2>1 DEF Locals
<1>17. CASE ReconcileRead(p)
  <2>1. local[p].unit \in Keys
    BY <1>1, <1>17 DEF ReconcileRead, HandlerOK, InitLabels
  <2> QED BY <1>3, <1>8, <1>10, <1>16, <1>17, <2>1 DEF ReconcileRead, Labels, Outcomes
<1>18. CASE BeginRead(p) \/ BeginReread(p)
  <2>1. local[p].unit \in Keys
    BY <1>1, <1>18 DEF BeginRead, BeginReread, HandlerOK, InitLabels
  <2> QED BY <1>3, <1>7, <1>16, <1>18, <2>1 DEF BeginRead, BeginReread, Labels
<1>19. CASE BeginWrite(p) \/ Receipt(p) \/ CompleteRead(p)
  BY <1>3, <1>7, <1>8, <1>10, <1>11, <1>19 DEF BeginWrite, Receipt, CompleteRead, Labels, Outcomes
<1>20. CASE CompleteUpdate(p) \/ FailUpdate(p)
  BY <1>6, <1>10, <1>11, <1>20 DEF CompleteUpdate, FailUpdate, Outcomes
<1>21. CASE Reporting(p)
  <2>1. TxStep(p) => \A q \in Handlers : q # p => tx'[q] = tx[q]
    BY <1>1 DEF TxStep, UnitRead, UnitUpdate, TaskRead, TaskUpdate, EndReport
  <2> QED BY <1>1, <1>8, <1>21, <2>1 DEF Reporting, MovesOnly, handlerVars
<1>22. CASE ReportFails(p) \/ Crash(p)
  <2>1. \A q \in Handlers : q # p => tx'[q] = tx[q]
    BY <1>1, <1>22 DEF ReportFails, Crash, EndReport
  <2>2. pc' \in [Handlers -> Labels] /\ \A q \in Handlers : q # p => pc'[q] = pc[q]
    BY <1>1, <1>22 DEF ReportFails, Crash, handlerVars, Labels
  <2>3. local' \in [Handlers -> Locals] /\ \A q \in Handlers : q # p => local'[q] = local[q]
    BY <1>1, <1>5, <1>22 DEF ReportFails, Crash, handlerVars
  <2> QED BY <2>1, <2>2, <2>3 DEF MovesOnly
<1> QED
  BY <1>12, <1>13, <1>14, <1>15, <1>17, <1>18, <1>19, <1>20, <1>21, <1>22
  DEF HandlerAction, Step

-----------------------------------------------------------------------------
(* The rows after any step: an intent that appears asks for what its batch  *)
(* is due, and the task appears when all of them are there.                 *)
LEMMA RowsDueStep ==
    ASSUME IndInv, [Next]_vars
    PROVE  RowsDue'
<1>1. /\ [StoreNext]_storeVars /\ StoreInv /\ StoreTypeOK
      /\ \A k \in Keys : Exists(k) => Exists(k)' /\ payload'[k] = payload[k]
  BY PayrollStoreStep, StoreStable DEF IndInv, StoreInv
<1>2. ASSUME NEW k \in Keys, ~Exists(k), Exists(k)'
      PROVE  payload'[k] = Due[k]
  <2>1. ASSUME NEW p \in Handlers, InitAcquire(p)
        PROVE  payload'[k] = Due[k]
    BY <1>1, <1>2, <2>1 DEF InitAcquire, AcquireCreate, Exists, StoreTypeOK
  <2>2. ASSUME NEW p \in Handlers, HandlerOK(p), pc[p] \notin InitLabels \cup {"idle"},
               NEW l \in Keys, l = local[p].unit,
               BindWrite(l, local[p].hash) \/ AdvanceWrite(l, "SUBMITTED") \/ CompleteWrite(l) \/ FailWrite(l)
        PROVE  FALSE
    <3>1. Exists(l)
      BY <2>2 DEF HandlerOK
    <3> QED BY <1>1, <1>2, <2>2, <3>1
        DEF Exists, StoreTypeOK, BindWrite, AdvanceWrite, CompleteWrite, FailWrite, TransitionWrite
  <2>3. ASSUME NEW p \in Handlers, BindUpdate(p) \/ BeginWrite(p) \/ CompleteUpdate(p) \/ FailUpdate(p)
        PROVE  FALSE
    <3>1. HandlerOK(p) /\ pc[p] \notin InitLabels \cup {"idle"}
      BY <2>3 DEF IndInv, BindUpdate, BeginWrite, CompleteUpdate, FailUpdate, InitLabels
    <3>2. local[p].unit \in Keys /\ ~UNCHANGED storeVars
      BY <1>2, <3>1 DEF HandlerOK, storeVars, Exists
    <3> QED BY <2>2, <2>3, <3>1, <3>2
        DEF BindUpdate, BeginWrite, CompleteUpdate, FailUpdate, storeVars
  <2>4. ASSUME OtherRequests
        PROVE  FALSE
    BY <1>1, <1>2, <2>4
    DEF OtherRequests, Exists, StoreTypeOK, PrepareWrite, AdvanceWrite, BindWrite, CancelWrite,
        CancelAs, TransitionWrite
  <2>5. CASE Chain \/ UNCHANGED vars
    BY <1>2, <2>5 DEF Chain, Mine, vars, storeVars, Exists
  <2>6. ASSUME NEW p \in Handlers,
               InitRequest(p) \/ ReportRequest(p) \/ ReportFails(p) \/ Crash(p)
               \/ InitFind(p) \/ InitCreate(p) \/ InitAttach(p) \/ ReportRead(p) \/ BindRead(p)
        PROVE  FALSE
    BY <1>2, <2>6
    DEF InitRequest, ReportRequest, ReportFails, Crash, InitFind, InitCreate, InitAttach,
        ReportRead, BindRead, storeVars, Exists
  <2>7. ASSUME NEW p \in Handlers,
               ReconcileRead(p) \/ BeginRead(p) \/ BeginReread(p) \/ Receipt(p)
               \/ CompleteRead(p) \/ Reporting(p)
        PROVE  FALSE
    BY <1>2, <2>7
    DEF ReconcileRead, BeginRead, BeginReread, Receipt, CompleteRead, Reporting, storeVars, Exists
  <2> QED BY <2>1, <2>3, <2>4, <2>5, <2>6, <2>7 DEF Next, Step
<1>3. ASSUME taskStatus = "absent", taskStatus' # "absent", NEW k \in Keys
      PROVE  Exists(k)
  <2>1. ~UNCHANGED rowVars
    BY <1>3 DEF rowVars
  <2>2. PICK p \in Handlers : InitCreate(p) \/ (Reporting(p) /\ TxStep(p))
    BY <2>1
    DEF Next, Step, vars, taskVars, OtherRequests, Chain, InitRequest, ReportRequest, ReportFails,
        Crash, InitAcquire, InitFind, InitAttach, ReportRead, BindRead, BindUpdate, ReconcileRead,
        BeginRead, BeginWrite, BeginReread, Receipt, CompleteRead, CompleteUpdate, FailUpdate,
        Reporting
  <2> QED BY <1>3, <2>2 DEF IndInv, HandlerOK, InitCreate, Reporting
<1>4. ASSUME NEW k \in Keys
      PROVE  (Exists(k) => payload[k] = Due[k]) /\ (taskStatus # "absent" => Exists(k))
  BY DEF IndInv, RowsDue
<1>5. ASSUME NEW k \in Keys
      PROVE  /\ Exists(k)' => payload'[k] = Due[k]
             /\ taskStatus' # "absent" => Exists(k)'
  BY <1>1, <1>2, <1>3, <1>4
<1> QED BY <1>5 DEF RowsDue

(* A unit becomes SUCCESS only by the transaction of a request whose intent *)
(* is completed, and a completed intent stays so.                           *)
LEMMA UnitsProvenStep ==
    ASSUME IndInv, [Next]_vars
    PROVE  UnitsProven'
<1> SUFFICES ASSUME NEW k \in Keys, unitStatus'[k] = "SUCCESS"
             PROVE  status'[k] = "COMPLETED"
  BY DEF UnitsProven
<1>1. [StoreNext]_storeVars /\ StoreInv
  BY PayrollStoreStep DEF IndInv
<1>2. SUFFICES status[k] = "COMPLETED"
  BY <1>1, CompletedStays
<1>3. CASE unitStatus[k] = "SUCCESS"
  BY <1>3 DEF IndInv, UnitsProven
<1>4. CASE unitStatus[k] # "SUCCESS"
  <2>1. PICK p \in Handlers : TaskUpdate(p)
    BY <1>4, UnitsAssumption, PayrollUnitStep
    DEF UnitAction, unitVars, rowVars, CreateTask, TxStep, UnitRead, UnitUpdate, TaskRead
  <2>2. tx[p].unit = k /\ tx[p].result = "SUCCESS" /\ ~Idle(p)
    BY <1>4, <2>1, UnitsAssumption DEF TaskUpdate, IndInv, TypeOK, UnitTypeOK, Idle
  <2> QED BY <2>2 DEF IndInv, TxOK
<1> QED BY <1>3, <1>4

(* An intent fails for good only by the UPDATE of a request that has seen   *)
(* its transaction mined, and what is mined stays so.                       *)
LEMMA FailureFollowsChain ==
    ASSUME IndInv, [Next]_vars
    PROVE  PendingIsNotFailure'
<1> SUFFICES ASSUME NEW k \in Keys, status'[k] = "FAILED_FINAL"
             PROVE  chain'[transactionHash'[k]] # "unseen"
  BY DEF PendingIsNotFailure
<1>1. /\ [StoreNext]_storeVars /\ StoreInv /\ StoreTypeOK
      /\ transactionHash[k] # NoHash => transactionHash'[k] = transactionHash[k]
      /\ \A h \in Hashes : chain[h] # "unseen" => chain'[h] = chain[h]
  BY PayrollStoreStep, StoreStable DEF IndInv, StoreInv
<1>2. SUFFICES transactionHash[k] \in Hashes /\ chain[transactionHash[k]] # "unseen"
  BY <1>1, NullAssumption
<1>3. CASE status[k] = "FAILED_FINAL"
  BY <1>1, <1>3 DEF IndInv, PendingIsNotFailure, StoreInv, FailedHasEvidence, StoreTypeOK
<1>4. CASE status[k] # "FAILED_FINAL"
  <2>1. PICK p \in Handlers : FailUpdate(p)
    <3> SUFFICES ASSUME \A p \in Handlers : ~FailUpdate(p)
                 PROVE  FALSE
      OBVIOUS
    <3>1. ~UNCHANGED storeVars
      BY <1>4 DEF storeVars
    <3>2. ASSUME NEW l \in Keys, AcquireCreate(l, Due[l])
          PROVE  FALSE
      BY <1>1, <1>4, <3>2 DEF AcquireCreate, StoreTypeOK
    <3>3. ASSUME NEW l, NEW h, BindWrite(l, h)
          PROVE  FALSE
      BY <1>1, <1>4, <3>3 DEF BindWrite, StoreTypeOK
    <3>4. ASSUME NEW l, NEW x, AdvanceWrite(l, x) \/ PrepareWrite(l, x)
          PROVE  FALSE
      BY <1>1, <1>4, <3>4
      DEF AdvanceWrite, PrepareWrite, TransitionWrite, AdvanceTo, AdvanceFrom, StoreTypeOK
    <3>5. ASSUME NEW l, CompleteWrite(l) \/ CancelWrite(l)
          PROVE  FALSE
      BY <1>1, <1>4, <3>5 DEF CompleteWrite, CancelWrite, CancelAs, TransitionWrite, StoreTypeOK
    <3>6. ASSUME NEW p \in Handlers, Step(p)
          PROVE  FALSE
      <4>1. ~InitFind(p) /\ ~InitCreate(p) /\ ~InitAttach(p) /\ ~ReportRead(p) /\ ~BindRead(p)
        BY <3>1 DEF InitFind, InitCreate, InitAttach, ReportRead, BindRead
      <4>2. ~ReconcileRead(p) /\ ~BeginRead(p) /\ ~BeginReread(p) /\ ~Receipt(p)
            /\ ~CompleteRead(p) /\ ~Reporting(p)
        BY <3>1 DEF ReconcileRead, BeginRead, BeginReread, Receipt, CompleteRead, Reporting
      <4>3. ~InitAcquire(p)
        BY <3>1, <3>2 DEF InitAcquire
      <4>4. ~BindUpdate(p) /\ ~BeginWrite(p) /\ ~CompleteUpdate(p)
        BY <3>1, <3>3, <3>4, <3>5 DEF BindUpdate, BeginWrite, CompleteUpdate
      <4> QED BY <3>6, <4>1, <4>2, <4>3, <4>4 DEF Step
    <3>7. ASSUME NEW p \in Handlers, InitRequest(p) \/ ReportRequest(p) \/ ReportFails(p) \/ Crash(p)
          PROVE  FALSE
      BY <3>1, <3>7 DEF InitRequest, ReportRequest, ReportFails, Crash
    <3>8. ~OtherRequests
      BY <3>3, <3>4, <3>5 DEF OtherRequests
    <3>9. ~Chain
      BY <1>4 DEF Chain, Mine
    <3> QED BY <3>1, <3>6, <3>7, <3>8, <3>9 DEF Next, vars
  <2>2. local[p].unit = k
    BY <1>1, <1>4, <2>1 DEF FailUpdate, FailWrite, TransitionWrite, StoreTypeOK, storeVars
  <2> QED BY <2>1, <2>2 DEF FailUpdate, IndInv, HandlerOK, BoundLabels
<1> QED BY <1>3, <1>4

-----------------------------------------------------------------------------
(* What nothing takes away from a request, whoever runs: rows, payloads,    *)
(* bound hashes, receipts, completions and the task.                        *)
Kept ==
    /\ \A k \in Keys : Exists(k) => Exists(k)' /\ payload'[k] = payload[k]
    /\ \A k \in Keys : transactionHash[k] # NoHash => transactionHash'[k] = transactionHash[k]
    /\ \A h \in Hashes : chain[h] # "unseen" => chain'[h] = chain[h]
    /\ \A k \in Keys : status[k] = "COMPLETED" => status'[k] = "COMPLETED"
    /\ taskStatus # "absent" => taskStatus' # "absent"

LEMMA NextKeeps == ASSUME IndInv, [Next]_vars PROVE Kept
<1>1. [StoreNext]_storeVars /\ StoreInv
  BY PayrollStoreStep DEF IndInv
<1>2. taskStatus # "absent" => taskStatus' # "absent"
  BY PayrollUnitStep
  DEF UnitAction, unitVars, rowVars, CreateTask, TxStep, UnitRead, UnitUpdate, TaskRead,
      TaskUpdate, RecomputeTaskStatus
<1> QED BY <1>1, <1>2, StoreStable, CompletedStays DEF Kept

(* A request that does not run keeps what it relies on while others do. *)
LEMMA HandlerStable ==
    ASSUME IndInv, Kept, NEW p \in Handlers,
           pc'[p] = pc[p], local'[p] = local[p], tx'[p] = tx[p]
    PROVE  HandlerOK(p)' /\ TxOK(p)'
<1> DEFINE k == local[p].unit
           h == local[p].hash
<1>1. HandlerOK(p) /\ TxOK(p) /\ pc[p] \in Labels
  BY DEF IndInv, TypeOK
<1>2. pc[p] \notin InitLabels \cup {"idle"} => k \in Keys /\ Exists(k)'
  BY <1>1 DEF HandlerOK, Kept
<1>3. pc[p] \notin {"initAcquire", "initFind", "initCreate", "idle"} => taskStatus' # "absent"
  BY <1>1 DEF HandlerOK, Kept
<1>4. pc[p] \in {"initFind", "initCreate"} => \A l \in Keys : Exists(l)'
  BY <1>1 DEF HandlerOK, Kept
<1>5. pc[p] \in BoundLabels \/ (pc[p] = "reporting" /\ h # NoHash) =>
        transactionHash[k] = h /\ transactionHash'[k] = h /\ h \in Hashes
  <2>1. pc[p] \in BoundLabels \/ pc[p] = "reporting" => k \in Keys
    BY <1>1 DEF HandlerOK, BoundLabels, ProvenLabels, InitLabels
  <2> QED BY <1>1, <2>1, NullAssumption DEF HandlerOK, Kept
<1>6. pc[p] \in ProvenLabels => PaysBatch(h, k)'
  <2>1. pc[p] \in ProvenLabels => k \in Keys /\ Exists(k) /\ h \in Hashes /\ PaysBatch(h, k)
    BY <1>1, <1>5 DEF HandlerOK, BoundLabels, ProvenLabels, InitLabels
  <2> QED BY <2>1 DEF PaysBatch, ReceiptMatches, Kept
<1>7. pc[p] = "failWrite" => chain'[h] # "unseen"
  BY <1>1, <1>5 DEF HandlerOK, BoundLabels, Kept
<1>8. HandlerOK(p)'
  BY <1>1, <1>2, <1>3, <1>4, <1>5, <1>6, <1>7 DEF HandlerOK, Exists, PaysBatch, ReceiptMatches
<1>9. TxOK(p)'
  <2>1. ~Idle(p) => k \in Keys
    BY <1>1 DEF TxOK, HandlerOK, InitLabels
  <2> QED BY <1>1, <2>1 DEF TxOK, Idle, Kept
<1> QED BY <1>8, <1>9

(* A request that runs establishes what it relies on next. *)
LEMMA HandlerRuns ==
    ASSUME IndInv, [Next]_vars, NEW p \in Handlers, HandlerAction(p)
    PROVE  HandlerOK(p)' /\ TxOK(p)'
<1> DEFINE k == local[p].unit
           h == local[p].hash
<1>1. /\ HandlerOK(p) /\ TxOK(p) /\ Kept /\ RowsDue' /\ RowsDue
      /\ pc \in [Handlers -> Labels]
      /\ local \in [Handlers -> Locals]
      /\ tx \in [Handlers -> Transactions]
      /\ StoreTypeOK /\ StoreInv
  BY NextKeeps, RowsDueStep DEF IndInv, TypeOK, UnitTypeOK
<1>2. local[p] \in Locals /\ h \in Hashes \cup {NoHash} /\ pc[p] \in Labels
  BY <1>1 DEF Locals
<1> USE DEF Labels
<1>3. pc[p] # "reporting" => Idle(p)
  BY <1>1 DEF TxOK
<1>4. ASSUME pc'[p] = "idle", Idle(p)'
      PROVE  HandlerOK(p)' /\ TxOK(p)'
  BY <1>4 DEF HandlerOK, TxOK, InitLabels, BoundLabels, ProvenLabels, UnseenLabels
<1>5. ASSUME NEW label \in Labels \ (InitLabels \cup {"idle", "reporting"}), NEW r \in Locals,
             Become(p, label, r) \/ (Jump(p, label) /\ r = local[p]), Idle(p),
             r.unit \in Keys, Exists(r.unit), taskStatus # "absent",
             label \in {"reportRead", "bindRead", "bindWrite"} => r.hash \in Hashes,
             label = "reconcileRead" => r.hash = NoHash,
             label \in BoundLabels =>
                 transactionHash'[r.unit] = r.hash /\ r.hash \in Hashes,
             label \in UnseenLabels => r.seen # "VERIFYING",
             label \in ProvenLabels => r.hash \in Hashes /\ PaysBatch(r.hash, r.unit),
             label = "failWrite" => chain[r.hash] # "unseen"
      PROVE  HandlerOK(p)' /\ TxOK(p)'
  <2>1. pc'[p] = label /\ local'[p] = r /\ Idle(p)'
    BY <1>1, <1>5 DEF Become, Jump, Goto, Idle
  <2>2. status'[r.unit] # "ABSENT" /\ taskStatus' # "absent"
    BY <1>1, <1>5 DEF Kept, Exists
  <2>3. label \in ProvenLabels => chain'[r.hash] = "success" /\ Pays[r.hash] = payload'[r.unit]
    BY <1>1, <1>5 DEF Kept, PaysBatch, ReceiptMatches
  <2>4. label = "failWrite" => chain'[r.hash] # "unseen"
    BY <1>1, <1>5 DEF Kept, BoundLabels
  <2> QED BY <1>5, <2>1, <2>2, <2>3, <2>4
      DEF HandlerOK, TxOK, InitLabels, Exists, PaysBatch, ReceiptMatches
<1>6. ASSUME NEW r \in Outcomes, ReportUnit(p, r), k \in Keys, Exists(k), taskStatus # "absent",
             h # NoHash => transactionHash[k] = h /\ h \in Hashes,
             r = "SUCCESS" => status'[k] = "COMPLETED"
      PROVE  HandlerOK(p)' /\ TxOK(p)'
  <2>1. /\ pc'[p] = "reporting" /\ local'[p] = local[p]
        /\ tx'[p].unit = k /\ tx'[p].result = r
    BY <1>1, <1>6 DEF ReportUnit, BeginReport, Transaction
  <2>2. status'[k] # "ABSENT" /\ taskStatus' # "absent"
    BY <1>1, <1>6 DEF Kept, Exists
  <2>3. h # NoHash => transactionHash'[k] = h
    BY <1>1, <1>6 DEF Kept
  <2> QED BY <1>6, <2>1, <2>2, <2>3
      DEF HandlerOK, TxOK, InitLabels, Exists, BoundLabels, ProvenLabels, UnseenLabels
<1>7. ASSUME Return(p), Idle(p)
      PROVE  HandlerOK(p)' /\ TxOK(p)'
  BY <1>1, <1>4, <1>7 DEF Return, Become, Goto, Idle
<1>8. ASSUME NextUnit(p), Idle(p), taskStatus # "absent"
      PROVE  HandlerOK(p)' /\ TxOK(p)'
  <2>1. CASE ~Return(p)
    <3> DEFINE r == NewLocal("reconcile", local[p].unit + 1, NoHash)
    <3>1. Become(p, "reconcileRead", r) /\ local[p].unit < NumUnits
      BY <1>8, <2>1 DEF NextUnit
    <3>2. r.unit \in Units /\ r.unit \in 0..NumUnits /\ r.hash = NoHash
      BY <1>2, <3>1, NumUnitsAssumption DEF Locals, NewLocal, Units
    <3>3. r.unit \in Keys /\ r \in Locals
      BY <3>2, UnitsAssumption DEF NewLocal, Locals
    <3>4. Exists(r.unit)
      BY <1>1, <1>8, <3>3 DEF RowsDue
    <3> HIDE DEF r
    <3> QED BY <1>5, <1>8, <3>1, <3>2, <3>3, <3>4
        DEF InitLabels, BoundLabels, ProvenLabels, UnseenLabels
  <2> QED BY <1>7, <1>8, <2>1
<1>9. ASSUME pc[p] \notin InitLabels \cup {"idle"}
      PROVE  k \in Keys /\ Exists(k) /\ taskStatus # "absent"
  BY <1>1, <1>9 DEF HandlerOK, InitLabels
<1>10. ASSUME pc[p] \in BoundLabels
       PROVE  /\ transactionHash[k] = h /\ transactionHash'[k] = h
              /\ h \in Hashes /\ h # NoHash
              /\ k \in Keys /\ Exists(k) /\ taskStatus # "absent" /\ Idle(p)
  <2>1. k \in Keys /\ Exists(k) /\ taskStatus # "absent"
    BY <1>9, <1>10 DEF BoundLabels, ProvenLabels, InitLabels
  <2>2. transactionHash[k] = h /\ h \in Hashes /\ h # NoHash
    BY <1>1, <1>10, NullAssumption DEF HandlerOK
  <2> QED BY <1>1, <1>3, <1>10, <2>1, <2>2 DEF Kept, BoundLabels, ProvenLabels
<1>11. ASSUME Throw(p), pc[p] \in BoundLabels, pc[p] \in UnseenLabels \/ chain[h] # "unseen"
       PROVE  HandlerOK(p)' /\ TxOK(p)'
  <2>1. CASE Jump(p, "failWrite") /\ local[p].seen = "VERIFYING"
    <3>1. chain[h] # "unseen"
      BY <1>1, <1>11, <2>1 DEF HandlerOK
    <3> QED BY <1>2, <1>5, <1>10, <1>11, <2>1, <3>1
        DEF InitLabels, ProvenLabels, UnseenLabels, BoundLabels
  <2>2. CASE ReportUnit(p, "FAILED")
    BY <1>6, <1>10, <1>11, <2>2 DEF Outcomes
  <2> QED BY <1>7, <1>10, <1>11, <2>1, <2>2 DEF Throw
<1>12. ASSUME UNCHANGED <<handlerVars, tx>>
       PROVE  HandlerOK(p)' /\ TxOK(p)'
  BY <1>1, <1>12, HandlerStable DEF handlerVars
<1>13. ASSUME NEW label \in InitLabels, NEW r \in Locals, Idle(p),
              Become(p, label, r) \/ (Jump(p, label) /\ r = local[p]),
              label \in {"initFind", "initCreate"} => \A l \in Keys : Exists(l),
              label = "initAttach" => taskStatus' # "absent"
       PROVE  HandlerOK(p)' /\ TxOK(p)'
  <2>1. pc'[p] = label /\ local'[p] = r /\ Idle(p)'
    BY <1>1, <1>13 DEF Become, Jump, Goto, Idle, InitLabels
  <2>2. label \in {"initFind", "initCreate"} => \A l \in Keys : Exists(l)'
    BY <1>1, <1>13 DEF Kept
  <2> QED BY <1>13, <2>1, <2>2
      DEF HandlerOK, TxOK, InitLabels, BoundLabels, ProvenLabels, UnseenLabels
<1>14. CASE InitRequest(p)
  <2>1. NewLocal("init", 0, NoHash) \in Locals
    BY NumUnitsAssumption DEF NewLocal, Locals
  <2> QED BY <1>3, <1>13, <1>14, <2>1 DEF InitRequest, InitLabels
<1>15. CASE ReportRequest(p)
  <2>1. Idle(p) /\ taskStatus # "absent" /\ \A l \in Keys : Exists(l)
    BY <1>1, <1>3, <1>15 DEF ReportRequest, RowsDue
  <2>2. ASSUME NEW l \in Keys,
               pc' = [pc EXCEPT ![p] = "reporting"],
               local' = [local EXCEPT ![p] = NewLocal("report", l, NoHash)],
               BeginReport(p, l, "FAILED")
        PROVE  HandlerOK(p)' /\ TxOK(p)'
    <3>1. /\ pc'[p] = "reporting" /\ local'[p].unit = l /\ local'[p].hash = NoHash
          /\ tx'[p].unit = l /\ tx'[p].result = "FAILED"
      BY <1>1, <2>2 DEF BeginReport, Transaction, NewLocal
    <3>2. status'[l] # "ABSENT" /\ taskStatus' # "absent"
      BY <1>1, <2>1 DEF Kept, Exists
    <3> QED BY <3>1, <3>2
        DEF HandlerOK, TxOK, InitLabels, Exists, BoundLabels, ProvenLabels, UnseenLabels
  <2>3. ASSUME NEW l \in Keys, NEW g \in Hashes, Become(p, "reportRead", NewLocal("report", l, g))
        PROVE  HandlerOK(p)' /\ TxOK(p)'
    <3> DEFINE r == NewLocal("report", l, g)
    <3>1. r \in Locals /\ r.unit = l /\ r.hash = g /\ r.seen = "ABSENT"
      BY UnitsAssumption, NumUnitsAssumption DEF NewLocal, Locals, Units
    <3> HIDE DEF r
    <3>2. Become(p, "reportRead", r)
      BY <2>3 DEF r
    <3> QED BY <1>5, <2>1, <3>1, <3>2 DEF InitLabels, BoundLabels, ProvenLabels, UnseenLabels
  <2> QED BY <1>15, <2>2, <2>3 DEF ReportRequest
<1>16. CASE InitAcquire(p)
  <2>1. CASE Jump(p, "initFind") /\ \A l \in Keys : Exists(l)
    BY <1>2, <1>3, <1>13, <1>16, <2>1 DEF InitAcquire, InitLabels
  <2> QED BY <1>12, <1>16, <2>1 DEF InitAcquire
<1>17. CASE InitFind(p)
  <2>1. NewLocal("reconcile", 0, NoHash) \in Locals
    BY NumUnitsAssumption DEF NewLocal, Locals
  <2>2. Idle(p) /\ (taskStatus # "absent" => taskStatus' # "absent") /\ \A l \in Keys : Exists(l)
    BY <1>1, <1>3, <1>17 DEF InitFind, Kept, HandlerOK
  <2> QED BY <1>2, <1>13, <1>17, <2>1, <2>2 DEF InitFind, InitLabels
<1>18. CASE InitCreate(p)
  <2>1. taskStatus' # "absent"
    BY <1>1, <1>18 DEF InitCreate, CreateTask, Kept
  <2> QED BY <1>2, <1>3, <1>13, <1>18, <2>1 DEF InitCreate, InitLabels
<1>19. CASE InitAttach(p)
  <2>1. Idle(p) /\ taskStatus # "absent"
    BY <1>1, <1>3, <1>19 DEF InitAttach, HandlerOK
  <2> QED BY <1>8, <1>12, <1>19, <2>1 DEF InitAttach
<1>20. CASE ReportRead(p) \/ BindRead(p) \/ BindUpdate(p)
  <2>1. /\ pc[p] \in {"reportRead", "bindRead", "bindWrite"} /\ Idle(p)
        /\ k \in Keys /\ Exists(k) /\ taskStatus # "absent"
        /\ h \in Hashes /\ local[p].seen # "VERIFYING"
    BY <1>1, <1>3, <1>9, <1>20
    DEF ReportRead, BindRead, BindUpdate, InitLabels, HandlerOK, UnseenLabels
  <2>2. CASE Return(p)
    BY <1>7, <2>1, <2>2
  <2>3. CASE Jump(p, "bindRead") \/ Jump(p, "bindWrite")
    BY <1>2, <1>5, <2>1, <2>3 DEF InitLabels, BoundLabels, ProvenLabels, UnseenLabels
  <2>4. CASE Jump(p, "beginRead") /\ transactionHash'[k] = h
    BY <1>2, <1>5, <2>1, <2>4 DEF InitLabels, BoundLabels, ProvenLabels, UnseenLabels
  <2>5. BindWrite(k, h) => transactionHash'[k] = h
    BY <1>1, <2>1 DEF BindWrite, StoreTypeOK
  <2>6. BindRead(p) => UNCHANGED storeVars
    BY DEF BindRead
  <2> QED BY <1>20, <2>2, <2>3, <2>4, <2>5, <2>6 DEF ReportRead, BindRead, BindUpdate, storeVars
<1>21. CASE ReconcileRead(p)
  <2>1. /\ Idle(p) /\ k \in Keys /\ Exists(k) /\ taskStatus # "absent"
        /\ h = NoHash /\ UNCHANGED storeVars
    BY <1>1, <1>3, <1>9, <1>21 DEF ReconcileRead, InitLabels, HandlerOK
  <2>2. CASE status[k] = "COMPLETED" /\ ReportUnit(p, "SUCCESS")
    BY <1>6, <2>1, <2>2 DEF Outcomes, storeVars
  <2>3. CASE ReportUnit(p, "FAILED")
    BY <1>6, <2>1, <2>3 DEF Outcomes
  <2>4. CASE NextUnit(p)
    BY <1>8, <2>1, <2>4
  <2>5. CASE /\ transactionHash[k] # NoHash /\ status[k] \in {"SUBMITTED", "VERIFYING"}
             /\ Become(p, IF status[k] = "SUBMITTED" THEN "beginRead" ELSE "receipt",
                       [local[p] EXCEPT !.hash = transactionHash[k], !.seen = status[k]])
    <3> DEFINE r == [local[p] EXCEPT !.hash = transactionHash[k], !.seen = status[k]]
               label == IF status[k] = "SUBMITTED" THEN "beginRead" ELSE "receipt"
    <3>1. transactionHash[k] \in Hashes /\ status[k] \in Statuses \cup {"ABSENT"}
      BY <1>1, <2>1, <2>5 DEF StoreTypeOK
    <3>2. r \in Locals /\ r.unit = k /\ r.hash = transactionHash[k] /\ r.seen = status[k]
      BY <1>2, <3>1 DEF Locals
    <3>3. label \in {"beginRead", "receipt"} /\ (label = "beginRead" => status[k] = "SUBMITTED")
      OBVIOUS
    <3>4. Become(p, label, r)
      BY <2>5
    <3> HIDE DEF r, label
    <3> QED BY <1>5, <2>1, <3>1, <3>2, <3>3, <3>4
        DEF InitLabels, BoundLabels, ProvenLabels, UnseenLabels, storeVars
  <2> QED BY <1>21, <2>2, <2>3, <2>4, <2>5 DEF ReconcileRead
<1>22. ASSUME pc[p] \in BoundLabels, NEW label \in BoundLabels \ {"failWrite"},
              label \in UnseenLabels => pc[p] \in UnseenLabels,
              label \in ProvenLabels => PaysBatch(h, k),
              \/ Jump(p, label)
              \/ Become(p, label, [local[p] EXCEPT !.seen = status[k]]) /\ label = "receipt"
       PROVE  HandlerOK(p)' /\ TxOK(p)'
  <2>1. label \notin InitLabels \cup {"idle", "reporting", "reportRead", "bindRead", "bindWrite", "reconcileRead"}
    BY <1>22 DEF BoundLabels, ProvenLabels, InitLabels
  <2>2. CASE Jump(p, label)
    <3>1. label \in UnseenLabels => local[p].seen # "VERIFYING"
      BY <1>1, <1>22 DEF HandlerOK
    <3> QED BY <1>2, <1>5, <1>10, <1>22, <2>1, <2>2, <3>1 DEF BoundLabels, ProvenLabels
  <2>3. CASE Become(p, label, [local[p] EXCEPT !.seen = status[k]]) /\ label = "receipt"
    <3> DEFINE r == [local[p] EXCEPT !.seen = status[k]]
    <3>1. status[k] \in Statuses \cup {"ABSENT"}
      BY <1>1, <1>10, <1>22 DEF StoreTypeOK
    <3>2. r \in Locals /\ r.unit = k /\ r.hash = h
      BY <1>2, <3>1 DEF Locals
    <3> HIDE DEF r
    <3>3. Become(p, "receipt", r)
      BY <2>3 DEF r
    <3> QED BY <1>5, <1>10, <1>22, <2>1, <3>2, <3>3
        DEF BoundLabels, ProvenLabels, InitLabels, UnseenLabels
  <2> QED BY <1>22, <2>2, <2>3
<1>23. CASE BeginRead(p) \/ BeginReread(p)
  BY <1>22, <1>23 DEF BeginRead, BeginReread, BoundLabels, ProvenLabels, UnseenLabels
<1>24. CASE BeginWrite(p)
  BY <1>11, <1>22, <1>24 DEF BeginWrite, BoundLabels, ProvenLabels, UnseenLabels
<1>25. CASE Receipt(p)
  <2>1. pc[p] \in BoundLabels
    BY <1>25 DEF Receipt, BoundLabels
  <2>2. Idle(p) /\ taskStatus # "absent"
    BY <1>10, <2>1
  <2>3. CASE PaysBatch(h, k) /\ Jump(p, "completeRead")
    BY <1>22, <2>1, <2>3 DEF BoundLabels, ProvenLabels, UnseenLabels
  <2>4. CASE Refusable(h) /\ Throw(p)
    BY <1>11, <2>1, <2>4 DEF Refusable
  <2> QED BY <1>8, <1>25, <2>2, <2>3, <2>4 DEF Receipt
<1>26. CASE CompleteRead(p) \/ CompleteUpdate(p)
  <2>1. pc[p] \in BoundLabels /\ PaysBatch(h, k) /\ chain[h] # "unseen"
    BY <1>1, <1>26
    DEF CompleteRead, CompleteUpdate, BoundLabels, ProvenLabels, HandlerOK, PaysBatch, ReceiptMatches
  <2>2. CASE Throw(p)
    BY <1>11, <2>1, <2>2
  <2>3. CASE Jump(p, "completeWrite")
    BY <1>22, <2>1, <2>3 DEF BoundLabels, ProvenLabels, UnseenLabels
  <2>4. CASE ReportUnit(p, "SUCCESS") /\ status'[k] = "COMPLETED"
    BY <1>6, <1>10, <2>1, <2>4 DEF Outcomes
  <2>5. CompleteWrite(k) => status'[k] = "COMPLETED"
    BY <1>1, <1>10, <2>1 DEF CompleteWrite, TransitionWrite, StoreTypeOK
  <2>6. CompleteRead(p) => UNCHANGED storeVars
    BY DEF CompleteRead
  <2> QED BY <1>26, <2>2, <2>3, <2>4, <2>5, <2>6 DEF CompleteRead, CompleteUpdate, storeVars
<1>27. CASE FailUpdate(p)
  <2>1. pc[p] \in BoundLabels
    BY <1>27 DEF FailUpdate, BoundLabels
  <2> QED BY <1>6, <1>7, <1>10, <1>27, <2>1 DEF FailUpdate, Outcomes
<1>28. CASE Reporting(p)
  <2>1. /\ pc[p] = "reporting" /\ k \in Keys /\ Exists(k) /\ taskStatus # "absent"
        /\ h # NoHash => transactionHash[k] = h /\ transactionHash'[k] = h /\ h \in Hashes
    BY <1>1, <1>9, <1>28 DEF Reporting, InitLabels, HandlerOK, Kept
  <2>2. CASE TxStep(p) /\ UNCHANGED <<storeVars, attached, handlerVars>>
    <3>1. /\ ~Idle(p)
          /\ \/ Idle(p)'
             \/ tx'[p].unit = tx[p].unit /\ tx'[p].result = tx[p].result
      <4>1. tx[p] \in Transactions /\ NoTransaction.at = "none"
        BY <1>1 DEF NoTransaction, Transaction
      <4>2. EndReport(p) => Idle(p)'
        BY <1>1, <4>1 DEF EndReport, Idle
      <4>3. CASE TaskUpdate(p) \/ (UnitRead(p) /\ EndReport(p))
        BY <4>2, <4>3 DEF TaskUpdate, UnitRead, Idle
      <4>4. CASE UnitRead(p) \/ UnitUpdate(p) \/ TaskRead(p)
        BY <1>1, <4>1, <4>2, <4>4 DEF UnitRead, UnitUpdate, TaskRead, Idle, Transactions
      <4> QED BY <2>2, <4>3, <4>4 DEF TxStep
    <3>2. pc'[p] = "reporting" /\ local'[p] = local[p] /\ UNCHANGED status
      BY <2>1, <2>2 DEF handlerVars, storeVars
    <3>3. taskStatus' # "absent" /\ status'[k] # "ABSENT"
      BY <1>1, <2>1 DEF Kept, Exists
    <3> QED BY <1>1, <2>1, <3>1, <3>2, <3>3
        DEF HandlerOK, TxOK, InitLabels, Exists, BoundLabels, ProvenLabels, UnseenLabels
  <2> QED BY <1>8, <1>28, <2>1, <2>2 DEF Reporting
<1>29. CASE ReportFails(p)
  <2>1. /\ pc[p] = "reporting" /\ ~Idle(p) /\ UNCHANGED storeVars
        /\ k \in Keys /\ Exists(k) /\ taskStatus # "absent"
        /\ status'[k] # "ABSENT" /\ taskStatus' # "absent"
        /\ h # NoHash => transactionHash[k] = h /\ transactionHash'[k] = h /\ h \in Hashes
    BY <1>1, <1>9, <1>29 DEF ReportFails, InitLabels, HandlerOK, Kept, Exists
  <2>2. NoTransaction.at = "none"
    BY DEF NoTransaction, Transaction
  <2>3. CASE /\ tx' = [tx EXCEPT ![p] = Transaction("unitRead", local[p].unit, "FAILED")]
             /\ UNCHANGED handlerVars
    <3>1. tx'[p].unit = k /\ tx'[p].result = "FAILED"
      BY <1>1, <2>3 DEF Transaction
    <3> QED BY <2>1, <2>3, <3>1
        DEF HandlerOK, TxOK, handlerVars, InitLabels, Exists, BoundLabels, ProvenLabels, UnseenLabels
  <2>4. CASE /\ h # NoHash /\ tx[p].result = "SUCCESS"
             /\ pc' = [pc EXCEPT ![p] = "failWrite"]
             /\ EndReport(p) /\ UNCHANGED local
    <3>1. status[k] = "COMPLETED"
      BY <1>1, <2>1, <2>4 DEF TxOK
    <3>2. chain[h] = "success"
      BY <1>1, <2>1, <2>4, <3>1 DEF StoreInv, CompletedIsProven, ReceiptMatches
    <3>3. chain'[h] = "success"
      BY <2>1, <3>2 DEF storeVars
    <3>4. pc'[p] = "failWrite" /\ local'[p] = local[p] /\ Idle(p)'
      BY <1>1, <2>2, <2>4 DEF EndReport, Idle
    <3> QED BY <2>1, <2>4, <3>3, <3>4
        DEF HandlerOK, TxOK, InitLabels, Exists, BoundLabels, ProvenLabels, UnseenLabels
  <2>5. CASE pc' = [pc EXCEPT ![p] = "idle"] /\ EndReport(p)
    BY <1>1, <1>4, <2>2, <2>5 DEF EndReport, Idle
  <2> QED BY <1>29, <2>3, <2>4, <2>5 DEF ReportFails
<1>30. CASE Crash(p)
  <2>1. pc'[p] = "idle" /\ Idle(p)'
    BY <1>1, <1>30 DEF Crash, EndReport, Idle, NoTransaction, Transaction
  <2> QED BY <1>4, <2>1
<1> QED
  BY <1>14, <1>15, <1>16, <1>17, <1>18, <1>19, <1>20, <1>21, <1>23, <1>24, <1>25, <1>26, <1>27,
     <1>28, <1>29, <1>30
  DEF HandlerAction, Step

-----------------------------------------------------------------------------
LEMMA PayrollInitInv == Init => IndInv
<1> SUFFICES ASSUME Init PROVE IndInv
  OBVIOUS
<1>1. StoreInv /\ ReportsAreCounted
  BY StoreInitInv, UnitInitCounts DEF Init
<1>2. /\ \A k \in Keys : ~Exists(k) /\ status[k] = "ABSENT" /\ unitStatus[k] = "absent"
      /\ \A p \in Handlers : pc[p] = "idle" /\ Idle(p)
      /\ taskStatus = "absent"
  BY UnitsAssumption DEF Init, StoreInit, UnitInit, Exists, Idle, NoTransaction, Transaction
<1>3. TypeOK
  <2>1. IdleLocal \in Locals
    BY NumUnitsAssumption DEF IdleLocal, NewLocal, Locals
  <2> QED BY <1>1, <2>1 DEF Init, TypeOK, StoreInv, ReportsAreCounted, Labels
<1>4. \A p \in Handlers : HandlerOK(p) /\ TxOK(p)
  BY <1>2 DEF HandlerOK, TxOK, InitLabels, BoundLabels, ProvenLabels, UnseenLabels
<1>5. RowsDue /\ UnitsProven /\ PendingIsNotFailure
  BY <1>2 DEF RowsDue, UnitsProven, PendingIsNotFailure
<1> QED BY <1>1, <1>3, <1>4, <1>5 DEF IndInv, ReportsAreCounted

LEMMA PayrollNextInv == IndInv /\ [Next]_vars => IndInv'
<1> SUFFICES ASSUME IndInv, [Next]_vars
             PROVE  IndInv'
  OBVIOUS
<1>1. StoreInv'
  BY PayrollStoreStep, StoreNextInv DEF IndInv
<1>2. ReportsAreCounted'
  BY PayrollUnitStep, UnitActionCounts DEF IndInv, ReportsAreCounted, TypeOK
<1>3. RowsDue' /\ UnitsProven' /\ PendingIsNotFailure' /\ Kept
  BY RowsDueStep, UnitsProvenStep, FailureFollowsChain, NextKeeps
<1>4. CASE OtherRequests \/ Chain \/ UNCHANGED vars
  <2>1. UNCHANGED <<attached, handlerVars, tx>>
    BY <1>4 DEF OtherRequests, Chain, vars, taskVars
  <2>2. \A p \in Handlers : HandlerOK(p)' /\ TxOK(p)'
    BY <1>3, <2>1, HandlerStable DEF handlerVars
  <2>3. attached' \subseteq Keys /\ pc' \in [Handlers -> Labels] /\ local' \in [Handlers -> Locals]
    BY <2>1 DEF IndInv, TypeOK, handlerVars
  <2> QED BY <1>1, <1>2, <1>3, <2>2, <2>3 DEF IndInv, TypeOK, StoreInv, ReportsAreCounted
<1>5. ASSUME NEW p \in Handlers, HandlerAction(p)
      PROVE  IndInv'
  <2>1. MovesOnly(p)
    BY <1>5, SlotStep
  <2>2. \A q \in Handlers : HandlerOK(q)' /\ TxOK(q)'
    <3>1. HandlerOK(p)' /\ TxOK(p)'
      BY <1>5, HandlerRuns
    <3>2. ASSUME NEW q \in Handlers, q # p
          PROVE  HandlerOK(q)' /\ TxOK(q)'
      BY <1>3, <2>1, <3>2, HandlerStable DEF MovesOnly
    <3> QED BY <3>1, <3>2
  <2>3. attached' \subseteq Keys
    <3>1. InitAttach(p) => attached' \subseteq Keys
      BY DEF IndInv, TypeOK, InitAttach
    <3>2. UNCHANGED attached => attached' \subseteq Keys
      BY DEF IndInv, TypeOK
    <3> QED BY <1>5, <3>1, <3>2
        DEF HandlerAction, Step, taskVars, InitRequest, ReportRequest, ReportFails, Crash,
            InitAcquire, InitFind, InitCreate, ReportRead, BindRead, BindUpdate, ReconcileRead,
            BeginRead, BeginWrite, BeginReread, Receipt, CompleteRead, CompleteUpdate,
            FailUpdate, Reporting
  <2> QED BY <1>1, <1>2, <1>3, <2>1, <2>2, <2>3
      DEF IndInv, TypeOK, StoreInv, ReportsAreCounted, MovesOnly
<1> QED BY <1>4, <1>5 DEF Next, HandlerAction

(* The inductive invariant of a payroll run. *)
THEOREM PayrollInvariant == Spec => []IndInv
  BY PayrollInitInv, PayrollNextInv, PTL DEF Spec

(* What is recorded of a unit and its intent is what the chain has shown:   *)
(* SUCCESS only over the verified payment of its own batch, a final failure *)
(* only over a mined transaction (reportTaskUnit, reconcilePayrollIntents,  *)
(* PayrollReceiptVerifierService.verify).                                   *)
THEOREM OutcomesFollow == Spec => []OutcomesFollowChain
<1>1. IndInv => OutcomesFollowChain
  <2> SUFFICES ASSUME IndInv PROVE SuccessIsVerified
    BY DEF IndInv, OutcomesFollowChain
  <2>1. ASSUME NEW k \in Keys, unitStatus[k] = "SUCCESS"
        PROVE  status[k] = "COMPLETED" /\ ReceiptMatches(transactionHash[k], Due[k])
    BY <2>1 DEF IndInv, UnitsProven, StoreInv, CompletedIsProven, RowsDue, Exists
  <2> QED BY <2>1 DEF SuccessIsVerified
<1> QED BY <1>1, PayrollInvariant, PTL

(* Overlapping reports of a payroll lose no increment, whatever else runs   *)
(* (reportUnit under createPayrollTask and reportTaskUnit).                 *)
THEOREM PayrollReportsCounted == Spec => []ReportsAreCounted
<1>1. IndInv => ReportsAreCounted
  BY DEF IndInv, ReportsAreCounted, TypeOK
<1> QED BY <1>1, PayrollInvariant, PTL

(* The payroll handlers issue nothing but the statements of the store, each *)
(* with the evidence the store asks of it.                                  *)
THEOREM PayrollImplementsStore == Spec => StoreSpec
<1>1. Init => StoreInit
  BY DEF Init
<1> QED BY <1>1, PayrollInvariant, PayrollStoreStep, PTL DEF Spec, StoreSpec

(* So a payroll implements the payment ledger: a payment is settled by one  *)
(* mined transaction, which pays it and nothing else.                       *)
THEOREM PayrollImplementsLedger == Spec => ImplementsLedger
  BY PayrollImplementsStore, StoreImplementsLedger, PTL

(* One transaction is the recorded evidence of at most one batch, whatever  *)
(* wallet and page reported it (the unique hash column of the intents).     *)
THEOREM PayrollEvidenceUnique == Spec => []EvidenceIsUnique
<1>1. IndInv => EvidenceIsUnique
  BY DEF IndInv, StoreInv
<1> QED BY <1>1, PayrollInvariant, PTL

-----------------------------------------------------------------------------
(* What the whole payroll promises while no unit is inside two reportUnit   *)
(* transactions at once: everything else, requests, restarts, failed        *)
(* reports, other statements on the intents, may still overlap.             *)
DistinctPayroll == Init /\ [][Next /\ Distinct']_vars

(* Every batch was paid, exactly, by a transaction of its own. *)
EveryBatchIsPaid ==
    \A k \in Keys : /\ ReceiptMatches(transactionHash[k], Due[k])
                    /\ \A l \in Keys : k # l => transactionHash[k] # transactionHash[l]

LEMMA DistinctPayrollInv == DistinctPayroll => [](IndInv /\ DistinctInv)
<1>1. Init => IndInv /\ DistinctInv
  BY PayrollInitInv, DistinctInitInv DEF Init
<1>2. IndInv /\ DistinctInv /\ [Next /\ Distinct']_vars => (IndInv /\ DistinctInv)'
  <2> SUFFICES ASSUME IndInv, DistinctInv, [Next /\ Distinct']_vars
               PROVE  IndInv' /\ DistinctInv'
    OBVIOUS
  <2>1. IndInv' /\ [UnitAction]_unitVars
    BY PayrollNextInv, PayrollUnitStep
  <2>2. Distinct'
    BY DEF DistinctInv, Distinct, Idle, vars
  <2> QED BY <2>1, <2>2, DistinctNextInv
<1> QED BY <1>1, <1>2, PTL DEF DistinctPayroll

(* A payroll task recorded as executed was paid on chain, batch by batch,   *)
(* and its counters are exact (reportUnit, completeWithVerifiedReceipt).    *)
THEOREM ExecutedPayrollIsPaid ==
    DistinctPayroll => [](CountersExact /\ (taskStatus = "executed" => EveryBatchIsPaid))
<1>1. IndInv /\ DistinctInv => CountersExact /\ (taskStatus = "executed" => EveryBatchIsPaid)
  <2> SUFFICES ASSUME IndInv, DistinctInv, taskStatus = "executed", NEW k \in Keys
               PROVE  /\ ReceiptMatches(transactionHash[k], Due[k])
                      /\ \A l \in Keys : k # l => transactionHash[k] # transactionHash[l]
    BY DEF DistinctInv, EveryBatchIsPaid
  <2>1. unitStatus[k] = "SUCCESS"
    BY UnitsAssumption DEF DistinctInv, ExecutedIsPaid, Reported
  <2> QED BY <2>1
      DEF IndInv, UnitsProven, StoreInv, CompletedIsProven, RowsDue, Exists, EvidenceIsUnique
<1> QED BY <1>1, DistinctPayrollInv, PTL

(* With one request at a time inside reportUnit the task shows at all times *)
(* the counters and the status its units imply (TaskUnitService.reportUnit, *)
(* recomputeTaskStatus).                                                    *)
SerialPayroll == Init /\ [][Next /\ Serial']_vars

THEOREM SerialPayrollMatches == SerialPayroll => []TaskMatchesUnits
<1>1. Init => IndInv /\ SerialInv
  BY PayrollInitInv, SerialInitInv DEF Init
<1>2. IndInv /\ SerialInv /\ [Next /\ Serial']_vars => (IndInv /\ SerialInv)'
  <2> SUFFICES ASSUME IndInv, SerialInv, [Next /\ Serial']_vars
               PROVE  IndInv' /\ SerialInv'
    OBVIOUS
  <2>1. IndInv' /\ [UnitAction]_unitVars
    BY PayrollNextInv, PayrollUnitStep
  <2>2. Serial'
    BY DEF SerialInv, Serial, Idle, vars
  <2> QED BY <2>1, <2>2, SerialNextInv
<1> QED BY <1>1, <1>2, SerialMatches, PTL DEF SerialPayroll
=============================================================================
