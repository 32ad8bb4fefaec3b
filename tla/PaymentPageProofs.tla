-------------------------- MODULE PaymentPageProofs --------------------------
(***************************************************************************)
(* The pages from which money leaves: what they do holds for every number  *)
(* of groups, batches, payrolls, tabs, presses, loads and polls.           *)
(*                                                                         *)
(* The payroll page, one run: the action guard is held exactly while a run *)
(* is live, and runs are numbered in the order they start.  The list and   *)
(* the modal: a success row is final and its payment mined, every answer   *)
(* shown or on its way has only successes the backend still has, and a run *)
(* reports a success only for a mined payment of a unit it has not         *)
(* reported before.                                                        *)
(*                                                                         *)
(* The invoice checkout: the one grant of the invoice's intent.            *)
(*                                                                         *)
(* One group of a payroll run: the one grant of each unit's intent.  The   *)
(* funding of the group is a sum over the units, by induction on their     *)
(* number: a set of natural numbers has a least element (WFMin), so a sum  *)
(* that went wrong would go wrong first somewhere.                         *)
(*                                                                         *)
(* The swap: what a quote says of its block holds wherever the quote goes. *)
(*                                                                         *)
(* The history the pages show: leases of the synchronisation, rows by key, *)
(* pages by cursor and logs by block range.                                *)
(***************************************************************************)
EXTENDS Integers, InvoiceCheckout, PayrollRun, PayrollScreen, SwapFlow, ActivityFeed, TLAPS,
        FiniteSetTheorems, WellFoundedInduction

(* What a unit's row and payment can be together. *)
RowsType ==
    /\ unitRows \in [PageUnits -> {Absent, "PENDING", "SUCCESS", "FAILED"}]
    /\ unitTx \in [PageUnits -> {Absent, "sent", "paid", "reverted"}]
    /\ \A u \in PageUnits : unitRows[u] = "SUCCESS" => unitTx[u] = "paid"

RunRecords == [at : {Absent, "done", "init", "opened", "approve", "leave", "submit", "simulate",
                     "wallet", "record", "report", "close"},
               sheet : Sheets, group : Groups, nr : 0..UnitsPerGroup, ok : BOOLEAN,
               failed : BOOLEAN, told : SUBSET PageUnits]

RunsType ==
    /\ runs \in [Sends -> RunRecords]
    /\ sends \in 0..MaxSends
    /\ guardHeld \in BOOLEAN
    /\ sheet \in Sheets

(* The guard and the runs. *)
GuardInv ==
    /\ \A r \in Sends : r > sends => runs[r].at = Absent
    /\ \A r \in Sends : Running(r) => guardHeld
    /\ OneRunPerPage

(* An answer of the backend that its rows have not taken back. *)
Answers == UNION {[id : {t}, status : [UnitsOf(t) -> {Absent, "PENDING", "SUCCESS", "FAILED"}]] :
                  t \in TaskIds}
Confirmed(a) == \A u \in UnitsOf(a.id) : a.status[u] = "SUCCESS" => unitRows[u] = "SUCCESS"

AnswersInv ==
    /\ shownTask = NoTask \/ (shownTask \in Answers /\ Confirmed(shownTask))
    /\ taskId \in TaskIds \cup {NoTaskId}
    /\ polled \subseteq Answers
    /\ \A a \in polled : Confirmed(a)
    /\ hashes \subseteq PageUnits
    /\ \A u \in hashes : unitRows[u] = "SUCCESS"

(* A run past the wallet is at one of its units; a confirmed one is paid    *)
(* and pending.                                                             *)
AtUnit(r) == runs[r].at \in {"submit", "simulate", "wallet", "record", "report"}
UnitOK(r) ==
    /\ AtUnit(r) => runs[r].nr \in 1..UnitsPerGroup /\ unitRows[UnitAt(r)] = "PENDING"
    /\ runs[r].at = "approve" /\ runs[r].nr # 0 => unitRows[UnitAt(r)] = "PENDING"
    /\ runs[r].at = "report" /\ runs[r].ok => unitTx[UnitAt(r)] = "paid"
    /\ Running(r) => runs[r].told \subseteq hashes

UnitsInv == \A r \in Sends : UnitOK(r)

ScreenInv == RowsType /\ RunsType /\ GuardInv /\ AnswersInv /\ UnitsInv

-----------------------------------------------------------------------------
(* What the page's helpers return *)

(* A unit of a task is one of the payroll's units. *)
LEMMA UnitsAreUnits ==
    ASSUME NEW t \in TaskIds
    PROVE  /\ UnitsOf(t) \subseteq PageUnits
           /\ \A n \in 1..UnitsPerGroup : Unit(t, n) \in UnitsOf(t)
           /\ t # NoTaskId
BY ScreenAssumption DEF UnitsOf, Unit, PageUnits, TaskIds, Sheets, NoTaskId

(* findNextPendingUnit answers with a pending unit or with none. *)
LEMMA NextPendingIsPending ==
    ASSUME NEW t, NEW statuses, NEW n, n = NextPending(t, statuses)
    PROVE  n = 0 \/ (n \in 1..UnitsPerGroup /\ statuses[Unit(t, n)] = "PENDING")
BY DEF NextPending

LEMMA ResumableIsPending ==
    ASSUME NEW t, NEW n, n = Resumable(t)
    PROVE  n = 0 \/ (n \in 1..UnitsPerGroup /\ unitRows[Unit(t, n)] = "PENDING")
BY NextPendingIsPending DEF Resumable

(* What the backend answers now it still holds. *)
LEMMA AnswerIsConfirmed ==
    ASSUME RowsType, NEW t \in TaskIds
    PROVE  TaskAnswer(t) \in Answers /\ Confirmed(TaskAnswer(t))
<1>1. UnitsOf(t) \subseteq PageUnits  BY UnitsAreUnits
<1>2. [u \in UnitsOf(t) |-> unitRows[u]] \in [UnitsOf(t) -> {Absent, "PENDING", "SUCCESS", "FAILED"}]
  BY <1>1 DEF RowsType
<1> QED BY <1>1, <1>2 DEF TaskAnswer, Answers, Confirmed

(* What an answer names. *)
LEMMA AnswersAreTyped ==
    ASSUME NEW a \in Answers
    PROVE  /\ a.id \in TaskIds
           /\ a.status \in [UnitsOf(a.id) -> {Absent, "PENDING", "SUCCESS", "FAILED"}]
BY DEF Answers

-----------------------------------------------------------------------------
(* Rows and unitTx *)

(* A step leaves every success a success. *)
Grows == \A u \in PageUnits : unitRows[u] = "SUCCESS" => unitRows'[u] = "SUCCESS"

LEMMA RowsGrow ==
    ASSUME ScreenInv, ScreenNext
    PROVE  RowsType' /\ Grows
<1> USE DEF ScreenInv, RowsType, Grows
<1>1. ASSUME NEW r \in Sends, InitGroup(r) PROVE RowsType' /\ Grows
  <2>1. CASE UNCHANGED unitRows
    BY <1>1, <2>1 DEF InitGroup
  <2>2. CASE ~UNCHANGED unitRows
    <3>1. TaskOf(r) \in TaskIds  BY DEF TaskOf, TaskIds, RunsType, RunRecords
    <3> DEFINE Mine0 == UnitsOf(TaskOf(r))
    <3>2. Mine0 \subseteq PageUnits  BY <3>1, UnitsAreUnits
    <3>3. PICK next \in [Mine0 -> {"PENDING", "SUCCESS", "FAILED"}] :
            /\ \A u \in Mine0 :
                 next[u] \in IF unitRows[u] = Absent THEN {"PENDING"} ELSE Settlements(u)
            /\ unitRows' = [u \in PageUnits |-> IF u \in Mine0 THEN next[u] ELSE unitRows[u]]
            /\ UNCHANGED unitTx
      BY <1>1, <2>2 DEF InitGroup
    <3> HIDE DEF Mine0
    <3>4. ASSUME NEW u \in PageUnits
          PROVE  /\ unitRows'[u] \in {Absent, "PENDING", "SUCCESS", "FAILED"}
                 /\ unitRows[u] = "SUCCESS" => unitRows'[u] = "SUCCESS"
                 /\ unitRows'[u] = "SUCCESS" => unitTx[u] = "paid"
      BY <3>2, <3>3 DEF Settlements, Absent
    <3> QED BY <3>3, <3>4
  <2> QED BY <2>1, <2>2
<1>2. ASSUME NEW r \in Sends, ReportOutcome(r) PROVE RowsType' /\ Grows
  <2>1. UnitAt(r) \in PageUnits
    BY <1>2 DEF ReportOutcome, UnitAt, Unit, TaskOf, PageUnits, UnitsInv, UnitOK, AtUnit, RunsType, RunRecords
  <2>2. runs[r].ok => unitTx[UnitAt(r)] = "paid"
    BY <1>2 DEF ReportOutcome, UnitsInv, UnitOK
  <2>3. UNCHANGED unitTx /\ (UNCHANGED unitRows \/ unitRows' = [unitRows EXCEPT ![UnitAt(r)] =
            IF @ = "PENDING" THEN IF runs[r].ok THEN "SUCCESS" ELSE "FAILED" ELSE @])
    BY <1>2 DEF ReportOutcome
  <2> QED BY <2>1, <2>2, <2>3
<1>3. ASSUME NEW r \in Sends, SignSubmit(r) PROVE RowsType' /\ Grows
  <2>1. UnitAt(r) \in PageUnits
    BY <1>3 DEF SignSubmit, UnitAt, Unit, TaskOf, PageUnits, UnitsInv, UnitOK, AtUnit, RunsType, RunRecords
  <2>2. unitRows[UnitAt(r)] = "PENDING"
    BY <1>3 DEF SignSubmit, UnitsInv, UnitOK, AtUnit
  <2> QED BY <1>3, <2>1, <2>2 DEF SignSubmit
<1>4. ASSUME NEW u \in PageUnits, MineUnit(u) PROVE RowsType' /\ Grows
  BY <1>4 DEF MineUnit
<1>5. CASE UNCHANGED server
  BY <1>5 DEF server
<1> QED
  BY <1>1, <1>2, <1>3, <1>4, <1>5
  DEF ScreenNext, GuardedSend, DismissSuccessModal, ResetComposer, ClearPage, PageRunStep, OpenTask,
      RequestApproval, LeaveRun, StartSubmit, SimulateSubmit, RecordConfirmation, CloseGroup,
      Poll, PollAnswers, server

-----------------------------------------------------------------------------
(* The runs *)

(* A step of a run moves that run only, and its end releases the guard;     *)
(* the payroll in the composer and the number of presses stay.              *)
OnlyMoves(r) ==
    /\ \E to \in RunRecords : runs' = [runs EXCEPT ![r] = to]
    /\ UNCHANGED <<sheet, sends>>
    /\ \/ UNCHANGED guardHeld /\ runs'[r].at \notin {Absent, "done"}
       \/ ~guardHeld' /\ runs'[r].at = "done"

(* Where a run may be. *)
Places == {Absent, "done", "init", "opened", "approve", "leave", "submit", "simulate", "wallet",
           "record", "report", "close"}
MovesTo(r, to) == to \in RunRecords /\ runs' = [runs EXCEPT ![r] = to]

LEMMA RecordsChange ==
    ASSUME RunsType, NEW r \in Sends
    PROVE  /\ runs[r] \in RunRecords
           /\ \A at \in Places : Goes(r, at) => MovesTo(r, [runs[r] EXCEPT !.at = at])
           /\ \A at \in Places, ok \in BOOLEAN :
                 [runs[r] EXCEPT !.at = at, !.ok = ok] \in RunRecords
           /\ \A n \in 0..UnitsPerGroup :
                 /\ ToUnit(r, n) \in RunRecords
                 /\ ToUnit(r, n).at \in {"close", "submit"}
                 /\ [runs[r] EXCEPT !.at = "approve", !.nr = n] \in RunRecords
<1>1. runs[r] \in RunRecords  BY DEF RunsType
<1>2. \A at \in Places, ok \in BOOLEAN : [runs[r] EXCEPT !.at = at, !.ok = ok] \in RunRecords
  BY <1>1 DEF RunRecords, Places
<1>3. \A n \in 0..UnitsPerGroup :
        /\ ToUnit(r, n) \in RunRecords
        /\ ToUnit(r, n).at \in {"close", "submit"}
        /\ [runs[r] EXCEPT !.at = "approve", !.nr = n] \in RunRecords
  BY <1>1 DEF RunRecords, ToUnit
<1>4. ASSUME NEW at \in Places, Goes(r, at)
      PROVE  MovesTo(r, [runs[r] EXCEPT !.at = at])
  <2>1. [runs[r] EXCEPT !.at = at] \in RunRecords  BY <1>1 DEF RunRecords, Places
  <2> QED BY <1>4, <2>1 DEF Goes, MovesTo, RunsType
<1> QED BY <1>1, <1>2, <1>3, <1>4

LEMMA RunStepMoves ==
    ASSUME ScreenInv, NEW r \in Sends, PageRunStep(r)
    PROVE  OnlyMoves(r) /\ Running(r) /\ guardHeld' \in BOOLEAN
<1> USE DEF OnlyMoves, Running, Absent
<1>0. RunsType /\ runs[r] \in RunRecords /\ runs \in [Sends -> RunRecords] /\ guardHeld \in BOOLEAN
  BY RecordsChange DEF ScreenInv, RunsType
<1>1. ASSUME NEW at \in Places, Goes(r, at)
      PROVE  (\E to \in RunRecords : runs' = [runs EXCEPT ![r] = to]) /\ runs'[r].at = at
  <2>1. MovesTo(r, [runs[r] EXCEPT !.at = at])  BY <1>0, <1>1, RecordsChange
  <2>2. [runs[r] EXCEPT !.at = at].at = at  BY <1>0 DEF RunRecords
  <2> QED BY <1>0, <2>1, <2>2 DEF MovesTo
<1>2. ASSUME NEW says, FinishRun(r, says), UNCHANGED <<sheet, sends>>
      PROVE  OnlyMoves(r) /\ guardHeld' = FALSE
  BY <1>1, <1>2 DEF FinishRun, Places
<1>3. ASSUME Throws(r), UNCHANGED <<sheet, sends>>
      PROVE  OnlyMoves(r) /\ guardHeld' = FALSE
  BY <1>2, <1>3 DEF Throws
<1>4. ASSUME NEW at \in Places \ {Absent, "done"}, Goes(r, at), UNCHANGED <<sheet, sends, guardHeld>>
      PROVE  OnlyMoves(r)
  BY <1>1, <1>4
<1>5. ASSUME NEW to \in RunRecords, runs' = [runs EXCEPT ![r] = to], to.at \notin {Absent, "done"},
             UNCHANGED <<sheet, sends, guardHeld>>
      PROVE  OnlyMoves(r)
  BY <1>0, <1>5
<1> HIDE DEF OnlyMoves
<1>6. CASE InitGroup(r)
  BY <1>0, <1>3, <1>4, <1>6 DEF InitGroup, Places
<1>7. CASE OpenTask(r)
  <2> DEFINE n == Resumable(TaskOf(r))
  <2>1. n \in 0..UnitsPerGroup  BY ResumableIsPending, ScreenAssumption
  <2>2. /\ ToUnit(r, n) \in RunRecords
        /\ ToUnit(r, n).at \in {"close", "submit"}
        /\ [runs[r] EXCEPT !.at = "approve", !.nr = n] \in RunRecords
    BY <1>0, <2>1, RecordsChange
  <2>3. [runs[r] EXCEPT !.at = "approve", !.nr = n].at = "approve"  BY <1>0 DEF RunRecords
  <2>4. runs' = [runs EXCEPT ![r] = ToUnit(r, n)] \/
        runs' = [runs EXCEPT ![r] = [runs[r] EXCEPT !.at = "approve", !.nr = n]]
    BY <1>0, <1>7 DEF OpenTask
  <2>5. runs[r].at = "opened" /\ UNCHANGED <<sheet, sends, guardHeld>>  BY <1>7 DEF OpenTask
  <2> HIDE DEF n
  <2> QED BY <1>0, <1>5, <2>2, <2>3, <2>4, <2>5
<1>8. CASE RequestApproval(r)
  <2>1. runs[r].nr \in 0..UnitsPerGroup  BY <1>0 DEF RunRecords
  <2>2. ToUnit(r, runs[r].nr) \in RunRecords /\ ToUnit(r, runs[r].nr).at \in {"close", "submit"}
    BY <1>0, <2>1, RecordsChange
  <2> QED BY <1>0, <1>4, <1>5, <1>8, <2>2 DEF RequestApproval, Places
<1>9. CASE LeaveRun(r)
  BY <1>0, <1>2, <1>9 DEF LeaveRun
<1>10. ASSUME SubmissionFails(r), UNCHANGED <<sheet, sends, guardHeld>>
       PROVE  OnlyMoves(r)
  <2> DEFINE to == [runs[r] EXCEPT !.at = "report", !.ok = FALSE]
  <2>1. to \in RunRecords /\ to.at = "report"  BY <1>0 DEF RunRecords
  <2>2. runs' = [runs EXCEPT ![r] = to]  BY <1>0, <1>10 DEF SubmissionFails
  <2> QED BY <1>5, <1>10, <2>1, <2>2
<1>11. CASE StartSubmit(r)
  BY <1>0, <1>4, <1>10, <1>11 DEF StartSubmit, Places
<1>12. CASE SimulateSubmit(r)
  BY <1>0, <1>4, <1>10, <1>12 DEF SimulateSubmit, Places
<1>13. CASE SignSubmit(r)
  BY <1>0, <1>4, <1>10, <1>13 DEF SignSubmit, Places
<1>14. CASE RecordConfirmation(r)
  <2> DEFINE to == [runs[r] EXCEPT !.at = "report", !.ok = TRUE]
  <2>1. to \in RunRecords /\ to.at = "report"  BY <1>0 DEF RunRecords
  <2>2. \/ runs' = [runs EXCEPT ![r] = to] /\ UNCHANGED guardHeld
        \/ FinishRun(r, "error")
    BY <1>0, <1>14 DEF RecordConfirmation
  <2>3. runs[r].at = "record" /\ UNCHANGED <<sheet, sends>>  BY <1>14 DEF RecordConfirmation
  <2> QED BY <1>0, <1>2, <1>5, <2>1, <2>2, <2>3
<1>15. CASE ReportOutcome(r)
  <2>1. runs[r].at = "report" /\ UNCHANGED <<sheet, sends>>  BY <1>15 DEF ReportOutcome
  <2>2. CASE Throws(r)
    BY <1>3, <2>1, <2>2
  <2>3. CASE ~Throws(r)
    <3> DEFINE n == NextPending(TaskOf(r), unitRows')
               next == ToUnit(r, n)
               to == [next EXCEPT !.failed = @ \/ ~runs[r].ok,
                                  !.told = IF runs[r].ok THEN @ \cup {UnitAt(r)} ELSE @]
    <3>1. n \in 0..UnitsPerGroup  BY NextPendingIsPending, ScreenAssumption
    <3>2. next \in RunRecords /\ next.at \in {"close", "submit"}
      BY <1>0, <3>1, RecordsChange
    <3>3. UnitAt(r) \in PageUnits
      BY <1>0, <2>1 DEF ScreenInv, UnitsInv, UnitOK, AtUnit, UnitAt, Unit, TaskOf, PageUnits, RunRecords
    <3>4. runs' = [runs EXCEPT ![r] = to] /\ UNCHANGED guardHeld
      BY <1>0, <1>15, <2>3 DEF ReportOutcome
    <3> HIDE DEF next
    <3>5. to \in RunRecords /\ to.at = next.at
      BY <1>0, <3>2, <3>3 DEF RunRecords
    <3> HIDE DEF to
    <3> QED BY <1>0, <1>5, <2>1, <3>2, <3>4, <3>5
  <2> QED BY <2>2, <2>3
<1>16. CASE CloseGroup(r)
  <2> DEFINE to == [runs[r] EXCEPT !.at = "init", !.group = @ + 1, !.nr = 0]
  <2>0. runs[r].group < NumGroups => runs[r].group + 1 \in Groups /\ 0 \in 0..UnitsPerGroup
    <3>1. runs[r].group \in Groups  BY <1>0 DEF RunRecords
    <3> QED BY <3>1, ScreenAssumption DEF Groups
  <2>1. runs[r].group < NumGroups => to \in RunRecords /\ to.at = "init"
    BY <1>0, <2>0 DEF RunRecords
  <2>2. IF runs[r].group < NumGroups
        THEN runs' = [runs EXCEPT ![r] = to] /\ UNCHANGED guardHeld
        ELSE \E says : FinishRun(r, says)
    BY <1>0, <1>16 DEF CloseGroup
  <2>3. runs[r].at = "close" /\ UNCHANGED <<sheet, sends>>  BY <1>16 DEF CloseGroup
  <2> HIDE DEF to
  <2> QED BY <1>0, <1>2, <1>5, <2>1, <2>2, <2>3
<1> QED
  BY <1>6, <1>7, <1>8, <1>9, <1>11, <1>12, <1>13, <1>14, <1>15, <1>16 DEF PageRunStep

(* The steps that are not a run's. *)
PageStep == \/ DismissSuccessModal \/ ResetComposer
            \/ \E u \in PageUnits : MineUnit(u)
            \/ Poll \/ \E a \in polled : PollAnswers(a)

(* Clearing the page takes nothing from a run but the memory of what it     *)
(* has told.                                                                *)
LEMMA PageStepKeepsRuns ==
    ASSUME RunsType, PageStep
    PROVE  /\ \/ UNCHANGED runs
              \/ runs' = [r \in Sends |-> [runs[r] EXCEPT !.told = {}]]
           /\ UNCHANGED <<sends, guardHeld>>
           /\ sheet' \in Sheets
           /\ runs' \in [Sends -> RunRecords]
           /\ \A r \in Sends : runs'[r].at = runs[r].at
<1>1. CASE ClearPage
  <2>1. \A r \in Sends : /\ [runs[r] EXCEPT !.told = {}] \in RunRecords
                          /\ [runs[r] EXCEPT !.told = {}].at = runs[r].at
    BY DEF RunsType, RunRecords
  <2>2. sheet' \in Sheets
    BY <1>1, ScreenAssumption DEF ClearPage, RunsType, Sheets
  <2>3. runs' = [r \in Sends |-> [runs[r] EXCEPT !.told = {}]] /\ UNCHANGED <<sends, guardHeld>>
    BY <1>1 DEF ClearPage
  <2> QED BY <2>1, <2>2, <2>3
<1>2. CASE UNCHANGED <<runs, sends, guardHeld, sheet>>
  BY <1>2 DEF RunsType
<1> QED
  BY <1>1, <1>2 DEF PageStep, DismissSuccessModal, ResetComposer, MineUnit, Poll, PollAnswers, runState

LEMMA GuardedSendStarts ==
    ASSUME ScreenInv, GuardedSend
    PROVE  LET new == [NotStarted EXCEPT !.at = "init", !.sheet = sheet] IN
           /\ sends + 1 \in Sends
           /\ sends' = sends + 1 /\ guardHeld' = TRUE /\ UNCHANGED sheet
           /\ new \in RunRecords /\ new.at = "init" /\ new.told = {}
           /\ runs' = [runs EXCEPT ![sends + 1] = new]
           /\ \A r \in Sends : ~Running(r)
<1>1. sends + 1 \in Sends
  BY ScreenAssumption DEF GuardedSend, ScreenInv, RunsType, Sends
<1>2. 1 \in Groups /\ 0 \in 0..UnitsPerGroup /\ sheet \in Sheets
  BY ScreenAssumption DEF Groups, ScreenInv, RunsType
<1>3. \A r \in Sends : ~Running(r)
  BY DEF GuardedSend, SendEnabled, ScreenInv, GuardInv
<1> QED BY <1>1, <1>2, <1>3 DEF GuardedSend, NotStarted, RunRecords

(* One run: the guard holds until it ends. *)
LEMMA RunsStayOne ==
    ASSUME ScreenInv, ScreenNext
    PROVE  RunsType' /\ GuardInv'
<1> USE DEF Absent
<1>0. RunsType /\ GuardInv  BY DEF ScreenInv
<1>1. CASE GuardedSend
  <2>1. PICK new \in RunRecords :
          /\ runs' = [runs EXCEPT ![sends + 1] = new]
          /\ new.at = "init"
    BY <1>1, GuardedSendStarts
  <2>2. /\ sends + 1 \in Sends
        /\ sends' = sends + 1 /\ guardHeld' = TRUE /\ UNCHANGED sheet
        /\ \A r \in Sends : ~Running(r)
    BY <1>1, GuardedSendStarts
  <2>3. RunsType'
    BY <1>0, <2>1, <2>2, ScreenAssumption DEF RunsType, Sends
  <2>4. \A r \in Sends : runs'[r] = IF r = sends + 1 THEN new ELSE runs[r]
    BY <1>0, <2>1, <2>2 DEF RunsType
  <2>5. \A r \in Sends : r > sends' => runs'[r].at = Absent
    BY <1>0, <2>2, <2>4, ScreenAssumption DEF RunsType, GuardInv, Sends
  <2>6. \A r \in Sends : Running(r)' => r = sends + 1
    BY <2>2, <2>4 DEF Running
  <2> QED BY <2>2, <2>3, <2>5, <2>6 DEF GuardInv, OneRunPerPage
<1>2. ASSUME NEW r \in Sends, PageRunStep(r)
      PROVE  RunsType' /\ GuardInv'
  <2>1. PICK to \in RunRecords : runs' = [runs EXCEPT ![r] = to]
    BY <1>2, RunStepMoves DEF OnlyMoves
  <2>2. /\ UNCHANGED <<sheet, sends>> /\ Running(r) /\ guardHeld' \in BOOLEAN
        /\ \/ UNCHANGED guardHeld /\ runs'[r].at \notin {Absent, "done"}
           \/ ~guardHeld' /\ runs'[r].at = "done"
    BY <1>2, RunStepMoves DEF OnlyMoves
  <2>3. \A s \in Sends : s # r => runs'[s] = runs[s] /\ ~Running(s)
    BY <1>0, <2>1, <2>2 DEF RunsType, GuardInv, OneRunPerPage
  <2>4. RunsType'
    BY <1>0, <2>1, <2>2 DEF RunsType
  <2>5. \A s \in Sends : s > sends' => runs'[s].at = Absent
    BY <1>0, <2>2, <2>3 DEF GuardInv, Running
  <2>6. \A s \in Sends : Running(s)' => s = r /\ guardHeld'
    BY <1>0, <2>2, <2>3 DEF GuardInv, Running
  <2> QED BY <2>4, <2>5, <2>6 DEF GuardInv, OneRunPerPage
<1>3. CASE PageStep
  <2>1. /\ UNCHANGED <<sends, guardHeld>>
        /\ sheet' \in Sheets
        /\ runs' \in [Sends -> RunRecords]
        /\ \A r \in Sends : runs'[r].at = runs[r].at
    BY <1>0, <1>3, PageStepKeepsRuns
  <2> QED BY <1>0, <2>1 DEF RunsType, GuardInv, OneRunPerPage, Running
<1> QED BY <1>1, <1>2, <1>3 DEF ScreenNext, PageStep

-----------------------------------------------------------------------------
(* Answers and hashes *)

(* An answer that the rows bear out stays so while successes last. *)
LEMMA ConfirmedLasts ==
    ASSUME Grows, NEW a \in Answers, Confirmed(a)
    PROVE  Confirmed(a)'
<1>1. UnitsOf(a.id) \subseteq PageUnits  BY AnswersAreTyped, UnitsAreUnits
<1> QED BY <1>1 DEF Grows, Confirmed

(* The page shows such an answer and adds its hashes. *)
Shows == \E a \in Answers : Confirmed(a)' /\ Show(a)

LEMMA AnswersAfter ==
    ASSUME AnswersInv, Grows,
           Shows \/ UNCHANGED <<shownTask, hashes>> \/ (shownTask' = NoTask /\ hashes' = {}),
           polled' \subseteq Answers, \A a \in polled' : Confirmed(a)',
           taskId' \in TaskIds \cup {NoTaskId}
    PROVE  AnswersInv'
<1>1. hashes \subseteq PageUnits /\ \A u \in hashes : unitRows'[u] = "SUCCESS"
  BY DEF AnswersInv, Grows
<1>2. CASE Shows
  <2>1. PICK a \in Answers : Confirmed(a)' /\ Show(a)  BY <1>2 DEF Shows
  <2>2. UnitsOf(a.id) \subseteq PageUnits  BY <2>1, AnswersAreTyped, UnitsAreUnits
  <2>3. hashes' \subseteq PageUnits /\ \A u \in hashes' : unitRows'[u] = "SUCCESS"
    BY <1>1, <2>1, <2>2 DEF Show, MergeSuccessful, Confirmed
  <2>4. shownTask' \in Answers /\ Confirmed(shownTask)'
    BY <2>1 DEF Show, Confirmed
  <2> QED BY <2>3, <2>4 DEF AnswersInv, Answers, UnitsOf
<1>3. CASE UNCHANGED <<shownTask, hashes>>
  <2>1. shownTask = NoTask \/ (shownTask \in Answers /\ Confirmed(shownTask))  BY DEF AnswersInv
  <2>2. shownTask \in Answers /\ Confirmed(shownTask) => Confirmed(shownTask)'
    BY <1>3, ConfirmedLasts DEF Confirmed
  <2>3. shownTask' = NoTask \/ (shownTask' \in Answers /\ Confirmed(shownTask)')  BY <1>3, <2>1, <2>2
  <2> QED BY <1>1, <1>3, <2>3 DEF AnswersInv
<1>4. CASE shownTask' = NoTask /\ hashes' = {}
  BY <1>4 DEF AnswersInv
<1> QED BY <1>2, <1>3, <1>4

LEMMA RefreshShows ==
    ASSUME RowsType, UNCHANGED unitRows, NEW t \in TaskIds, RefreshTask(t)
    PROVE  Shows \/ UNCHANGED <<shownTask, hashes>>
<1>1. TaskAnswer(t) \in Answers /\ Confirmed(TaskAnswer(t))  BY AnswerIsConfirmed
<1>2. Confirmed(TaskAnswer(t))'  BY <1>1 DEF Confirmed, TaskAnswer, UnitsOf
<1> QED BY <1>1, <1>2 DEF RefreshTask, Shows, Confirmed, TaskAnswer

(* What each step shows, and the polls it leaves on their way. *)
LEMMA StepsShow ==
    ASSUME ScreenInv, RowsType', Grows, ScreenNext
    PROVE  /\ Shows \/ UNCHANGED <<shownTask, hashes>> \/ (shownTask' = NoTask /\ hashes' = {})
           /\ polled' \subseteq Answers /\ \A a \in polled' : Confirmed(a)'
           /\ taskId' \in TaskIds \cup {NoTaskId}
<1> USE DEF Absent
<1>0. RunsType /\ RowsType /\ AnswersInv  BY DEF ScreenInv
<1>1. \A a \in polled : a \in Answers /\ Confirmed(a)'
  BY <1>0, ConfirmedLasts DEF AnswersInv
<1>2. \A r \in Sends : TaskOf(r) \in TaskIds
  BY <1>0 DEF RunsType, RunRecords, TaskOf, TaskIds
<1>3. taskId \in TaskIds \cup {NoTaskId}  BY <1>0 DEF AnswersInv
<1>4. CASE GuardedSend
  BY <1>1, <1>3, <1>4 DEF GuardedSend
<1>5. CASE ClearPage
  BY <1>1, <1>3, <1>5 DEF ClearPage
<1>6. ASSUME NEW r \in Sends, OpenTask(r) \/ LeaveRun(r) \/ CloseGroup(r)
      PROVE  /\ Shows \/ UNCHANGED <<shownTask, hashes>>
             /\ UNCHANGED <<polled, taskId>>
  <2>1. RefreshTask(TaskOf(r)) /\ UNCHANGED <<unitRows, polled, taskId>>
    BY <1>6 DEF OpenTask, LeaveRun, CloseGroup, server
  <2> QED BY <1>0, <1>2, <2>1, RefreshShows
<1>7. ASSUME NEW r \in Sends, ReportOutcome(r)
      PROVE  /\ Shows \/ UNCHANGED <<shownTask, hashes>>
             /\ UNCHANGED <<polled, taskId>>
  <2> DEFINE a == [id |-> TaskOf(r), status |-> [v \in UnitsOf(TaskOf(r)) |-> unitRows'[v]]]
  <2>1. Show(a) \/ UNCHANGED <<shownTask, hashes>>  BY <1>7 DEF ReportOutcome
  <2>2. UnitsOf(TaskOf(r)) \subseteq PageUnits  BY <1>2, UnitsAreUnits
  <2>3. a.status \in [UnitsOf(TaskOf(r)) -> {Absent, "PENDING", "SUCCESS", "FAILED"}]
    BY <2>2 DEF RowsType
  <2>4. a \in Answers  BY <1>2, <2>3 DEF Answers
  <2>5. \A u \in UnitsOf(a.id) : a.status[u] = "SUCCESS" => unitRows'[u] = "SUCCESS"
    OBVIOUS
  <2> HIDE DEF a
  <2>6. Show(a) => Shows
    BY <2>4, <2>5 DEF Shows, Confirmed
  <2> QED BY <1>7, <2>1, <2>6 DEF ReportOutcome
<1>8. ASSUME NEW r \in Sends, InitGroup(r)
      PROVE  UNCHANGED <<shownTask, hashes, polled>> /\ taskId' \in TaskIds \cup {NoTaskId}
  BY <1>2, <1>3, <1>8 DEF InitGroup
<1>9. ASSUME NEW r \in Sends, \/ RequestApproval(r) \/ StartSubmit(r) \/ SimulateSubmit(r)
                              \/ SignSubmit(r) \/ RecordConfirmation(r)
      PROVE  UNCHANGED <<shownTask, hashes, polled, taskId>>
  BY <1>9 DEF RequestApproval, StartSubmit, SimulateSubmit, SignSubmit, RecordConfirmation, display
<1>10. CASE Poll
  <2>1. taskId \in TaskIds  BY <1>3, <1>10 DEF Poll
  <2>2. PICK a \in Answers : a = TaskAnswer(taskId) /\ Confirmed(a)
    BY <1>0, <2>1, AnswerIsConfirmed
  <2>3. UNCHANGED <<shownTask, hashes, taskId, unitRows>> /\ polled' = polled \cup {a}
    BY <1>10, <2>2 DEF Poll, display, server
  <2>4. Confirmed(a)'  BY <2>2, <2>3 DEF Confirmed
  <2> QED BY <1>1, <1>3, <2>2, <2>3, <2>4
<1>11. ASSUME NEW a \in polled, PollAnswers(a)
       PROVE  Shows /\ polled' \subseteq polled /\ UNCHANGED taskId
  BY <1>1, <1>11 DEF PollAnswers, Shows, display
<1>12. ASSUME NEW u \in PageUnits, MineUnit(u)
       PROVE  UNCHANGED <<shownTask, hashes, polled, taskId>>
  BY <1>12 DEF MineUnit, display
<1>13. CASE \E r \in Sends : PageRunStep(r)
  BY <1>1, <1>3, <1>6, <1>7, <1>8, <1>9, <1>13 DEF PageRunStep
<1>14. CASE DismissSuccessModal \/ ResetComposer
  BY <1>5, <1>14 DEF DismissSuccessModal, ResetComposer
<1> QED
  BY <1>1, <1>3, <1>4, <1>10, <1>11, <1>12, <1>13, <1>14 DEF ScreenNext

-----------------------------------------------------------------------------
(* The unit a run is at *)

(* Hashes are only added, except by a press of Send and by clearing.        *)
LEMMA HashesGrow ==
    ASSUME NEW a, Show(a)
    PROVE  hashes \subseteq hashes'
BY DEF Show, MergeSuccessful

LEMMA RunStepKeepsUnit ==
    ASSUME ScreenInv, RunsType', NEW r \in Sends, PageRunStep(r)
    PROVE  UnitOK(r)'
<1> USE DEF Absent
<1>0. /\ runs \in [Sends -> RunRecords] /\ runs[r] \in RunRecords /\ UnitOK(r) /\ Running(r)
      /\ TaskOf(r) \in TaskIds
  BY RunStepMoves DEF ScreenInv, RunsType, UnitsInv, TaskOf, TaskIds, RunRecords
<1>1. ASSUME NEW at \in {"opened", "leave", "done", "close", "init"}, runs'[r].at = at,
             runs'[r].told = runs[r].told, hashes \subseteq hashes'
      PROVE  UnitOK(r)'
  BY <1>0, <1>1 DEF UnitOK, AtUnit
<1>2. ASSUME NEW at \in {"simulate", "wallet", "record", "report"}, runs'[r].at = at, AtUnit(r),
             runs'[r].nr = runs[r].nr, runs'[r].sheet = runs[r].sheet,
             runs'[r].group = runs[r].group, runs'[r].told = runs[r].told,
             UNCHANGED <<unitRows, hashes>>, runs'[r].at = "report" /\ runs'[r].ok => unitTx'[UnitAt(r)] = "paid"
      PROVE  UnitOK(r)'
  BY <1>0, <1>2 DEF UnitOK, AtUnit, UnitAt, Unit, TaskOf
<1>3. ASSUME NEW n, runs' = [runs EXCEPT ![r] = ToUnit(r, n)], hashes \subseteq hashes', UNCHANGED unitRows,
             n = 0 \/ (n \in 1..UnitsPerGroup /\ unitRows[Unit(TaskOf(r), n)] = "PENDING")
      PROVE  UnitOK(r)'
  <2>1. /\ runs'[r].at = IF n = 0 THEN "close" ELSE "submit"
        /\ runs'[r].nr = n /\ runs'[r].sheet = runs[r].sheet
        /\ runs'[r].group = runs[r].group /\ runs'[r].told = runs[r].told
    BY <1>0, <1>3 DEF ToUnit, RunRecords
  <2> QED BY <1>0, <1>3, <2>1, ScreenAssumption DEF UnitOK, AtUnit, UnitAt, Unit, TaskOf
<1>4. ASSUME NEW at \in Places, Goes(r, at)
      PROVE  /\ runs'[r].at = at /\ runs'[r].nr = runs[r].nr /\ runs'[r].sheet = runs[r].sheet
             /\ runs'[r].group = runs[r].group /\ runs'[r].told = runs[r].told
  BY <1>0, <1>4 DEF Goes, RunRecords
<1>5. ASSUME NEW says, FinishRun(r, says), hashes \subseteq hashes'
      PROVE  UnitOK(r)'
  BY <1>1, <1>4, <1>5 DEF FinishRun, Places
<1>6. ASSUME Throws(r), hashes \subseteq hashes'
      PROVE  UnitOK(r)'
  BY <1>5, <1>6 DEF Throws
<1>7. ASSUME NEW t, RefreshTask(t)
      PROVE  hashes \subseteq hashes'
  BY <1>7, HashesGrow DEF RefreshTask
<1>8. ASSUME SubmissionFails(r), AtUnit(r), UNCHANGED <<unitRows, hashes>>
      PROVE  UnitOK(r)'
  <2>1. /\ runs'[r].at = "report" /\ runs'[r].ok = FALSE
        /\ runs'[r].nr = runs[r].nr /\ runs'[r].sheet = runs[r].sheet
        /\ runs'[r].group = runs[r].group /\ runs'[r].told = runs[r].told
    BY <1>0, <1>8 DEF SubmissionFails, RunRecords
  <2> QED BY <1>2, <1>8, <2>1
<1>9. CASE InitGroup(r)
  <2>1. hashes \subseteq hashes' /\ (Throws(r) \/ Goes(r, "opened"))  BY <1>9 DEF InitGroup
  <2>2. ASSUME Goes(r, "opened") PROVE UnitOK(r)'
    BY <1>1, <1>4, <2>1, <2>2 DEF Places
  <2> QED BY <1>6, <2>1, <2>2
<1>10. CASE OpenTask(r)
  <2> DEFINE n == Resumable(TaskOf(r))
  <2>1. n = 0 \/ (n \in 1..UnitsPerGroup /\ unitRows[Unit(TaskOf(r), n)] = "PENDING")
    BY ResumableIsPending
  <2>2. hashes \subseteq hashes' /\ UNCHANGED unitRows  BY <1>7, <1>10 DEF OpenTask, server
  <2>3. \/ runs' = [runs EXCEPT ![r] = ToUnit(r, n)]
        \/ runs' = [runs EXCEPT ![r].at = "approve", ![r].nr = n]
    BY <1>10 DEF OpenTask
  <2> HIDE DEF n
  <2>4. ASSUME runs' = [runs EXCEPT ![r].at = "approve", ![r].nr = n]
        PROVE  UnitOK(r)'
    <3>1. /\ runs'[r].at = "approve" /\ runs'[r].nr = n /\ runs'[r].sheet = runs[r].sheet
          /\ runs'[r].group = runs[r].group /\ runs'[r].told = runs[r].told
      BY <1>0, <2>4 DEF RunRecords
    <3> QED BY <1>0, <2>1, <2>2, <3>1 DEF UnitOK, AtUnit, UnitAt, Unit, TaskOf
  <2> QED BY <1>3, <2>1, <2>2, <2>3, <2>4
<1>11. CASE RequestApproval(r)
  <2>1. UNCHANGED <<unitRows, hashes>>  BY <1>11 DEF RequestApproval, server, display
  <2>2. LET n == runs[r].nr IN
        n = 0 \/ (n \in 1..UnitsPerGroup /\ unitRows[Unit(TaskOf(r), n)] = "PENDING")
    BY <1>0, <1>11 DEF RequestApproval, RunRecords, UnitOK, UnitAt
  <2>3. runs' = [runs EXCEPT ![r] = ToUnit(r, runs[r].nr)] \/ Goes(r, "leave")
    BY <1>11 DEF RequestApproval
  <2>4. ASSUME Goes(r, "leave") PROVE UnitOK(r)'
    BY <1>1, <1>4, <2>1, <2>4 DEF Places
  <2> QED BY <1>3, <2>1, <2>2, <2>3, <2>4
<1>12. CASE LeaveRun(r)
  BY <1>5, <1>7, <1>12 DEF LeaveRun
<1>13. CASE StartSubmit(r)
  <2>1. AtUnit(r) /\ UNCHANGED <<unitRows, hashes>> /\ (SubmissionFails(r) \/ Goes(r, "simulate"))
    BY <1>13 DEF StartSubmit, server, display, AtUnit
  <2>2. ASSUME Goes(r, "simulate") PROVE UnitOK(r)'
    BY <1>2, <1>4, <2>1, <2>2 DEF Places
  <2> QED BY <1>8, <2>1, <2>2
<1>14. CASE SimulateSubmit(r)
  <2>1. AtUnit(r) /\ UNCHANGED <<unitRows, hashes>> /\ (SubmissionFails(r) \/ Goes(r, "wallet"))
    BY <1>14 DEF SimulateSubmit, server, display, AtUnit
  <2>2. ASSUME Goes(r, "wallet") PROVE UnitOK(r)'
    BY <1>2, <1>4, <2>1, <2>2 DEF Places
  <2> QED BY <1>8, <2>1, <2>2
<1>15. CASE SignSubmit(r)
  <2>1. AtUnit(r) /\ UNCHANGED <<unitRows, hashes>> /\ (SubmissionFails(r) \/ Goes(r, "record"))
    BY <1>15 DEF SignSubmit, display, AtUnit
  <2>2. ASSUME Goes(r, "record") PROVE UnitOK(r)'
    BY <1>2, <1>4, <2>1, <2>2 DEF Places
  <2> QED BY <1>8, <2>1, <2>2
<1>16. CASE RecordConfirmation(r)
  <2>1. UNCHANGED <<unitRows, unitTx, hashes>> /\ AtUnit(r)  BY <1>16 DEF RecordConfirmation, server, display, AtUnit
  <2>2. CASE FinishRun(r, "error")
    BY <1>5, <2>1, <2>2
  <2>3. CASE ~FinishRun(r, "error")
    <3>1. /\ unitTx[UnitAt(r)] = "paid"
          /\ runs' = [runs EXCEPT ![r].at = "report", ![r].ok = TRUE]
      BY <1>16, <2>3 DEF RecordConfirmation
    <3>2. /\ runs'[r].at = "report" /\ runs'[r].nr = runs[r].nr /\ runs'[r].sheet = runs[r].sheet
          /\ runs'[r].group = runs[r].group /\ runs'[r].told = runs[r].told
      BY <1>0, <3>1 DEF RunRecords
    <3> QED BY <1>2, <2>1, <3>1, <3>2
  <2> QED BY <2>2, <2>3
<1>17. CASE ReportOutcome(r)
  <2>1. CASE Throws(r) /\ UNCHANGED hashes
    BY <1>6, <2>1
  <2>2. CASE ~(Throws(r) /\ UNCHANGED hashes)
    <3> DEFINE t == TaskOf(r)
               u == UnitAt(r)
               n == NextPending(t, unitRows')
               a == [id |-> t, status |-> [v \in UnitsOf(t) |-> unitRows'[v]]]
               to == [ToUnit(r, n) EXCEPT !.failed = @ \/ ~runs[r].ok,
                                          !.told = IF runs[r].ok THEN @ \cup {u} ELSE @]
    <3>1. /\ runs[r].at = "report"
          /\ unitRows' = [unitRows EXCEPT ![u] = IF @ = "PENDING"
                          THEN IF runs[r].ok THEN "SUCCESS" ELSE "FAILED" ELSE @]
          /\ Show(a)
          /\ runs' = [runs EXCEPT ![r] = to]
      BY <1>17, <2>2 DEF ReportOutcome
    <3>2. n = 0 \/ (n \in 1..UnitsPerGroup /\ unitRows'[Unit(t, n)] = "PENDING")
      BY NextPendingIsPending
    <3>3. runs[r].nr \in 1..UnitsPerGroup /\ unitRows[u] = "PENDING"
      BY <1>0, <3>1 DEF UnitOK, AtUnit
    <3>4. u \in UnitsOf(t) /\ u \in PageUnits
      BY <1>0, <3>3, UnitsAreUnits DEF UnitAt
    <3>5. runs[r].ok => u \in hashes'
      <4>1. runs[r].ok => unitRows'[u] = "SUCCESS"
        BY <3>1, <3>3, <3>4 DEF ScreenInv, RowsType
      <4> QED BY <3>1, <3>4, <4>1 DEF Show, MergeSuccessful
    <3>6. hashes \subseteq hashes'  BY <3>1, HashesGrow
    <3> HIDE DEF n, u
    <3>7. /\ to.at = IF n = 0 THEN "close" ELSE "submit"
          /\ to.nr = n /\ to.sheet = runs[r].sheet /\ to.group = runs[r].group
          /\ to.told = IF runs[r].ok THEN runs[r].told \cup {u} ELSE runs[r].told
      BY <1>0 DEF ToUnit, RunRecords
    <3> HIDE DEF to
    <3>8. runs'[r] = to  BY <1>0, <3>1
    <3>9. runs'[r].told \subseteq hashes'
      BY <1>0, <3>5, <3>6, <3>7, <3>8 DEF UnitOK
    <3>10. UnitAt(r)' = Unit(t, n)
      BY <3>7, <3>8 DEF UnitAt, Unit, TaskOf
    <3> QED BY <3>2, <3>7, <3>8, <3>9, <3>10, ScreenAssumption DEF UnitOK, AtUnit
  <2> QED BY <2>1, <2>2
<1>18. CASE CloseGroup(r)
  <2>1. hashes \subseteq hashes'  BY <1>7, <1>18 DEF CloseGroup
  <2>2. \/ \E says : FinishRun(r, says)
        \/ runs' = [runs EXCEPT ![r].at = "init", ![r].group = @ + 1, ![r].nr = 0]
    BY <1>18 DEF CloseGroup
  <2>3. ASSUME runs' = [runs EXCEPT ![r].at = "init", ![r].group = @ + 1, ![r].nr = 0]
        PROVE  UnitOK(r)'
    <3>1. runs'[r].at = "init" /\ runs'[r].told = runs[r].told
      BY <1>0, <2>3 DEF RunRecords
    <3> QED BY <1>1, <2>1, <3>1
  <2> QED BY <1>5, <2>1, <2>2, <2>3
<1> QED
  BY <1>9, <1>10, <1>11, <1>12, <1>13, <1>14, <1>15, <1>16, <1>17, <1>18 DEF PageRunStep

(* The other runs are over, or not started. *)
LEMMA UnitsStayOK ==
    ASSUME ScreenInv, RunsType', GuardInv', ScreenNext
    PROVE  UnitsInv'
<1> USE DEF Absent
<1>0. runs \in [Sends -> RunRecords] /\ RunsType /\ \A r \in Sends : UnitOK(r)
  BY DEF ScreenInv, RunsType, UnitsInv
<1>1. ASSUME NEW r \in Sends, ~Running(r)' PROVE UnitOK(r)'
  BY <1>1 DEF UnitOK, AtUnit, Running
<1>2. CASE GuardedSend
  <2>1. PICK k \in Sends, new \in RunRecords :
          /\ runs' = [runs EXCEPT ![k] = new]
          /\ new.at = "init" /\ new.told = {}
    BY <1>2, GuardedSendStarts
  <2>2. \A r \in Sends : ~Running(r)
    BY <1>2, GuardedSendStarts
  <2>3. ASSUME NEW r \in Sends, r # k PROVE ~Running(r)'
    BY <1>0, <2>1, <2>2, <2>3 DEF Running
  <2>4. UnitOK(k)'
    <3>1. runs'[k] = new  BY <1>0, <2>1, <2>2
    <3> QED BY <2>1, <3>1 DEF UnitOK, AtUnit
  <2> QED BY <1>1, <2>3, <2>4 DEF UnitsInv
<1>3. ASSUME NEW r \in Sends, PageRunStep(r) PROVE UnitsInv'
  <2>1. UnitOK(r)'  BY <1>3, RunStepKeepsUnit
  <2>2. PICK to \in RunRecords : runs' = [runs EXCEPT ![r] = to]
    BY <1>3, RunStepMoves DEF OnlyMoves
  <2>3. Running(r)  BY <1>3, RunStepMoves
  <2>4. ASSUME NEW s \in Sends, s # r PROVE ~Running(s)'
    <3>1. runs'[s] = runs[s]  BY <1>0, <2>2, <2>4
    <3>2. ~Running(s)  BY <2>3, <2>4 DEF ScreenInv, GuardInv, OneRunPerPage
    <3> QED BY <3>1, <3>2 DEF Running
  <2> QED BY <1>1, <2>1, <2>4 DEF UnitsInv
<1>4. CASE PageStep
  <2>1. /\ \/ UNCHANGED runs
           \/ runs' = [r \in Sends |-> [runs[r] EXCEPT !.told = {}]]
        /\ \A r \in Sends : runs'[r].at = runs[r].at
    BY <1>0, <1>4, PageStepKeepsRuns
  <2>2. UNCHANGED unitRows /\ \A u \in PageUnits : unitTx[u] = "paid" => unitTx'[u] = "paid"
    BY <1>4 DEF PageStep, DismissSuccessModal, ResetComposer, ClearPage, MineUnit, Poll, PollAnswers,
                server, ScreenInv, RowsType
  <2>3. \/ hashes \subseteq hashes'
        \/ runs' = [r \in Sends |-> [runs[r] EXCEPT !.told = {}]]
    BY <1>4, HashesGrow
    DEF PageStep, DismissSuccessModal, ResetComposer, ClearPage, MineUnit, Poll, PollAnswers, display
  <2>4. ASSUME NEW r \in Sends PROVE UnitOK(r)'
    <3>1. /\ runs'[r].at = runs[r].at /\ runs'[r].nr = runs[r].nr /\ runs'[r].ok = runs[r].ok
          /\ runs'[r].sheet = runs[r].sheet /\ runs'[r].group = runs[r].group
      BY <1>0, <2>1 DEF RunRecords
    <3>2. runs'[r].told = runs[r].told \/ runs'[r].told = {}
      BY <1>0, <2>1 DEF RunRecords
    <3>3. hashes \subseteq hashes' \/ runs'[r].told = {}
      BY <1>0, <2>3 DEF RunRecords
    <3>4. UnitAt(r)' = UnitAt(r)  BY <3>1 DEF UnitAt, Unit, TaskOf
    <3>5. AtUnit(r) => UnitAt(r) \in PageUnits
      BY <1>0 DEF UnitOK, AtUnit, UnitAt, Unit, TaskOf, PageUnits, RunRecords
    <3>6. UnitOK(r)  BY <1>0
    <3>7. AtUnit(r)' => runs'[r].nr \in 1..UnitsPerGroup /\ unitRows'[UnitAt(r)'] = "PENDING"
      BY <2>2, <3>1, <3>4, <3>6 DEF UnitOK, AtUnit
    <3>8. runs'[r].at = "approve" /\ runs'[r].nr # 0 => unitRows'[UnitAt(r)'] = "PENDING"
      BY <2>2, <3>1, <3>4, <3>6 DEF UnitOK
    <3>9. runs'[r].at = "report" /\ runs'[r].ok => unitTx'[UnitAt(r)'] = "paid"
      BY <2>2, <3>1, <3>4, <3>5, <3>6 DEF UnitOK, AtUnit
    <3>10. Running(r)' => runs'[r].told \subseteq hashes'
      BY <3>1, <3>2, <3>3, <3>6 DEF UnitOK, Running
    <3> QED BY <3>7, <3>8, <3>9, <3>10 DEF UnitOK
  <2> QED BY <2>4 DEF UnitsInv
<1> QED BY <1>2, <1>3, <1>4 DEF ScreenNext, PageStep

-----------------------------------------------------------------------------
LEMMA ScreenInit_Inv ==
    ScreenInit => ScreenInv
<1> SUFFICES ASSUME ScreenInit PROVE ScreenInv
  OBVIOUS
<1>1. NotStarted \in RunRecords
  BY ScreenAssumption DEF NotStarted, RunRecords, Sheets, Groups, Absent
<1>2. RowsType  BY DEF ScreenInit, RowsType, Absent
<1>3. RunsType
  <2>1. 0 \in 0..MaxSends /\ 1 \in Sheets  BY ScreenAssumption DEF Sheets
  <2> QED BY <1>1, <2>1 DEF ScreenInit, RunsType
<1>4. \A r \in Sends : runs[r].at = Absent  BY DEF ScreenInit, NotStarted
<1>5. GuardInv  BY <1>4 DEF GuardInv, OneRunPerPage, Running
<1>6. AnswersInv  BY DEF ScreenInit, AnswersInv
<1>7. UnitsInv  BY <1>4 DEF UnitsInv, UnitOK, AtUnit, Running, Absent
<1> QED BY <1>2, <1>3, <1>5, <1>6, <1>7 DEF ScreenInv

LEMMA ScreenInv_Step ==
    ScreenInv /\ [ScreenNext]_screenVars => ScreenInv'
<1> SUFFICES ASSUME ScreenInv, [ScreenNext]_screenVars PROVE ScreenInv'
  OBVIOUS
<1>1. CASE ScreenNext
  <2>1. RowsType' /\ Grows  BY <1>1, RowsGrow
  <2>2. RunsType' /\ GuardInv'  BY <1>1, RunsStayOne
  <2>3. AnswersInv'
    BY <1>1, <2>1, StepsShow, AnswersAfter DEF ScreenInv
  <2>4. UnitsInv'  BY <1>1, <2>2, UnitsStayOK
  <2> QED BY <2>1, <2>2, <2>3, <2>4 DEF ScreenInv
<1>2. CASE UNCHANGED screenVars
  <2>1. RowsType' /\ RunsType' /\ GuardInv'
    BY <1>2 DEF screenVars, server, runState, ScreenInv, RowsType, RunsType, GuardInv,
                OneRunPerPage, Running
  <2>2. AnswersInv'
    BY <1>2 DEF screenVars, server, display, ScreenInv, AnswersInv, Confirmed
  <2>3. UnitsInv'
    BY <1>2 DEF screenVars, server, runState, display, ScreenInv, UnitsInv, UnitOK, AtUnit,
                UnitAt, TaskOf, Running
  <2> QED BY <2>1, <2>2, <2>3 DEF ScreenInv
<1> QED BY <1>1, <1>2

(* The invariant gives the properties. *)
LEMMA ScreenInv_Truthful ==
    ScreenInv => ScreenIsTruthful
<1> SUFFICES ASSUME ScreenInv PROVE ScreenIsTruthful
  OBVIOUS
<1>1. OneRunPerPage  BY DEF ScreenInv, GuardInv
<1>2. HashesAreConfirmed
  BY DEF ScreenInv, AnswersInv, RowsType, UnitsInv, UnitOK, HashesAreConfirmed
<1>3. SuccessIsTrue
  <2> SUFFICES ASSUME ModalOpen, NEW u \in UnitsOf(shownTask.id)
               PROVE  unitRows[u] = "SUCCESS" /\ unitTx[u] = "paid"
    BY DEF SuccessIsTrue
  <2>1. shownTask \in Answers /\ Confirmed(shownTask)  BY DEF ScreenInv, AnswersInv, ModalOpen
  <2>2. u \in PageUnits  BY <2>1, AnswersAreTyped, UnitsAreUnits
  <2>3. unitRows[u] = "SUCCESS"  BY <2>1 DEF ModalOpen, Executed, Confirmed
  <2> QED BY <2>2, <2>3 DEF ScreenInv, RowsType
<1> QED BY <1>1, <1>2, <1>3 DEF ScreenIsTruthful

(* The payroll page runs one execute() at a time although dismissing the    *)
(* success modal releases the execution lock under a run, lists only hashes *)
(* of confirmed batches and every one this run was told of, and opens the   *)
(* modal for a task only when each of its batches is paid.                  *)
THEOREM PayrollPageIsTruthful == ScreenSpec => []ScreenIsTruthful
<1>1. ScreenSpec => []ScreenInv
  BY ScreenInit_Inv, ScreenInv_Step, PTL DEF ScreenSpec
<1> QED BY <1>1, ScreenInv_Truthful, PTL

-----------------------------------------------------------------------------
(* The public checkout.  The row of an invoice's intent is created once and *)
(* leaves CREATED once, with the one grant; whoever holds the grant opens   *)
(* the wallet.                                                              *)

CheckoutRecords ==
    [known : {"OPEN", "VERIFYING", "PAID", "CLOSED"}, locked : BOOLEAN, signed : BOOLEAN,
     at : {"none", "acquire", "prepare", "prepared", "wallet", "bind"},
     recovery : [present : BOOLEAN, hash : Nat], tx : Nat, sent : Nat, attempts : Nat,
     timer : BOOLEAN, verifying : BOOLEAN,
     stage : {"ready", "awaiting_signature", "verifying_payment", "recoverable_error",
              "terminal_error", "settled"},
     cancelling : BOOLEAN]

CheckoutPayers == {payer[c] : c \in Checkouts}

CheckoutTypeOK ==
    /\ invoice \in [status : {"OPEN", "VERIFYING", "PAID", "CLOSED"}, hash : Nat]
    /\ intent \in [status : {"ABSENT", "CREATED", "AWAITING_WALLET_SIGNATURE", "SUBMITTED",
                             "CANCELLED"},
                   payer : {"none"} \cup CheckoutPayers, hash : Nat]
    /\ tab \in [Checkouts -> CheckoutRecords]
    /\ saved \in [Checkouts -> [present : BOOLEAN, hash : Nat]]
    /\ transfers \in Seq([payer : CheckoutPayers,
                          outcome : {"pending", "success", "reverted"}])
    /\ prompts \in {0, 1}

(* A grant not used yet is the only one, and no wallet was opened before it. *)
GrantInv ==
    /\ intent.status \in {"ABSENT", "CREATED"} =>
         prompts = 0 /\ \A c \in Checkouts : tab[c].at # "prepared"
    /\ \A c \in Checkouts : tab[c].at = "prepared" =>
         prompts = 0 /\ \A d \in Checkouts : tab[d].at = "prepared" => d = c

(* An opened wallet broadcasts once. *)
WalletInv ==
    /\ prompts = 0 => Len(transfers) = 0 /\ \A c \in Checkouts : tab[c].at # "wallet"
    /\ Len(transfers) <= 1
    /\ \A c \in Checkouts : tab[c].at = "wallet" =>
         Len(transfers) = 0 /\ \A d \in Checkouts : tab[d].at = "wallet" => d = c

CheckoutInv == CheckoutTypeOK /\ GrantInv /\ WalletInv

(* Only tab c moves, to the place at. *)
TabMoves(c, at) ==
    /\ tab' \in [Checkouts -> CheckoutRecords]
    /\ tab'[c].at = at
    /\ \A d \in Checkouts : d # c => tab'[d] = tab[d]

LEMMA TabsStayTyped ==
    ASSUME CheckoutTypeOK, NEW c \in Checkouts, NEW t \in CheckoutRecords,
           tab' = [tab EXCEPT ![c] = t]
    PROVE  TabMoves(c, t.at)
BY DEF CheckoutTypeOK, CheckoutPayers, TabMoves

LEMMA IntentStaysTyped ==
    ASSUME CheckoutTypeOK, UNCHANGED payer, NEW h \in Nat,
           NEW s \in {"AWAITING_WALLET_SIGNATURE", "SUBMITTED", "CANCELLED"},
           intent' = [intent EXCEPT !.hash = h, !.status = s] \/
           intent' = [intent EXCEPT !.status = s]
    PROVE  /\ CheckoutPayers' = CheckoutPayers
           /\ intent' \in [status : {"ABSENT", "CREATED", "AWAITING_WALLET_SIGNATURE",
                                     "SUBMITTED", "CANCELLED"},
                           payer : {"none"} \cup CheckoutPayers, hash : Nat]
           /\ intent'.status = s
<1>1. CheckoutPayers' = CheckoutPayers  BY DEF CheckoutPayers
<1> QED BY <1>1 DEF CheckoutTypeOK

LEMMA SavedStaysTyped ==
    ASSUME CheckoutTypeOK, NEW c \in Checkouts, NEW r \in [present : BOOLEAN, hash : Nat],
           Save(c, r)
    PROVE  saved' \in [Checkouts -> [present : BOOLEAN, hash : Nat]]
BY DEF CheckoutTypeOK, Save

(* A step that opens no wallet, grants nothing and broadcasts nothing.      *)
LEMMA QuietStep ==
    ASSUME CheckoutInv, NEW c \in Checkouts, NEW at, TabMoves(c, at),
           at \notin {"prepared", "wallet"} \/ at = tab[c].at,
           UNCHANGED prompts, Len(transfers') = Len(transfers),
           intent'.status \in {"ABSENT", "CREATED"} => intent.status \in {"ABSENT", "CREATED"}
    PROVE  (GrantInv /\ WalletInv)'
BY DEF CheckoutInv, GrantInv, WalletInv, TabMoves

LEMMA StillTab ==
    ASSUME CheckoutTypeOK, NEW c \in Checkouts, UNCHANGED tab
    PROVE  TabMoves(c, tab[c].at)
BY DEF CheckoutTypeOK, CheckoutPayers, TabMoves

CheckoutTabStep(c) ==
           \/ LoadCheckout(c) \/ PressPay(c) \/ AcquirePay(c) \/ PreparePay(c) \/ OpenWallet(c)
           \/ PayBroadcast(c) \/ PayRejected(c) \/ BindPay(c)
           \/ AnswerVerify(c) \/ AutomaticCheck(c) \/ ManualCheck(c)
           \/ AskCancelPay(c) \/ PayCancelled(c)
           \/ \E h \in DOMAIN transfers : RecoverHash(c, h)

LEMMA CheckoutInv_Tab ==
    ASSUME CheckoutInv, NEW c \in Checkouts, CheckoutTabStep(c)
    PROVE  CheckoutInv'
<1> USE DEF CheckoutInv
<1>0. /\ CheckoutTypeOK /\ GrantInv /\ WalletInv /\ tab[c] \in CheckoutRecords /\ saved[c] \in [present : BOOLEAN, hash : Nat]
      /\ NoRecord \in [present : BOOLEAN, hash : Nat]
      /\ \A h \in Nat : Record(h) \in [present : BOOLEAN, hash : Nat]
  BY DEF CheckoutTypeOK, NoRecord, Record
<1>1. CASE LoadCheckout(c)
  <2>1. LoadedTab(c) \in CheckoutRecords /\ LoadedTab(c).at = "none"
    <3>1. NewTab \in CheckoutRecords /\ NewTab.at = "none"
      BY DEF NewTab, CheckoutRecords, NoRecord
    <3>3. /\ invoice.status \in {"OPEN", "VERIFYING", "PAID", "CLOSED"} /\ invoice.hash \in Nat
          /\ saved[c].hash \in Nat /\ saved[c].present \in BOOLEAN
      BY <1>0 DEF CheckoutTypeOK
    <3>4. CASE invoice.status \in {"PAID", "CLOSED"}
      <4>0. PICK x \in Nat : x = IF invoice.status = "PAID" THEN invoice.hash ELSE 0
        BY <3>3
      <4>1. LoadedTab(c) = [NewTab EXCEPT !.known = invoice.status, !.locked = TRUE,
                              !.signed = FALSE, !.recovery = NoRecord, !.tx = x,
                              !.verifying = FALSE, !.stage = "settled"]
        BY <3>4, <4>0 DEF LoadedTab
      <4> QED BY <1>0, <3>1, <3>3, <4>1 DEF CheckoutRecords
    <3>5. CASE invoice.status \in {"OPEN", "VERIFYING"} /\ saved[c].present
      <4>1. LoadedTab(c) = [NewTab EXCEPT !.known = invoice.status, !.locked = TRUE,
                              !.signed = TRUE, !.recovery = saved[c], !.tx = saved[c].hash,
                              !.verifying = saved[c].hash # 0, !.stage = "recoverable_error"]
        BY <3>5 DEF LoadedTab
      <4> QED BY <1>0, <3>1, <3>3, <4>1 DEF CheckoutRecords
    <3>6. CASE invoice.status = "OPEN" /\ ~saved[c].present
      <4>1. LoadedTab(c) = [NewTab EXCEPT !.known = invoice.status, !.locked = FALSE,
                              !.signed = FALSE, !.recovery = NoRecord, !.tx = 0,
                              !.verifying = FALSE, !.stage = "ready"]
        BY <3>6 DEF LoadedTab
      <4> QED BY <1>0, <3>1, <3>3, <4>1 DEF NewTab, CheckoutRecords
    <3>7. CASE invoice.status = "VERIFYING" /\ ~saved[c].present
      <4>1. LoadedTab(c) = [NewTab EXCEPT !.known = invoice.status, !.locked = TRUE,
                              !.signed = FALSE, !.recovery = NoRecord, !.tx = 0,
                              !.verifying = FALSE, !.stage = "recoverable_error"]
        BY <3>7 DEF LoadedTab
      <4> QED BY <1>0, <3>1, <3>3, <4>1 DEF NewTab, CheckoutRecords
    <3> QED BY <3>3, <3>4, <3>5, <3>6, <3>7
  <2>2. TabMoves(c, "none")  BY <1>1, <2>1, TabsStayTyped DEF LoadCheckout
  <2>3. saved' \in [Checkouts -> [present : BOOLEAN, hash : Nat]]
    BY <1>0, <1>1, SavedStaysTyped DEF LoadCheckout, CheckoutTypeOK
  <2>4. (GrantInv /\ WalletInv)'  BY <1>1, <2>2, QuietStep DEF LoadCheckout
  <2> QED BY <1>1, <2>2, <2>3, <2>4 DEF LoadCheckout, CheckoutTypeOK, CheckoutPayers, TabMoves
<1>2. CASE PressPay(c)
  <2>1. TabMoves(c, "acquire")
    BY <1>0, <1>2 DEF PressPay, TabMoves, CheckoutTypeOK, CheckoutRecords
  <2>2. (GrantInv /\ WalletInv)'  BY <1>2, <2>1, QuietStep DEF PressPay
  <2> QED BY <1>2, <2>1, <2>2 DEF PressPay, CheckoutTypeOK, CheckoutPayers, TabMoves
<1>3. ASSUME tab' = [tab EXCEPT ![c] = PayFailed(c)]
      PROVE  TabMoves(c, "none")
  <2>1. PayFailed(c) \in CheckoutRecords /\ PayFailed(c).at = "none"
    BY <1>0 DEF PayFailed, CheckoutRecords
  <2> QED BY <1>0, <1>3, <2>1, TabsStayTyped
<1>4. CASE AcquirePay(c)
  <2>1. TabMoves(c, "prepare") \/ TabMoves(c, "none")
    <3>1. ASSUME tab' = [tab EXCEPT ![c].at = "prepare"] PROVE TabMoves(c, "prepare")
      BY <1>0, <3>1 DEF TabMoves, CheckoutTypeOK, CheckoutRecords
    <3> QED BY <1>3, <1>4, <3>1 DEF AcquirePay
  <2>2. /\ intent'.status \in {"ABSENT", "CREATED"} => intent.status \in {"ABSENT", "CREATED"}
        /\ intent' = intent \/ intent' = [status |-> "CREATED", payer |-> payer[c], hash |-> 0]
    BY <1>4 DEF AcquirePay
  <2>3. (GrantInv /\ WalletInv)'  BY <1>4, <2>1, <2>2, QuietStep DEF AcquirePay
  <2> QED BY <1>4, <2>1, <2>2, <2>3 DEF AcquirePay, CheckoutTypeOK, CheckoutPayers, TabMoves
<1>5. CASE PreparePay(c)
  <2>1. CASE CheckoutPrepare(intent.status)
    <3>1. /\ intent' = [intent EXCEPT !.status = "AWAITING_WALLET_SIGNATURE"]
          /\ tab' = [tab EXCEPT ![c].at = "prepared"]
          /\ UNCHANGED <<payer, sharing, invoice, saved, transfers, prompts>>
      BY <1>5, <2>1 DEF PreparePay
    <3>2. TabMoves(c, "prepared")
      BY <1>0, <3>1 DEF TabMoves, CheckoutTypeOK, CheckoutRecords
    <3>3. /\ intent.status = "CREATED"
          /\ intent'.status = "AWAITING_WALLET_SIGNATURE"
      BY <2>1, <3>1 DEF CheckoutPrepare, CheckoutTypeOK
    <3>4. (GrantInv /\ WalletInv)'
      BY <3>1, <3>2, <3>3 DEF GrantInv, WalletInv, TabMoves
    <3> QED BY <1>0, <3>1, <3>2, <3>4, IntentStaysTyped DEF CheckoutTypeOK, TabMoves
  <2>2. CASE ~CheckoutPrepare(intent.status)
    <3>1. TabMoves(c, "none") /\ UNCHANGED intent  BY <1>3, <1>5, <2>2 DEF PreparePay
    <3>2. (GrantInv /\ WalletInv)'  BY <1>5, <3>1, QuietStep DEF PreparePay
    <3> QED BY <1>5, <3>1, <3>2 DEF PreparePay, CheckoutTypeOK, CheckoutPayers, TabMoves
  <2> QED BY <2>1, <2>2
<1>6. CASE OpenWallet(c)
  <2>1. TabMoves(c, "wallet")
    BY <1>0, <1>6 DEF OpenWallet, TabMoves, CheckoutTypeOK, CheckoutRecords, Record
  <2>2. saved' \in [Checkouts -> [present : BOOLEAN, hash : Nat]]
    BY <1>0, <1>6, SavedStaysTyped DEF OpenWallet
  <2>3. prompts = 0 /\ prompts' = 1 /\ UNCHANGED <<payer, invoice, intent, transfers>>
    BY <1>6 DEF OpenWallet, GrantInv
  <2>4. (GrantInv /\ WalletInv)'
    BY <1>6, <2>1, <2>3 DEF OpenWallet, GrantInv, WalletInv, TabMoves
  <2> QED BY <2>1, <2>2, <2>3, <2>4 DEF CheckoutTypeOK, CheckoutPayers, TabMoves
<1>7. CASE PayBroadcast(c)
  <2>1. transfers \in Seq([payer : CheckoutPayers,
                           outcome : {"pending", "success", "reverted"}])
    BY DEF CheckoutTypeOK
  <2>2. /\ Len(transfers) = 0 /\ prompts = 1
        /\ transfers' = Append(transfers, [payer |-> payer[c], outcome |-> "pending"])
        /\ Len(transfers') = 1
        /\ UNCHANGED <<payer, invoice, intent, saved, prompts>>
    BY <1>7, <2>1 DEF PayBroadcast, WalletInv, CheckoutTypeOK
  <2>3. TabMoves(c, "bind")
    <3>1. tab' = [tab EXCEPT ![c].at = "bind", ![c].sent = 1]
      BY <1>7, <2>2 DEF PayBroadcast
    <3> QED BY <1>0, <3>1 DEF TabMoves, CheckoutTypeOK, CheckoutRecords
  <2>4. (GrantInv /\ WalletInv)'
    BY <1>7, <2>2, <2>3 DEF PayBroadcast, GrantInv, WalletInv, TabMoves
  <2> QED BY <2>1, <2>2, <2>3, <2>4 DEF CheckoutTypeOK, CheckoutPayers, TabMoves
<1>8. CASE PayRejected(c)
  <2>1. TabMoves(c, "none")  BY <1>3, <1>8 DEF PayRejected
  <2>2. (GrantInv /\ WalletInv)'  BY <1>8, <2>1, QuietStep DEF PayRejected
  <2> QED BY <1>8, <2>1, <2>2 DEF PayRejected, CheckoutTypeOK, CheckoutPayers, TabMoves
<1>9. CASE BindPay(c)
  <2> DEFINE h == tab[c].sent
  <2>1. h \in Nat /\ Record(h) \in [present : BOOLEAN, hash : Nat]
    BY <1>0 DEF CheckoutRecords
  <2>2. /\ tab' = [tab EXCEPT ![c].at = "none", ![c].tx = h, ![c].recovery = Record(h),
                           ![c].locked = TRUE, ![c].attempts = 0, ![c].verifying = TRUE,
                           ![c].stage = "verifying_payment"]
        /\ intent' = [intent EXCEPT !.hash = h, !.status = "SUBMITTED"]
        /\ Save(c, Record(h))
        /\ UNCHANGED <<payer, invoice, transfers, prompts>>
    BY <1>9 DEF BindPay
  <2> HIDE DEF h
  <2>3. TabMoves(c, "none")
    BY <1>0, <2>1, <2>2 DEF TabMoves, CheckoutTypeOK, CheckoutRecords
  <2>4. saved' \in [Checkouts -> [present : BOOLEAN, hash : Nat]]
    BY <1>0, <2>1, <2>2, SavedStaysTyped
  <2>5. intent'.status = "SUBMITTED" /\ intent'.hash \in Nat /\ intent'.payer = intent.payer
        /\ intent' \in [status : {"SUBMITTED"}, payer : {"none"} \cup CheckoutPayers,
                        hash : Nat]
    BY <2>1, <2>2 DEF CheckoutTypeOK
  <2>6. (GrantInv /\ WalletInv)'  BY <2>2, <2>3, <2>5, QuietStep
  <2> QED BY <2>2, <2>3, <2>4, <2>5, <2>6 DEF CheckoutTypeOK, CheckoutPayers, TabMoves
<1>10. CASE AnswerVerify(c)
  <2>1. Retried(tab[c]) \in CheckoutRecords /\ Retried(tab[c]).at = tab[c].at
    <3> DEFINE timer == tab[c].attempts < MaxChecks \/ tab[c].timer
               attempts == IF tab[c].attempts < MaxChecks THEN tab[c].attempts + 1
                           ELSE tab[c].attempts
    <3>1. timer \in BOOLEAN /\ attempts \in Nat  BY <1>0 DEF CheckoutRecords
    <3>2. Retried(tab[c]) = [tab[c] EXCEPT !.verifying = FALSE, !.stage = "recoverable_error",
                                           !.timer = timer, !.attempts = attempts]
      BY <1>0 DEF Retried, CheckoutRecords
    <3> HIDE DEF timer, attempts
    <3> QED BY <1>0, <3>1, <3>2 DEF CheckoutRecords
  <2>2. CheckoutEnded(tab[c]) \in CheckoutRecords /\ CheckoutEnded(tab[c]).at = tab[c].at
    BY <1>0 DEF CheckoutEnded, CheckoutRecords
  <2>3. ASSUME tab' = [tab EXCEPT ![c].verifying = FALSE, ![c].known = "PAID",
                                 ![c].timer = FALSE, ![c].recovery = NoRecord,
                                 ![c].stage = "settled"]
        PROVE  TabMoves(c, tab[c].at)
    BY <1>0, <2>3 DEF TabMoves, CheckoutTypeOK, CheckoutRecords
  <2>4. /\ \/ tab' = [tab EXCEPT ![c].verifying = FALSE, ![c].known = "PAID",
                                 ![c].timer = FALSE, ![c].recovery = NoRecord,
                                 ![c].stage = "settled"]
           \/ tab' = [tab EXCEPT ![c] = Retried(tab[c])]
           \/ tab' = [tab EXCEPT ![c] = CheckoutEnded(tab[c])]
        /\ UNCHANGED <<payer, intent, transfers, prompts>>
        /\ saved' = saved \/ Save(c, NoRecord)
    BY <1>10 DEF AnswerVerify
  <2>5. TabMoves(c, tab[c].at)
    BY <1>0, <2>1, <2>2, <2>3, <2>4, TabsStayTyped
  <2>6. saved' \in [Checkouts -> [present : BOOLEAN, hash : Nat]]
    BY <1>0, <2>4, SavedStaysTyped DEF CheckoutTypeOK
  <2>7. invoice' \in [status : {"OPEN", "VERIFYING", "PAID", "CLOSED"}, hash : Nat]
    <3>1. tab[c].tx \in Nat  BY <1>0 DEF CheckoutRecords
    <3>2. \/ invoice' = invoice
          \/ invoice' = [status |-> "PAID", hash |-> tab[c].tx]
          \/ invoice' = [invoice EXCEPT !.status = "VERIFYING", !.hash = tab[c].tx]
      BY <1>10 DEF AnswerVerify
    <3>3. invoice \in [status : {"OPEN", "VERIFYING", "PAID", "CLOSED"}, hash : Nat]
      BY <1>0 DEF CheckoutTypeOK
    <3>4. [invoice EXCEPT !.status = "VERIFYING", !.hash = tab[c].tx]
            \in [status : {"OPEN", "VERIFYING", "PAID", "CLOSED"}, hash : Nat]
      BY <3>1, <3>3
    <3>5. CASE invoice' = [status |-> "PAID", hash |-> tab[c].tx]
      BY <3>1, <3>5
    <3> QED BY <3>2, <3>3, <3>4, <3>5
  <2>8. (GrantInv /\ WalletInv)'
    BY <2>4, <2>5, QuietStep
  <2> QED BY <2>4, <2>5, <2>6, <2>7, <2>8 DEF CheckoutTypeOK, CheckoutPayers, TabMoves
<1>11. CASE AutomaticCheck(c) \/ ManualCheck(c)
  <2>1. TabMoves(c, tab[c].at)
    <3>1. CASE AutomaticCheck(c)
      <4> DEFINE verifying == tab[c].verifying \/ tab[c].at = "none"
                 t == [tab[c] EXCEPT !.timer = FALSE, !.verifying = verifying]
      <4>1. t \in CheckoutRecords /\ t.at = tab[c].at  BY <1>0 DEF CheckoutRecords
      <4>2. tab' = [tab EXCEPT ![c] = t]  BY <1>0, <3>1 DEF AutomaticCheck, CheckoutTypeOK
      <4> QED BY <1>0, <4>1, <4>2, TabsStayTyped
    <3>2. CASE ManualCheck(c)
      BY <1>0, <3>2 DEF ManualCheck, TabMoves, CheckoutTypeOK, CheckoutRecords
    <3> QED BY <1>11, <3>1, <3>2
  <2>2. UNCHANGED <<payer, invoice, intent, saved, transfers, prompts>>
    BY <1>11 DEF AutomaticCheck, ManualCheck
  <2>3. (GrantInv /\ WalletInv)'
    BY <2>1, <2>2, QuietStep
  <2> QED BY <2>1, <2>2, <2>3 DEF CheckoutTypeOK, CheckoutPayers, TabMoves
<1>12. CASE AskCancelPay(c)
  <2>1. TabMoves(c, tab[c].at)
    BY <1>0, <1>12 DEF AskCancelPay, TabMoves, CheckoutTypeOK, CheckoutRecords
  <2>2. /\ UNCHANGED <<payer, invoice, saved, transfers, prompts>>
        /\ intent' = [intent EXCEPT !.status = "CANCELLED"]
    BY <1>12 DEF AskCancelPay
  <2>3. /\ intent'.status = "CANCELLED" /\ CheckoutPayers' = CheckoutPayers
        /\ intent' \in [status : {"ABSENT", "CREATED", "AWAITING_WALLET_SIGNATURE",
                                  "SUBMITTED", "CANCELLED"},
                        payer : {"none"} \cup CheckoutPayers, hash : Nat]
    BY <1>0, <2>2, IntentStaysTyped
  <2>4. (GrantInv /\ WalletInv)'
    BY <2>1, <2>2, <2>3, QuietStep
  <2> QED BY <2>1, <2>2, <2>4, <2>3 DEF CheckoutTypeOK, TabMoves
<1>13. CASE PayCancelled(c)
  <2>1. TabMoves(c, tab[c].at)
    BY <1>0, <1>13 DEF PayCancelled, TabMoves, CheckoutTypeOK, CheckoutRecords
  <2>2. saved' \in [Checkouts -> [present : BOOLEAN, hash : Nat]]
    BY <1>0, <1>13, SavedStaysTyped DEF PayCancelled
  <2>3. (GrantInv /\ WalletInv)'
    BY <1>13, <2>1, QuietStep DEF PayCancelled
  <2> QED BY <1>13, <2>1, <2>2, <2>3 DEF PayCancelled, CheckoutTypeOK, CheckoutPayers, TabMoves
<1>14. ASSUME NEW h \in DOMAIN transfers, RecoverHash(c, h) PROVE CheckoutInv'
  <2>1. h \in Nat /\ Record(h) \in [present : BOOLEAN, hash : Nat]
    <3>1. DOMAIN transfers = 1..Len(transfers) /\ Len(transfers) \in Nat
      BY <1>0 DEF CheckoutTypeOK
    <3> QED BY <1>0, <3>1
  <2>2. TabMoves(c, tab[c].at)
    BY <1>0, <1>14, <2>1 DEF RecoverHash, TabMoves, CheckoutTypeOK, CheckoutRecords
  <2>3. saved' \in [Checkouts -> [present : BOOLEAN, hash : Nat]]
    BY <1>0, <1>14, <2>1, SavedStaysTyped DEF RecoverHash
  <2>4. /\ intent'.status = "SUBMITTED" /\ CheckoutPayers' = CheckoutPayers
        /\ intent' \in [status : {"ABSENT", "CREATED", "AWAITING_WALLET_SIGNATURE",
                                  "SUBMITTED", "CANCELLED"},
                        payer : {"none"} \cup CheckoutPayers, hash : Nat]
    BY <1>0, <1>14, <2>1, IntentStaysTyped DEF RecoverHash
  <2>5. (GrantInv /\ WalletInv)'
    BY <1>14, <2>2, <2>4, QuietStep DEF RecoverHash
  <2> QED BY <1>14, <2>1, <2>2, <2>3, <2>4, <2>5 DEF RecoverHash, CheckoutTypeOK, TabMoves
<1> QED BY <1>1, <1>2, <1>4, <1>5, <1>6, <1>7, <1>8, <1>9, <1>10, <1>11, <1>12, <1>13, <1>14 DEF CheckoutTabStep

LEMMA CheckoutInv_Step ==
    CheckoutInv /\ [CheckoutNext]_checkoutVars => CheckoutInv'
<1> SUFFICES ASSUME CheckoutInv, [CheckoutNext]_checkoutVars PROVE CheckoutInv'
  OBVIOUS
<1>1. CASE CloseInvoice
  BY <1>1 DEF CloseInvoice, CheckoutInv, CheckoutTypeOK, CheckoutPayers, GrantInv, WalletInv
<1>2. ASSUME NEW h \in DOMAIN transfers, NEW outcome \in {"success", "reverted"}, MinePay(h, outcome)
      PROVE  CheckoutInv'
  <2>1. transfers' = [transfers EXCEPT ![h].outcome = outcome]
    BY <1>2 DEF MinePay
  <2>2. /\ transfers' \in Seq([payer : CheckoutPayers,
                               outcome : {"pending", "success", "reverted"}])
        /\ Len(transfers') = Len(transfers)
    <3> DEFINE T == [payer : CheckoutPayers, outcome : {"pending", "success", "reverted"}]
    <3>1. transfers \in Seq(T)  BY DEF CheckoutInv, CheckoutTypeOK
    <3> HIDE DEF T
    <3>2. h \in 1..Len(transfers) /\ transfers[h] \in T  BY <3>1
    <3>3. [transfers[h] EXCEPT !.outcome = outcome] \in T  BY <3>2 DEF T
    <3>4. [transfers EXCEPT ![h] = [transfers[h] EXCEPT !.outcome = outcome]] \in Seq(T)
      BY <3>1, <3>2, <3>3
    <3>5. transfers' \in Seq(T) /\ Len(transfers') = Len(transfers)
      BY <2>1, <3>1, <3>2, <3>4
    <3> QED BY <3>5 DEF T
  <2> QED BY <1>2, <2>2 DEF MinePay, CheckoutInv, CheckoutTypeOK, CheckoutPayers, GrantInv, WalletInv
<1>3. CASE UNCHANGED checkoutVars
  BY <1>3 DEF checkoutVars, CheckoutInv, CheckoutTypeOK, CheckoutPayers, GrantInv, WalletInv
<1> QED BY <1>1, <1>2, <1>3, CheckoutInv_Tab DEF CheckoutNext, CheckoutTabStep

LEMMA CheckoutInit_Inv ==
    CheckoutInit => CheckoutInv
<1> SUFFICES ASSUME CheckoutInit PROVE CheckoutInv
  OBVIOUS
<1>1. NewTab \in CheckoutRecords /\ NewTab.at = "none"
  BY DEF NewTab, CheckoutRecords, NoRecord
<1>2. \A c \in Checkouts : tab[c].at = "none"  BY <1>1 DEF CheckoutInit
<1>3. CheckoutTypeOK
  BY <1>1 DEF CheckoutInit, CheckoutTypeOK, NoRecord
<1> QED BY <1>2, <1>3 DEF CheckoutInit, CheckoutInv, GrantInv, WalletInv

(* Whatever the payers do with their tabs and reloads, an invoice is paid   *)
(* at most once from its checkout: at most one wallet is opened for it and  *)
(* every transaction comes from an opened wallet.                           *)
THEOREM InvoiceIsAskedOnce ==
    CheckoutSpec => [](OneCheckoutPrompt /\ Len(transfers) <= prompts)
<1>1. CheckoutInv => OneCheckoutPrompt /\ Len(transfers) <= prompts
  BY DEF CheckoutInv, CheckoutTypeOK, WalletInv, OneCheckoutPrompt
<1>2. CheckoutSpec => []CheckoutInv
  BY CheckoutInit_Inv, CheckoutInv_Step, PTL DEF CheckoutSpec
<1> QED BY <1>1, <1>2, PTL

-----------------------------------------------------------------------------
(* One group of a payroll.  A unit's intent leaves CREATED once, for the    *)
(* tab that opens the wallet; only that tab broadcasts the unit.            *)

ExecuteRecords ==
    [at : Steps, captured : Nat, unit : Batches \cup {0}, funding : Nat, hash : Nat,
     ok : BOOLEAN, shown : {"none", "refused", "rejected", "failed"}]
PaymentRecords == [unit : Batches, funding : Nat, status : {"pending", "success", "reverted"}]

RunVarsOK ==
    /\ route \in {"same", "cross"}
    /\ unitRow \in [Batches -> [status : {"PENDING", "SUCCESS", "FAILED"},
                                seen : IntentStatuses \cup {"none"}]]
    /\ unitIntent \in [Batches -> [status : IntentStatuses, lease : Tabs \cup {"none"}, hash : Nat]]
    /\ approvals \in [ApprovalRefs -> IntentStatuses]
    /\ payments \in Seq(PaymentRecords)
    /\ approving \subseteq Nat
    /\ granted \in Nat
    /\ storage \in [Batches -> [status : {"none", "submitted", "confirmed"}, hash : Nat]]
    /\ run \in [Tabs -> ExecuteRecords]

(* A run past the plan has a unit; one that awaits a receipt, or returns    *)
(* with a hash, has a transaction of this unit.                             *)
HasUnit(r) ==
    \/ r.at \in {"recover", "submit", "prepare", "sign", "bind", "bindAgain", "record", "report"}
    \/ route = "cross" /\ r.at \notin {"idle", "init"}
HoldsHash(r) == r.at \in {"bind", "record"} \/ (r.at = "bindAgain" /\ r.ok)
PaymentOf(h, u) == h \in DOMAIN payments /\ payments[h].unit = u

ExecuteOK(r) ==
    /\ HasUnit(r) => r.unit \in Batches
    /\ HoldsHash(r) => PaymentOf(r.hash, r.unit)

(* A tab at the wallet is the only one for its unit, which was never        *)
(* broadcast.                                                               *)
SignOK(t) ==
    run[t].at = "sign" =>
      /\ unitIntent[run[t].unit].status # "CREATED"
      /\ \A h \in DOMAIN payments : payments[h].unit # run[t].unit
      /\ \A k \in Tabs : run[k].at = "sign" /\ run[k].unit = run[t].unit => k = t

PaidOnce ==
    /\ \A h \in DOMAIN payments : unitIntent[payments[h].unit].status # "CREATED"
    /\ UnitBroadcastOnce

StorageOK ==
    \A u \in Batches :
      /\ storage[u].hash # NoPaymentHash => storage[u].status = "confirmed"
      /\ storage[u].status = "confirmed" =>
           PaymentOf(storage[u].hash, u) /\ payments[storage[u].hash].status = "success"

RunInv ==
    /\ RunVarsOK
    /\ \A t \in Tabs : ExecuteOK(run[t]) /\ SignOK(t)
    /\ PaidOnce
    /\ StorageOK

-----------------------------------------------------------------------------
(* Amounts are natural numbers.  Induction is by a least counterexample.    *)

LessThan == {p \in Nat \X Nat : p[1] < p[2]}

(* A set of natural numbers has a least element. *)
LEMMA LeastNatural ==
    ASSUME NEW S, S \subseteq Nat, S # {}
    PROVE  \E x \in S : \A y \in S : x <= y
<1>1. OpToRel(<, Nat) = LessThan  BY DEF OpToRel, LessThan
<1>2. IsWellFoundedOn(LessThan, Nat)  BY <1>1, NatLessThanWellFounded
<1>3. PICK x \in S : \A y \in S : ~(<<y, x>> \in LessThan)  BY <1>2, WFMin
<1>4. \A y \in S : ~(<<y, x>> \in LessThan) => x <= y  BY DEF LessThan
<1> QED BY <1>3, <1>4

LEMMA BatchesAreNumbered ==
    /\ Batches \subseteq Nat /\ 0 \notin Batches
    /\ IsFiniteSet(Batches)
    /\ \A u \in Batches : BatchAmounts[u] \in Nat
<1>1. BatchAmounts \in Seq(Nat)  BY RunAssumption
<1>2. Batches = 1..Len(BatchAmounts) /\ Len(BatchAmounts) \in Nat  BY <1>1 DEF Batches
<1>3. \A u \in Batches : BatchAmounts[u] \in Nat  BY <1>1, <1>2
<1>4. IsFiniteSet(1..Len(BatchAmounts))  BY <1>2, FS_Interval
<1> QED BY <1>2, <1>3, <1>4

LEMMA SameTokenFundingIsNatural ==
    ASSUME NEW u \in Batches
    PROVE  SameTokenFunding(u) \in Nat
<1>1. BatchAmounts[u] \in Nat  BY BatchesAreNumbered
<1>2. \A n, k \in Nat : n * k \in Nat  OBVIOUS
<1>3. BatchAmounts[u] * RunFeeBps \in Nat  BY <1>1, <1>2, RunAssumption
<1>4. \A n \in Nat, d \in Nat \ {0} : n \div d \in Nat  OBVIOUS
<1>5. (BatchAmounts[u] * RunFeeBps) \div RunBpsUnit \in Nat  BY <1>3, <1>4, RunAssumption
<1> QED BY <1>1, <1>5 DEF SameTokenFunding

(* What FoldSet's recursive function computes over the batches. *)
Folds(f, D) ==
    /\ f \in [D -> Nat]
    /\ \A s \in D : f[s] = IF s = {} THEN 0
                           ELSE LET x == CHOOSE x \in s : TRUE
                                IN f[s \ {x}] + SameTokenFunding(x)
Small(n) == {s \in SUBSET Batches : Cardinality(s) <= n}

LEMMA SmallerByOne ==
    ASSUME NEW n \in Nat, NEW s \in Small(n + 1), s # {}, NEW x \in s
    PROVE  s \ {x} \in Small(n) /\ s \ {x} \in Small(n + 1)
<1>1. IsFiniteSet(s)  BY BatchesAreNumbered, FS_Subset DEF Small
<1>2. Cardinality(s \ {x}) = Cardinality(s) - 1 /\ Cardinality(s) \in Nat
  BY <1>1, FS_RemoveElement, FS_CardinalityType
<1> QED BY <1>2 DEF Small

LEMMA FoldsExist ==
    ASSUME NEW n \in Nat
    PROVE  \E f : Folds(f, Small(n))
<1> DEFINE Missing == {k \in Nat : ~\E f : Folds(f, Small(k))}
<1> SUFFICES ASSUME Missing # {} PROVE FALSE
  OBVIOUS
<1>1. PICK m \in Missing : \A k \in Missing : m <= k
  BY LeastNatural
<1>2. CASE m = 0
  <2>1. Small(0) = {{}}
    <3>1. ASSUME NEW s \in Small(0) PROVE s = {}
      <4>1. IsFiniteSet(s)  BY BatchesAreNumbered, FS_Subset DEF Small
      <4> QED BY <4>1, FS_EmptySet, FS_CardinalityType DEF Small
    <3>2. {} \in Small(0)  BY FS_EmptySet DEF Small
    <3> QED BY <3>1, <3>2
  <2>2. Folds([s \in Small(0) |-> 0], Small(0))  BY <2>1 DEF Folds
  <2> QED BY <1>1, <1>2, <2>2
<1>3. CASE m # 0
  <2> DEFINE k == m - 1
  <2>1. k \in Nat /\ m = k + 1 /\ k \notin Missing  BY <1>1, <1>3
  <2>2. PICK f : Folds(f, Small(k))  BY <2>1
  <2> HIDE DEF k
  <2> DEFINE g == [s \in Small(m) |-> IF s = {} THEN 0
                      ELSE LET x == CHOOSE x \in s : TRUE IN f[s \ {x}] + SameTokenFunding(x)]
  <2>3. ASSUME NEW s \in Small(m), s # {}
        PROVE  LET x == CHOOSE x \in s : TRUE
               IN  /\ x \in s /\ x \in Batches
                   /\ s \ {x} \in Small(k) /\ s \ {x} \in Small(m)
    <3>1. (CHOOSE x \in s : TRUE) \in s  BY <2>3
    <3> QED BY <2>1, <2>3, <3>1, SmallerByOne DEF Small
  <2>4. ASSUME NEW s \in Small(k) PROVE s \in Small(m) /\ g[s] = f[s]
    <3>1. s \in Small(m)
      <4>1. IsFiniteSet(s)  BY BatchesAreNumbered, FS_Subset DEF Small
      <4> QED BY <2>1, <4>1, FS_CardinalityType DEF Small
    <3> QED BY <2>2, <3>1 DEF Folds
  <2>5. g \in [Small(m) -> Nat]
    <3>1. ASSUME NEW s \in Small(m), s # {}
          PROVE  LET x == CHOOSE x \in s : TRUE IN f[s \ {x}] + SameTokenFunding(x) \in Nat
      <4> DEFINE x == CHOOSE x \in s : TRUE
      <4>1. x \in Batches /\ s \ {x} \in Small(k)  BY <2>3, <3>1
      <4> HIDE DEF x
      <4>2. f[s \ {x}] \in Nat  BY <2>2, <4>1 DEF Folds
      <4>3. SameTokenFunding(x) \in Nat  BY <4>1, SameTokenFundingIsNatural
      <4> QED BY <4>2, <4>3 DEF x
    <3> QED BY <3>1
  <2>6. ASSUME NEW s \in Small(m)
        PROVE  g[s] = IF s = {} THEN 0
                      ELSE LET x == CHOOSE x \in s : TRUE IN g[s \ {x}] + SameTokenFunding(x)
    <3>1. CASE s = {}  BY <3>1
    <3>2. CASE s # {}
      <4> DEFINE x == CHOOSE x \in s : TRUE
      <4>1. s \ {x} \in Small(k)  BY <2>3, <3>2
      <4>2. g[s \ {x}] = f[s \ {x}]  BY <2>4, <4>1
      <4>3. g[s] = f[s \ {x}] + SameTokenFunding(x)  BY <3>2
      <4> QED BY <3>2, <4>2, <4>3
    <3> QED BY <3>1, <3>2
  <2> HIDE DEF g
  <2>7. Folds(g, Small(m))  BY <2>5, <2>6 DEF Folds
  <2> QED BY <1>1, <2>7
<1> QED BY <1>2, <1>3

LEMMA FoldIsNatural ==
    ASSUME NEW f,
           f = [s \in SUBSET Batches |-> IF s = {} THEN 0
                  ELSE f[s \ {CHOOSE x \in s : TRUE}] + SameTokenFunding(CHOOSE x \in s : TRUE)],
           NEW s \in SUBSET Batches
    PROVE  f[s] \in Nat
<1> DEFINE Bad == {n \in Nat : \E b \in SUBSET Batches : Cardinality(b) = n /\ f[b] \notin Nat}
<1>0. \A b \in SUBSET Batches : IsFiniteSet(b) /\ Cardinality(b) \in Nat
  BY BatchesAreNumbered, FS_Subset, FS_CardinalityType
<1> SUFFICES ASSUME Bad # {} PROVE FALSE
  BY <1>0
<1>1. PICK n \in Bad : \A k \in Bad : n <= k  BY LeastNatural
<1>2. PICK b \in SUBSET Batches : Cardinality(b) = n /\ f[b] \notin Nat  BY <1>1
<1>3. CASE b = {}  BY <1>2, <1>3
<1>4. CASE b # {}
  <2> DEFINE x == CHOOSE x \in b : TRUE
             c == b \ {x}
  <2>1. x \in b /\ x \in Batches  BY <1>4
  <2>2. f[b] = f[c] + SameTokenFunding(x)  BY <1>4
  <2> HIDE DEF x
  <2>3. Cardinality(c) = n - 1 /\ c \in SUBSET Batches
    BY <1>0, <1>2, <2>1, FS_RemoveElement
  <2>4. f[c] \in Nat
    <3> SUFFICES ASSUME f[c] \notin Nat PROVE FALSE
      OBVIOUS
    <3>1. n \in Nat /\ n - 1 \in Nat  BY <1>0, <1>1, <2>3
    <3>2. n - 1 \in Bad  BY <2>3, <3>1
    <3> HIDE DEF Bad
    <3>3. n <= n - 1  BY <1>1, <3>2
    <3> QED BY <3>1, <3>3
  <2> QED BY <1>2, <2>1, <2>2, <2>4, SameTokenFundingIsNatural
<1> QED BY <1>3, <1>4

LEMMA RequiredApprovalIsNatural == RequiredApproval \in Nat
<1> DEFINE D == SUBSET Batches
           iter == CHOOSE f : f = [s \in D |->
                     IF s = {} THEN 0
                     ELSE f[s \ {CHOOSE x \in s : TRUE}] + SameTokenFunding(CHOOSE x \in s : TRUE)]
<1>1. D = Small(Cardinality(Batches)) /\ Cardinality(Batches) \in Nat
  <2>1. ASSUME NEW s \in D PROVE Cardinality(s) <= Cardinality(Batches)
    BY BatchesAreNumbered, FS_Subset
  <2> QED BY <2>1, BatchesAreNumbered, FS_CardinalityType DEF Small
<1>2. PICK f : Folds(f, D)  BY <1>1, FoldsExist
<1>3. f = [s \in D |-> IF s = {} THEN 0
             ELSE f[s \ {CHOOSE x \in s : TRUE}] + SameTokenFunding(CHOOSE x \in s : TRUE)]
  BY <1>2 DEF Folds
<1>4. iter = [s \in D |-> IF s = {} THEN 0
             ELSE iter[s \ {CHOOSE x \in s : TRUE}] + SameTokenFunding(CHOOSE x \in s : TRUE)]
  BY <1>3
<1>5. RequiredApproval = iter[Batches]
  BY DEF RequiredApproval, FoldSet, MapThenFoldSet
<1> HIDE DEF iter
<1> QED BY <1>4, <1>5, FoldIsNatural

(* findNextPendingUnit answers with a unit or with none. *)
LEMMA NextIsABatch ==
    ASSUME NEW rows
    PROVE  FindNextPendingUnit(rows) \in Batches \cup {0}
           /\ ResumablePayrollUnit(rows) \in Batches \cup {0}
<1> DEFINE open == {u \in Batches : rows[u].status \in {"PENDING"}}
<1>1. ASSUME open # {} PROVE Min(open) \in open
  <2>1. \E x \in open : \A y \in open : x <= y  BY <1>1, LeastNatural, BatchesAreNumbered
  <2> HIDE DEF open
  <2> QED BY <2>1 DEF Min
<1>2. FindNextPendingUnit(rows) \in Batches \cup {0}
  BY <1>1 DEF FindNextPendingUnit, NextAmong
<1> QED BY <1>2 DEF ResumablePayrollUnit

-----------------------------------------------------------------------------
(* The steps of a run *)

Ended(m) == [NoRun EXCEPT !.shown = m]
FailedUnit(r) == [r EXCEPT !.at = "bindAgain", !.ok = FALSE]
Messages == {"none", "refused", "rejected", "failed"}

LEMMA RecordsStayTyped ==
    ASSUME NEW r \in ExecuteRecords
    PROVE  /\ \A m \in Messages : Ended(m) \in ExecuteRecords /\ ExecuteOK(Ended(m)) /\ Ended(m).at = "idle"
           /\ NoRun \in ExecuteRecords /\ ExecuteOK(NoRun) /\ NoRun.at = "idle"
           /\ FailedUnit(r) \in ExecuteRecords /\ FailedUnit(r).at = "bindAgain"
           /\ r.unit \in Batches => ExecuteOK(FailedUnit(r))
<1>1. NoRun \in ExecuteRecords /\ NoRun.at = "idle"  BY DEF NoRun, ExecuteRecords, Steps
<1>2. \A m \in Messages : Ended(m) \in ExecuteRecords /\ Ended(m).at = "idle"
  BY <1>1 DEF Ended, ExecuteRecords, Messages
<1>3. FailedUnit(r) \in ExecuteRecords /\ FailedUnit(r).at = "bindAgain" /\ FailedUnit(r).ok = FALSE
      /\ FailedUnit(r).unit = r.unit
  BY DEF FailedUnit, ExecuteRecords, Steps
<1> QED BY <1>1, <1>2, <1>3 DEF ExecuteOK, HasUnit, HoldsHash

(* Whatever unit comes next. *)
LEMMA UnitStarts ==
    ASSUME NEW t \in Tabs, NEW r \in ExecuteRecords, NEW u \in Batches \cup {0}, StartUnit(t, r, u)
    PROVE  \E to \in ExecuteRecords :
             /\ run' = [run EXCEPT ![t] = to]
             /\ to.at \in {"idle", "recover"} /\ ExecuteOK(to)
<1>1. CASE u = 0
  <2>1. r.shown \in Messages  BY DEF ExecuteRecords, Messages
  <2>2. run' = [run EXCEPT ![t] = Ended(r.shown)]  BY <1>1 DEF StartUnit, Ended
  <2> QED BY <2>1, <2>2, RecordsStayTyped
<1>2. CASE u # 0
  <2> DEFINE to == [r EXCEPT !.at = "recover", !.unit = u]
  <2>1. to \in ExecuteRecords /\ to.at = "recover" /\ to.unit = u
    BY DEF ExecuteRecords, Steps
  <2>2. run' = [run EXCEPT ![t] = to]  BY <1>2 DEF StartUnit
  <2>3. ExecuteOK(to)  BY <1>2, <2>1 DEF ExecuteOK, HoldsHash
  <2> HIDE DEF to
  <2> QED BY <2>1, <2>2, <2>3
<1> QED BY <1>1, <1>2

LEMMA PaymentsAreTyped ==
    ASSUME payments \in Seq(PaymentRecords)
    PROVE  /\ DOMAIN payments = 1..Len(payments) /\ Len(payments) \in Nat
           /\ \A h \in DOMAIN payments :
                 /\ payments[h] \in PaymentRecords
                 /\ payments[h].unit \in Batches /\ payments[h].funding \in Nat
                 /\ h \in Nat /\ h # NoPaymentHash
<1>1. DOMAIN payments = 1..Len(payments) /\ Len(payments) \in Nat  OBVIOUS
<1>2. \A h \in DOMAIN payments : payments[h] \in PaymentRecords  OBVIOUS
<1> QED BY <1>1, <1>2 DEF PaymentRecords, NoPaymentHash

(* A run moves without opening the wallet or broadcasting. *)
Moves(t) ==
    \E to \in ExecuteRecords : run' = [run EXCEPT ![t] = to] /\ to.at # "sign" /\ ExecuteOK(to)

LEMMA MovesKeep ==
    ASSUME RunInv, NEW t \in Tabs, Moves(t), UNCHANGED <<route, payments>>,
           \A u \in Batches : unitIntent'[u].status = "CREATED" => unitIntent[u].status = "CREATED"
    PROVE  /\ run' \in [Tabs -> ExecuteRecords]
           /\ PaidOnce'
           /\ \A k \in Tabs : ExecuteOK(run[k])' /\ SignOK(k)'
<1>1. PICK to \in ExecuteRecords : run' = [run EXCEPT ![t] = to] /\ to.at # "sign" /\ ExecuteOK(to)
  BY DEF Moves
<1>2. run \in [Tabs -> ExecuteRecords] /\ payments \in Seq(PaymentRecords)
  BY DEF RunInv, RunVarsOK
<1>3. run' \in [Tabs -> ExecuteRecords] /\ run'[t] = to /\ \A k \in Tabs : k # t => run'[k] = run[k]
  BY <1>1, <1>2
<1>4. \A h \in DOMAIN payments : payments[h].unit \in Batches
  BY <1>2, PaymentsAreTyped
<1>5. PaidOnce'  BY <1>4 DEF RunInv, PaidOnce, UnitBroadcastOnce
<1>6. ASSUME NEW k \in Tabs PROVE ExecuteOK(run[k])'
  <2>1. ExecuteOK(run'[k])  BY <1>1, <1>3 DEF RunInv
  <2> QED BY <2>1 DEF ExecuteOK, HasUnit, HoldsHash, PaymentOf
<1>7. ASSUME NEW k \in Tabs PROVE SignOK(k)'
  <2> SUFFICES ASSUME run'[k].at = "sign" PROVE SignOK(k)'
    BY DEF SignOK
  <2>1. k # t /\ run'[k] = run[k]  BY <1>1, <1>3
  <2>2. SignOK(k) /\ run[k].unit \in Batches  BY <2>1 DEF RunInv, ExecuteOK, HasUnit
  <2>3. \A j \in Tabs : run'[j].at = "sign" /\ run'[j].unit = run[k].unit => j = k
    BY <1>1, <1>3, <2>1, <2>2 DEF SignOK
  <2> QED BY <2>1, <2>2, <2>3 DEF SignOK
<1> QED BY <1>3, <1>5, <1>6, <1>7

(* A step that changes the runs and the approvals only. *)
LEMMA QuietMove ==
    ASSUME RunInv, NEW t \in Tabs, Moves(t), UNCHANGED <<route, runRows, payments, granted, storage>>,
           approvals' \in [ApprovalRefs -> IntentStatuses], approving' \subseteq Nat
    PROVE  RunInv'
<1>1. UNCHANGED <<unitRow, unitIntent>>  BY DEF runRows
<1>2. /\ run' \in [Tabs -> ExecuteRecords]
      /\ PaidOnce'
      /\ \A k \in Tabs : ExecuteOK(run[k])' /\ SignOK(k)'
  BY <1>1, MovesKeep
<1>3. RunVarsOK'  BY <1>1, <1>2 DEF RunInv, RunVarsOK
<1>4. StorageOK'  BY DEF RunInv, StorageOK, PaymentOf
<1> QED BY <1>2, <1>3, <1>4 DEF RunInv

LEMMA StepIsAMove ==
    ASSUME RunInv, NEW t \in Tabs, NEW at \in Steps \ {"sign"}, RunStep(t, at),
           ExecuteOK([run[t] EXCEPT !.at = at])
    PROVE  Moves(t)
<1>1. run \in [Tabs -> ExecuteRecords] /\ run[t] \in ExecuteRecords  BY DEF RunInv, RunVarsOK
<1>2. [run[t] EXCEPT !.at = at] \in ExecuteRecords /\ [run[t] EXCEPT !.at = at].at = at
  BY <1>1 DEF ExecuteRecords, Steps
<1>3. run' = [run EXCEPT ![t] = [run[t] EXCEPT !.at = at]]  BY <1>1 DEF RunStep
<1> QED BY <1>2, <1>3 DEF Moves

(* What is needed to go on with a unit. *)
LEMMA UnitGoesOn ==
    ASSUME RunInv, NEW t \in Tabs, NEW at \in Steps, run[t].unit \in Batches,
           at \notin {"bind", "bindAgain", "record"} \/ PaymentOf(run[t].hash, run[t].unit)
    PROVE  ExecuteOK([run[t] EXCEPT !.at = at])
<1>1. run[t] \in ExecuteRecords  BY DEF RunInv, RunVarsOK
<1> DEFINE r == [run[t] EXCEPT !.at = at]
<1>2. r.at = at /\ r.unit = run[t].unit /\ r.hash = run[t].hash  BY <1>1 DEF ExecuteRecords
<1> HIDE DEF r
<1> QED BY <1>2 DEF ExecuteOK, HoldsHash, r

LEMMA EndIsAMove ==
    ASSUME NEW t \in Tabs, NEW m \in Messages, EndRun(t, m)
    PROVE  Moves(t)
<1>1. run' = [run EXCEPT ![t] = Ended(m)]  BY DEF EndRun, Ended
<1>2. NoRun \in ExecuteRecords  BY DEF NoRun, ExecuteRecords, Steps
<1> QED BY <1>1, <1>2, RecordsStayTyped DEF Moves

LEMMA FailureIsAMove ==
    ASSUME RunInv, NEW t \in Tabs, run[t].unit \in Batches,
           run' = [run EXCEPT ![t].at = "bindAgain", ![t].ok = FALSE]
    PROVE  Moves(t)
<1>1. run \in [Tabs -> ExecuteRecords] /\ run[t] \in ExecuteRecords  BY DEF RunInv, RunVarsOK
<1>2. run' = [run EXCEPT ![t] = FailedUnit(run[t])]  BY <1>1 DEF FailedUnit
<1> QED BY <1>1, <1>2, RecordsStayTyped DEF Moves

LEMMA ApprovalFailureIsAMove ==
    ASSUME RunInv, NEW t \in Tabs, NEW m \in Messages, ApprovalFailed(t, m),
           run[t].at \in {"approve", "approveSign", "approveBind", "approveWait"}
    PROVE  Moves(t)
<1>1. CASE route = "same"  BY <1>1, EndIsAMove DEF ApprovalFailed
<1>2. CASE route # "same"
  <2>1. run[t].unit \in Batches
    BY <1>2 DEF RunInv, RunVarsOK, ExecuteOK, HasUnit
  <2> QED BY <1>2, <2>1, FailureIsAMove DEF ApprovalFailed
<1> QED BY <1>1, <1>2

LEMMA PressIsQuiet ==
    ASSUME RunInv, NEW t \in Tabs, PressSend(t)
    PROVE  RunInv'
<1> DEFINE to == [NoRun EXCEPT !.at = "init", !.captured = granted]
<1>1. granted \in Nat  BY DEF RunInv, RunVarsOK
<1>2. to \in ExecuteRecords /\ to.at = "init"
  BY <1>1 DEF NoRun, ExecuteRecords, Steps
<1>3. run' = [run EXCEPT ![t] = to]  BY DEF PressSend
<1> HIDE DEF to
<1>4. Moves(t)  BY <1>2, <1>3 DEF Moves, ExecuteOK, HasUnit, HoldsHash
<1> QED BY <1>4, QuietMove DEF PressSend, RunInv, RunVarsOK

(* The reconciliation brings no intent back to CREATED. *)
LEMMA InitTaskKeeps ==
    ASSUME RunInv, NEW verdict, InitTask(verdict)
    PROVE  /\ unitRow' \in [Batches -> [status : {"PENDING", "SUCCESS", "FAILED"},
                                        seen : IntentStatuses \cup {"none"}]]
           /\ unitIntent' \in [Batches -> [status : IntentStatuses, lease : Tabs \cup {"none"},
                                           hash : Nat]]
           /\ \A u \in Batches : unitIntent'[u].status = "CREATED" => unitIntent[u].status = "CREATED"
<1>1. /\ unitRow \in [Batches -> [status : {"PENDING", "SUCCESS", "FAILED"},
                                  seen : IntentStatuses \cup {"none"}]]
      /\ unitIntent \in [Batches -> [status : IntentStatuses, lease : Tabs \cup {"none"}, hash : Nat]]
  BY DEF RunInv, RunVarsOK
<1>2. CASE ~taskMade  BY <1>1, <1>2 DEF InitTask
<1>3. CASE taskMade
  <2> DEFINE after == [u \in Batches |-> Reconciled(unitIntent[u], verdict[u])]
  <2>1. ASSUME NEW u \in Batches
        PROVE  after[u] \in IntentStatuses /\ (after[u] = "CREATED" => unitIntent[u].status = "CREATED")
    BY <1>1 DEF Reconciled, IntentStatuses
  <2>2. /\ unitIntent' = [u \in Batches |-> [unitIntent[u] EXCEPT !.status = after[u]]]
        /\ unitRow' = [u \in Batches |->
              [status |-> UnitStatusAfter(unitRow[u].status, after[u]), seen |-> after[u]]]
    BY <1>3 DEF InitTask
  <2> HIDE DEF after
  <2>3. ASSUME NEW u \in Batches
        PROVE  UnitStatusAfter(unitRow[u].status, after[u]) \in {"PENDING", "SUCCESS", "FAILED"}
    BY <1>1 DEF UnitStatusAfter
  <2>4. unitRow' \in [Batches -> [status : {"PENDING", "SUCCESS", "FAILED"},
                                  seen : IntentStatuses \cup {"none"}]]
    BY <2>1, <2>2, <2>3
  <2>5. ASSUME NEW u \in Batches
        PROVE  /\ [unitIntent[u] EXCEPT !.status = after[u]]
                    \in [status : IntentStatuses, lease : Tabs \cup {"none"}, hash : Nat]
               /\ [unitIntent[u] EXCEPT !.status = after[u]].status = after[u]
    BY <1>1, <2>1
  <2> QED BY <2>1, <2>2, <2>4, <2>5
<1> QED BY <1>2, <1>3

LEMMA InitKeeps ==
    ASSUME RunInv, NEW t \in Tabs, InitPlan(t)
    PROVE  RunInv'
<1>0. run \in [Tabs -> ExecuteRecords] /\ run[t] \in ExecuteRecords  BY DEF RunInv, RunVarsOK
<1>1. PICK verdict : InitTask(verdict)  BY DEF InitPlan
<1>2. /\ unitRow' \in [Batches -> [status : {"PENDING", "SUCCESS", "FAILED"},
                                   seen : IntentStatuses \cup {"none"}]]
      /\ unitIntent' \in [Batches -> [status : IntentStatuses, lease : Tabs \cup {"none"}, hash : Nat]]
      /\ \A u \in Batches : unitIntent'[u].status = "CREATED" => unitIntent[u].status = "CREATED"
  BY <1>1, InitTaskKeeps
<1> DEFINE u == ResumablePayrollUnit(unitRow')
<1>3. u \in Batches \cup {0}  BY NextIsABatch
<1>4. Moves(t)
  <2>1. CASE route = "same" /\ run[t].captured < RequiredApproval
    <3> DEFINE to == [run[t] EXCEPT !.at = "approve", !.funding = RequiredApproval, !.unit = u]
    <3>1. run' = [run EXCEPT ![t] = to]  BY <1>0, <2>1 DEF InitPlan
    <3> HIDE DEF u
    <3>2. to \in ExecuteRecords /\ to.at = "approve"
      BY <1>0, <1>3, RequiredApprovalIsNatural DEF ExecuteRecords, Steps
    <3> HIDE DEF to
    <3> QED BY <2>1, <3>1, <3>2 DEF Moves, ExecuteOK, HasUnit, HoldsHash
  <2>2. CASE ~(route = "same" /\ run[t].captured < RequiredApproval)
    <3>1. StartUnit(t, run[t], u)  BY <2>2 DEF InitPlan
    <3> QED BY <1>0, <1>3, <3>1, UnitStarts DEF Moves
  <2> QED BY <2>1, <2>2
<1>5. UNCHANGED <<route, approvals, payments, approving, granted, storage>>  BY DEF InitPlan
<1>6. /\ run' \in [Tabs -> ExecuteRecords]
      /\ PaidOnce'
      /\ \A k \in Tabs : ExecuteOK(run[k])' /\ SignOK(k)'
  BY <1>2, <1>4, <1>5, MovesKeep
<1> QED BY <1>2, <1>5, <1>6 DEF RunInv, RunVarsOK, StorageOK, PaymentOf

(* The approval of a group's or a batch's funding. *)
LEMMA ApprovalsAreQuiet ==
    ASSUME RunInv, NEW t \in Tabs,
           \/ PrepareApproval(t) \/ SignApproval(t) \/ BindApproval(t)
           \/ WaitForAllowanceUpdate(t) \/ AllowanceTimeout(t)
    PROVE  RunInv'
<1>0. /\ run \in [Tabs -> ExecuteRecords] /\ run[t] \in ExecuteRecords
      /\ approvals \in [ApprovalRefs -> IntentStatuses] /\ approving \subseteq Nat
      /\ run[t].funding \in Nat /\ run[t].unit \in Batches \cup {0}
      /\ ExecuteOK(run[t])
  BY DEF RunInv, RunVarsOK, ExecuteRecords
<1>1. ASSUME NEW at \in {"approveSign", "approveBind", "approveWait"},
             run[t].at \in {"approve", "approveSign", "approveBind", "approveWait"}, RunStep(t, at)
      PROVE  Moves(t)
  <2> DEFINE r == [run[t] EXCEPT !.at = at]
  <2>1. r.at = at /\ r.unit = run[t].unit  BY <1>0 DEF ExecuteRecords
  <2> HIDE DEF r
  <2>2. ExecuteOK(r)  BY <1>0, <1>1, <2>1 DEF ExecuteOK, HasUnit, HoldsHash
  <2> QED BY <1>1, <2>2, StepIsAMove DEF Steps, r
<1>2. CASE PrepareApproval(t)
  <2>1. run[t].at = "approve" /\ UNCHANGED <<route, runRows, payments, approving, granted, storage>>
    BY <1>2 DEF PrepareApproval
  <2>2. (RunStep(t, "approveSign") \/ ApprovalFailed(t, "refused"))
        /\ approvals' \in [ApprovalRefs -> IntentStatuses]
    BY <1>0, <1>2 DEF PrepareApproval, IntentStatuses
  <2>3. Moves(t)  BY <1>1, <2>1, <2>2, ApprovalFailureIsAMove DEF Messages
  <2> QED BY <1>0, <2>1, <2>2, <2>3, QuietMove
<1>3. CASE SignApproval(t)
  <2>1. run[t].at = "approveSign" /\ UNCHANGED <<route, runRows, approvals, payments, granted, storage>>
    BY <1>3 DEF SignApproval
  <2>2. (RunStep(t, "approveBind") \/ ApprovalFailed(t, "rejected")) /\ approving' \subseteq Nat
    BY <1>0, <1>3 DEF SignApproval
  <2>3. Moves(t)  BY <1>1, <2>1, <2>2, ApprovalFailureIsAMove DEF Messages
  <2> QED BY <1>0, <2>1, <2>2, <2>3, QuietMove
<1>4. CASE BindApproval(t)
  <2>1. run[t].at = "approveBind" /\ UNCHANGED <<route, runRows, payments, approving, granted, storage>>
    BY <1>4 DEF BindApproval
  <2>2. (RunStep(t, "approveWait") \/ ApprovalFailed(t, "failed"))
        /\ approvals' \in [ApprovalRefs -> IntentStatuses]
    BY <1>0, <1>4 DEF BindApproval, IntentStatuses
  <2>3. Moves(t)  BY <1>1, <2>1, <2>2, ApprovalFailureIsAMove DEF Messages
  <2> QED BY <1>0, <2>1, <2>2, <2>3, QuietMove
<1>5. CASE WaitForAllowanceUpdate(t)
  <2>1. /\ run[t].at = "approveWait"
        /\ UNCHANGED <<route, runRows, approvals, payments, approving, granted, storage>>
    BY <1>5 DEF WaitForAllowanceUpdate
  <2>2. CASE route = "same"
    <3>1. StartUnit(t, run[t], run[t].unit)  BY <1>5, <2>2 DEF WaitForAllowanceUpdate
    <3>2. Moves(t)  BY <1>0, <3>1, UnitStarts DEF Moves
    <3> QED BY <1>0, <2>1, <3>2, QuietMove
  <2>3. CASE route # "same"
    <3>1. RunStep(t, "prepare")  BY <1>5, <2>3 DEF WaitForAllowanceUpdate, RunStep
    <3>2. run[t].unit \in Batches
      BY <1>0, <2>1, <2>3 DEF ExecuteOK, HasUnit, RunInv, RunVarsOK
    <3>3. ExecuteOK([run[t] EXCEPT !.at = "prepare"])  BY <3>2, UnitGoesOn DEF Steps
    <3>4. Moves(t)  BY <3>1, <3>3, StepIsAMove DEF Steps
    <3> QED BY <1>0, <2>1, <3>4, QuietMove
  <2> QED BY <2>2, <2>3
<1>6. CASE AllowanceTimeout(t)
  <2>1. /\ run[t].at = "approveWait" /\ ApprovalFailed(t, "failed")
        /\ UNCHANGED <<route, runRows, approvals, payments, approving, granted, storage>>
    BY <1>6 DEF AllowanceTimeout
  <2>2. Moves(t)  BY <2>1, ApprovalFailureIsAMove DEF Messages
  <2> QED BY <1>0, <2>1, <2>2, QuietMove
<1> QED BY <1>2, <1>3, <1>4, <1>5, <1>6

(* One unit, up to the wallet. *)
LEMMA RecoverKeeps ==
    ASSUME RunInv, NEW t \in Tabs, RecoverUnit(t)
    PROVE  RunInv'
<1> DEFINE u == run[t].unit
<1>0. /\ run \in [Tabs -> ExecuteRecords] /\ run[t] \in ExecuteRecords
      /\ storage \in [Batches -> [status : {"none", "submitted", "confirmed"}, hash : Nat]]
      /\ u \in Batches
      /\ UNCHANGED <<route, runRows, approvals, payments, approving, granted>>
      /\ UNCHANGED <<unitRow, unitIntent>>
  BY DEF RunInv, RunVarsOK, RecoverUnit, ExecuteOK, HasUnit, runRows
<1>1. /\ Moves(t)
      /\ storage' = storage \/ (storage[u].status = "none" /\ storage' = Stored(u, "submitted"))
  <2>1. CASE Recovered(u)
    <3> DEFINE to == [run[t] EXCEPT !.at = "bindAgain", !.ok = TRUE, !.hash = storage[u].hash]
    <3>1. run' = [run EXCEPT ![t] = to] /\ storage' = storage
      BY <1>0, <2>1 DEF RecoverUnit
    <3>2. PaymentOf(storage[u].hash, u)
      BY <1>0, <2>1 DEF Recovered, RunInv, StorageOK
    <3>3. storage[u].hash \in Nat  BY <1>0
    <3>4. to \in ExecuteRecords /\ to.at = "bindAgain" /\ to.unit = u /\ to.hash = storage[u].hash
      BY <1>0, <3>3 DEF ExecuteRecords, Steps
    <3> HIDE DEF to
    <3> QED BY <1>0, <3>1, <3>2, <3>4 DEF Moves, ExecuteOK
  <2>2. CASE ~Recovered(u)
    <3>1. RunStep(t, "submit")  BY <2>2 DEF RecoverUnit
    <3>2. ExecuteOK([run[t] EXCEPT !.at = "submit"])  BY <1>0, UnitGoesOn DEF Steps
    <3> QED BY <2>2, <3>1, <3>2, StepIsAMove DEF Steps, RecoverUnit
  <2> QED BY <2>1, <2>2
<1>2. /\ run' \in [Tabs -> ExecuteRecords]
      /\ PaidOnce'
      /\ \A k \in Tabs : ExecuteOK(run[k])' /\ SignOK(k)'
  BY <1>0, <1>1, MovesKeep
<1> HIDE DEF u
<1>3. storage' \in [Batches -> [status : {"none", "submitted", "confirmed"}, hash : Nat]]
      /\ StorageOK'
  BY <1>0, <1>1 DEF Stored, RunInv, StorageOK, PaymentOf, NoPaymentHash
<1> QED BY <1>0, <1>2, <1>3 DEF RunInv, RunVarsOK

LEMMA SubmitIsQuiet ==
    ASSUME RunInv, NEW t \in Tabs, SubmitSameToken(t) \/ SubmitCrossToken(t)
    PROVE  RunInv'
<1> DEFINE u == run[t].unit
<1>0. /\ run \in [Tabs -> ExecuteRecords] /\ run[t] \in ExecuteRecords
      /\ u \in Batches
      /\ UNCHANGED <<route, runRows, approvals, payments, approving, granted, storage>>
  BY DEF RunInv, RunVarsOK, SubmitSameToken, SubmitCrossToken, ExecuteOK, HasUnit
<1>1. ASSUME NEW q \in Nat, NEW at \in {"approve", "prepare"},
             run' = [run EXCEPT ![t] = [run[t] EXCEPT !.at = at, !.funding = q]]
      PROVE  Moves(t)
  <2> DEFINE to == [run[t] EXCEPT !.at = at, !.funding = q]
  <2>1. to \in ExecuteRecords /\ to.at = at /\ to.unit = u
    BY <1>0 DEF ExecuteRecords, Steps
  <2> HIDE DEF to
  <2>2. run' = [run EXCEPT ![t] = to]  BY <1>1 DEF to
  <2> QED BY <1>0, <2>1, <2>2 DEF Moves, ExecuteOK, HoldsHash
<1>2. ASSUME SubmitSameToken(t) PROVE Moves(t)
  <2>1. SameTokenFunding(u) \in Nat  BY <1>0, SameTokenFundingIsNatural
  <2>2. \/ run' = [run EXCEPT ![t] = [run[t] EXCEPT !.at = "prepare", !.funding = SameTokenFunding(u)]]
        \/ run' = [run EXCEPT ![t].at = "bindAgain", ![t].ok = FALSE]
    BY <1>0, <1>2 DEF SubmitSameToken
  <2> QED BY <1>0, <1>1, <2>1, <2>2, FailureIsAMove
<1>3. ASSUME SubmitCrossToken(t) PROVE Moves(t)
  <2>1. ASSUME NEW q \in GrossQuotes, NEW at \in {"approve", "prepare"},
               run' = [run EXCEPT ![t].funding = q, ![t].at = at]
        PROVE  Moves(t)
    <3>1. q \in Nat  BY RunAssumption
    <3>2. run' = [run EXCEPT ![t] = [run[t] EXCEPT !.at = at, !.funding = q]]
      BY <1>0, <2>1
    <3> QED BY <1>1, <3>1, <3>2
  <2>2. \/ \E q \in GrossQuotes : \E at \in {"approve", "prepare"} :
             run' = [run EXCEPT ![t].funding = q, ![t].at = at]
        \/ run' = [run EXCEPT ![t].at = "bindAgain", ![t].ok = FALSE]
    BY <1>3 DEF SubmitCrossToken
  <2> QED BY <1>0, <2>1, <2>2, FailureIsAMove
<1>4. Moves(t)  BY <1>2, <1>3
<1> QED BY <1>0, <1>4, QuietMove DEF RunInv, RunVarsOK

(* The one grant of a unit's intent. *)
LEMMA PrepareKeeps ==
    ASSUME RunInv, NEW t \in Tabs, PrepareUnit(t)
    PROVE  RunInv'
<1> DEFINE u == run[t].unit
<1>0. /\ run \in [Tabs -> ExecuteRecords] /\ run[t] \in ExecuteRecords
      /\ unitIntent \in [Batches -> [status : IntentStatuses, lease : Tabs \cup {"none"}, hash : Nat]]
      /\ payments \in Seq(PaymentRecords)
      /\ u \in Batches /\ run[t].at = "prepare"
      /\ UNCHANGED <<route, unitRow, approvals, payments, approving, granted, storage>>
  BY DEF RunInv, RunVarsOK, PrepareUnit, ExecuteOK, HasUnit
<1>1. CASE PrepareAccepted(unitIntent[u].status)
  <2> DEFINE to == [run[t] EXCEPT !.at = "sign"]
  <2>1. unitIntent[u].status = "CREATED"
    BY <1>0, <1>1 DEF PrepareAccepted, IntentStatuses
  <2>2. /\ unitIntent' = [unitIntent EXCEPT ![u].status = "AWAITING_WALLET_SIGNATURE", ![u].lease = t]
        /\ run' = [run EXCEPT ![t] = to]
    BY <1>0, <1>1 DEF PrepareUnit, RunStep
  <2>3. /\ unitIntent' \in [Batches -> [status : IntentStatuses, lease : Tabs \cup {"none"}, hash : Nat]]
        /\ unitIntent'[u].status = "AWAITING_WALLET_SIGNATURE"
        /\ \A v \in Batches : v # u => unitIntent'[v] = unitIntent[v]
    BY <1>0, <2>2 DEF IntentStatuses
  <2>4. to \in ExecuteRecords /\ to.at = "sign" /\ to.unit = u
    BY <1>0 DEF ExecuteRecords, Steps
  <2> HIDE DEF u, to
  <2>5. /\ run' \in [Tabs -> ExecuteRecords] /\ run'[t] = to
        /\ \A k \in Tabs : k # t => run'[k] = run[k]
    BY <1>0, <2>2, <2>4
  <2>6. \A h \in DOMAIN payments : payments[h].unit # u /\ payments[h].unit \in Batches
    BY <1>0, <2>1, PaymentsAreTyped DEF RunInv, PaidOnce
  <2>7. PaidOnce'
    BY <1>0, <2>3, <2>6 DEF RunInv, PaidOnce, UnitBroadcastOnce
  <2>8. ASSUME NEW k \in Tabs PROVE ExecuteOK(run[k])'
    <3>1. ExecuteOK(run'[k])
      BY <1>0, <2>4, <2>5 DEF RunInv, ExecuteOK, HoldsHash
    <3> QED BY <1>0, <3>1 DEF ExecuteOK, HasUnit, HoldsHash, PaymentOf
  <2>9. ASSUME NEW k \in Tabs PROVE SignOK(k)'
    <3>1. CASE k = t
      <4>1. ASSUME NEW j \in Tabs, run'[j].at = "sign", run'[j].unit = u PROVE j = t
        BY <2>1, <2>5, <4>1 DEF RunInv, SignOK
      <4> QED BY <1>0, <2>3, <2>4, <2>5, <2>6, <3>1, <4>1 DEF SignOK
    <3>2. CASE k # t /\ run'[k].at = "sign"
      <4>1. run'[k] = run[k] /\ SignOK(k) /\ run[k].unit \in Batches
        BY <2>5, <3>2 DEF RunInv, ExecuteOK, HasUnit
      <4>2. run[k].unit # u  BY <2>1, <3>2, <4>1 DEF SignOK
      <4>3. unitIntent'[run[k].unit] = unitIntent[run[k].unit]  BY <2>3, <4>1, <4>2
      <4>4. \A j \in Tabs : run'[j].at = "sign" /\ run'[j].unit = run[k].unit => j = k
        BY <2>4, <2>5, <3>2, <4>1, <4>2 DEF SignOK
      <4> QED BY <1>0, <3>2, <4>1, <4>3, <4>4 DEF SignOK
    <3> QED BY <3>1, <3>2 DEF SignOK
  <2> QED BY <1>0, <2>3, <2>5, <2>7, <2>8, <2>9 DEF RunInv, RunVarsOK, StorageOK, PaymentOf
<1>2. CASE ~PrepareAccepted(unitIntent[u].status)
  <2>1. /\ run' = [run EXCEPT ![t].at = "bindAgain", ![t].ok = FALSE]
        /\ UNCHANGED runRows
    BY <1>2 DEF PrepareUnit, runRows
  <2>2. Moves(t)  BY <1>0, <2>1, FailureIsAMove
  <2> QED BY <1>0, <2>1, <2>2, QuietMove DEF RunInv, RunVarsOK
<1> QED BY <1>1, <1>2

(* The wallet broadcasts. *)
LEMMA SignKeeps ==
    ASSUME RunInv, NEW t \in Tabs, SignUnit(t)
    PROVE  RunInv'
<1> DEFINE u == run[t].unit
           n == Len(payments) + 1
<1>0. /\ run \in [Tabs -> ExecuteRecords] /\ run[t] \in ExecuteRecords
      /\ payments \in Seq(PaymentRecords) /\ DOMAIN payments = 1..Len(payments)
      /\ u \in Batches /\ run[t].at = "sign" /\ run[t].funding \in Nat
      /\ UNCHANGED <<route, runRows, approvals, approving, granted, storage>>
      /\ UNCHANGED <<unitRow, unitIntent>>
  BY DEF RunInv, RunVarsOK, SignUnit, ExecuteOK, HasUnit, runRows, ExecuteRecords
<1>1. ASSUME payments' = Append(payments, [unit |-> u, funding |-> run[t].funding,
                                           status |-> "pending"]),
             run' = [run EXCEPT ![t].at = "bind", ![t].hash = n]
      PROVE  RunInv'
  <2> DEFINE to == [run[t] EXCEPT !.at = "bind", !.hash = n]
             p == [unit |-> u, funding |-> run[t].funding, status |-> "pending"]
  <2>1. p \in PaymentRecords /\ p.unit = u  BY <1>0 DEF PaymentRecords
  <2> HIDE DEF p
  <2>2. /\ payments' \in Seq(PaymentRecords) /\ DOMAIN payments' = 1..n /\ payments'[n] = p
        /\ n \in Nat /\ n \notin DOMAIN payments
        /\ DOMAIN payments' = DOMAIN payments \cup {n}
        /\ \A h \in DOMAIN payments : payments'[h] = payments[h]
    BY <1>0, <1>1, <2>1 DEF p
  <2>3. to \in ExecuteRecords /\ to.at = "bind" /\ to.unit = u /\ to.hash = n
    BY <1>0, <2>2 DEF ExecuteRecords, Steps
  <2>4. run' = [run EXCEPT ![t] = to]  BY <1>0, <1>1
  <2> HIDE DEF u, n, to
  <2>5. /\ run' \in [Tabs -> ExecuteRecords] /\ run'[t] = to
        /\ \A k \in Tabs : k # t => run'[k] = run[k]
    BY <1>0, <2>3, <2>4
  <2>6. /\ unitIntent[u].status # "CREATED"
        /\ \A h \in DOMAIN payments : payments[h].unit # u
        /\ \A k \in Tabs : k # t /\ run[k].at = "sign" => run[k].unit # u
    BY <1>0 DEF RunInv, SignOK, u
  <2>7. PaidOnce'
    BY <1>0, <2>1, <2>2, <2>6 DEF RunInv, PaidOnce, UnitBroadcastOnce
  <2>8. \A h, v : PaymentOf(h, v) => PaymentOf(h, v)'
    BY <2>2 DEF PaymentOf
  <2>9. n \in DOMAIN payments' /\ payments'[n].unit = u  BY <2>1, <2>2
  <2>10. ASSUME NEW k \in Tabs PROVE ExecuteOK(run[k])'
    <3>1. CASE k = t
      BY <1>0, <2>3, <2>5, <2>9, <3>1 DEF ExecuteOK, PaymentOf
    <3>2. CASE k # t
      <4>1. run'[k] = run[k] /\ ExecuteOK(run[k])  BY <2>5, <3>2 DEF RunInv
      <4>2. (HoldsHash(run[k]) => PaymentOf(run[k].hash, run[k].unit)')
        BY <2>8, <4>1 DEF ExecuteOK
      <4> QED BY <1>0, <4>1, <4>2 DEF ExecuteOK, HasUnit, HoldsHash, PaymentOf
    <3> QED BY <3>1, <3>2
  <2>11. ASSUME NEW k \in Tabs PROVE SignOK(k)'
    <3> SUFFICES ASSUME run'[k].at = "sign" PROVE SignOK(k)'
      BY DEF SignOK
    <3>1. k # t /\ run'[k] = run[k] /\ SignOK(k) /\ run[k].unit # u
      BY <2>3, <2>5, <2>6 DEF RunInv
    <3>2. \A h \in DOMAIN payments' : payments'[h].unit # run[k].unit
      BY <2>1, <2>2, <3>1 DEF SignOK
    <3>3. \A j \in Tabs : run'[j].at = "sign" /\ run'[j].unit = run[k].unit => j = k
      BY <2>3, <2>5, <3>1 DEF SignOK
    <3> QED BY <1>0, <3>1, <3>2, <3>3 DEF SignOK
  <2>12. StorageOK'
    BY <1>0, <2>2, <2>8 DEF RunInv, StorageOK, PaymentOf
  <2> QED BY <1>0, <2>2, <2>5, <2>7, <2>10, <2>11, <2>12 DEF RunInv, RunVarsOK
<1>2. CASE run' = [run EXCEPT ![t].at = "bindAgain", ![t].ok = FALSE] /\ UNCHANGED payments
  <2>1. Moves(t)  BY <1>0, <1>2, FailureIsAMove
  <2> QED BY <1>0, <1>2, <2>1, QuietMove DEF RunInv, RunVarsOK
<1> QED BY <1>1, <1>2 DEF SignUnit

(* A bound hash never makes an intent CREATED. *)
LEMMA BoundIntentIsTyped ==
    ASSUME NEW i \in [status : IntentStatuses, lease : Tabs \cup {"none"}, hash : Nat], NEW h \in Nat
    PROVE  /\ BoundIntent(i, h) \in [status : IntentStatuses, lease : Tabs \cup {"none"}, hash : Nat]
           /\ BoundIntent(i, h).status = "CREATED" => i.status = "CREATED"
BY DEF BoundIntent, IntentStatuses

LEMMA BindKeeps ==
    ASSUME RunInv, NEW t \in Tabs, BindUnit(t) \/ BindAgain(t)
    PROVE  RunInv'
<1> DEFINE u == run[t].unit
           h == run[t].hash
           Intents == [status : IntentStatuses, lease : Tabs \cup {"none"}, hash : Nat]
<1>0. /\ run \in [Tabs -> ExecuteRecords] /\ run[t] \in ExecuteRecords
      /\ unitIntent \in [Batches -> Intents]
      /\ storage \in [Batches -> [status : {"none", "submitted", "confirmed"}, hash : Nat]]
      /\ u \in Batches /\ h \in Nat
      /\ UNCHANGED <<route, unitRow, approvals, payments, approving, granted>>
  BY DEF RunInv, RunVarsOK, BindUnit, BindAgain, ExecuteOK, HasUnit, ExecuteRecords
<1>1. \/ UNCHANGED unitIntent
      \/ unitIntent' = [unitIntent EXCEPT ![u] = BoundIntent(unitIntent[u], h)]
  BY <1>0 DEF BindUnit, BindAgain
<1>2. /\ unitIntent' \in [Batches -> Intents]
      /\ \A v \in Batches : unitIntent'[v].status = "CREATED" => unitIntent[v].status = "CREATED"
  <2>1. CASE UNCHANGED unitIntent  BY <1>0, <2>1
  <2>2. CASE unitIntent' = [unitIntent EXCEPT ![u] = BoundIntent(unitIntent[u], h)]
    <3> DEFINE i == BoundIntent(unitIntent[u], h)
    <3>1. i \in Intents /\ (i.status = "CREATED" => unitIntent[u].status = "CREATED")
      BY <1>0, BoundIntentIsTyped
    <3> HIDE DEF i, Intents, u
    <3> QED BY <1>0, <2>2, <3>1 DEF i
  <2> QED BY <1>1, <2>1, <2>2
<1>3. ASSUME NEW at \in {"record", "report"}, PaymentOf(h, u), RunStep(t, at)
      PROVE  Moves(t)
  <2>1. ExecuteOK([run[t] EXCEPT !.at = at])  BY <1>0, <1>3, UnitGoesOn DEF Steps
  <2> QED BY <1>3, <2>1, StepIsAMove DEF Steps
<1>4. CASE BindUnit(t)
  <2>1. PaymentOf(h, u) /\ UNCHANGED storage  BY <1>4 DEF BindUnit, RunInv, ExecuteOK, HoldsHash
  <2>2. ASSUME run' = [run EXCEPT ![t].at = "bindAgain", ![t].ok = TRUE] PROVE Moves(t)
    <3> DEFINE to == [run[t] EXCEPT !.at = "bindAgain", !.ok = TRUE]
    <3>1. to \in ExecuteRecords /\ to.at = "bindAgain" /\ to.unit = u /\ to.hash = h
      BY <1>0 DEF ExecuteRecords, Steps
    <3>2. run' = [run EXCEPT ![t] = to]  BY <1>0, <2>2
    <3> HIDE DEF to
    <3> QED BY <1>0, <2>1, <3>1, <3>2 DEF Moves, ExecuteOK
  <2>3. Moves(t)  BY <1>0, <1>4, <2>2, FailureIsAMove DEF BindUnit
  <2>4. /\ run' \in [Tabs -> ExecuteRecords]
        /\ PaidOnce'
        /\ \A k \in Tabs : ExecuteOK(run[k])' /\ SignOK(k)'
    BY <1>0, <1>2, <2>3, MovesKeep
  <2> QED BY <1>0, <1>2, <2>1, <2>4 DEF RunInv, RunVarsOK, StorageOK, PaymentOf
<1>5. CASE BindAgain(t)
  <2>1. Moves(t)
    <3>1. CASE run[t].ok
      <4>1. PaymentOf(h, u)  BY <1>5, <3>1 DEF BindAgain, RunInv, ExecuteOK, HoldsHash
      <4>2. RunStep(t, "report") \/ RunStep(t, "record") \/ EndRun(t, "failed")
        BY <1>5, <3>1 DEF BindAgain
      <4> QED BY <1>3, <4>1, <4>2, EndIsAMove DEF Messages
    <3>2. CASE ~run[t].ok
      <4>1. RunStep(t, "report")  BY <1>5, <3>2 DEF BindAgain
      <4>2. ExecuteOK([run[t] EXCEPT !.at = "report"])  BY <1>0, UnitGoesOn DEF Steps
      <4> QED BY <4>1, <4>2, StepIsAMove DEF Steps
    <3> QED BY <3>1, <3>2
  <2>2. storage' = storage \/ storage' = Stored(u, "none")  BY <1>5 DEF BindAgain
  <2>3. /\ run' \in [Tabs -> ExecuteRecords]
        /\ PaidOnce'
        /\ \A k \in Tabs : ExecuteOK(run[k])' /\ SignOK(k)'
    BY <1>0, <1>2, <2>1, MovesKeep
  <2> HIDE DEF u
  <2>4. ASSUME storage' = Stored(u, "none")
        PROVE  storage' \in [Batches -> [status : {"none", "submitted", "confirmed"}, hash : Nat]]
               /\ StorageOK'
    <3>1. storage' = [storage EXCEPT ![u] = [status |-> "none", hash |-> NoPaymentHash]]
      BY <2>4 DEF Stored
    <3>2. storage' \in [Batches -> [status : {"none", "submitted", "confirmed"}, hash : Nat]]
      BY <1>0, <3>1 DEF NoPaymentHash
    <3>3. StorageOK'  BY <1>0, <3>1 DEF RunInv, StorageOK, PaymentOf, NoPaymentHash
    <3> QED BY <3>2, <3>3
  <2>5. ASSUME storage' = storage
        PROVE  storage' \in [Batches -> [status : {"none", "submitted", "confirmed"}, hash : Nat]]
               /\ StorageOK'
    BY <1>0, <2>5 DEF RunInv, RunVarsOK, StorageOK, PaymentOf
  <2> QED BY <1>0, <1>2, <2>2, <2>3, <2>4, <2>5 DEF RunInv, RunVarsOK
<1> QED BY <1>4, <1>5

(* Only a receipt of the unit's transaction is stored as confirmed. *)
LEMMA RecordKeeps ==
    ASSUME RunInv, NEW t \in Tabs, RecordPayrollBatchConfirmation(t)
    PROVE  RunInv'
<1> DEFINE u == run[t].unit
           h == run[t].hash
<1>0. /\ run \in [Tabs -> ExecuteRecords] /\ run[t] \in ExecuteRecords
      /\ storage \in [Batches -> [status : {"none", "submitted", "confirmed"}, hash : Nat]]
      /\ u \in Batches /\ h \in Nat /\ PaymentOf(h, u)
      /\ UNCHANGED <<route, runRows, approvals, payments, approving, granted>>
      /\ UNCHANGED <<unitRow, unitIntent>>
  BY DEF RunInv, RunVarsOK, RecordPayrollBatchConfirmation, ExecuteOK, HasUnit, HoldsHash,
         ExecuteRecords, runRows
<1>1. /\ Moves(t)
      /\ \/ UNCHANGED storage
         \/ /\ payments[h].status = "success"
            /\ storage' = [storage EXCEPT ![u] = [status |-> "confirmed", hash |-> h]]
  <2>1. ASSUME RunStep(t, "report") PROVE Moves(t)
    <3>1. ExecuteOK([run[t] EXCEPT !.at = "report"])  BY <1>0, UnitGoesOn DEF Steps
    <3> QED BY <2>1, <3>1, StepIsAMove DEF Steps
  <2> QED BY <2>1, EndIsAMove DEF RecordPayrollBatchConfirmation, ReceiptSucceeded, Messages
<1>2. /\ run' \in [Tabs -> ExecuteRecords]
      /\ PaidOnce'
      /\ \A k \in Tabs : ExecuteOK(run[k])' /\ SignOK(k)'
  BY <1>0, <1>1, MovesKeep
<1> HIDE DEF u, h
<1>3. storage' \in [Batches -> [status : {"none", "submitted", "confirmed"}, hash : Nat]]
      /\ StorageOK'
  BY <1>0, <1>1 DEF RunInv, StorageOK, PaymentOf, NoPaymentHash
<1> QED BY <1>0, <1>2, <1>3 DEF RunInv, RunVarsOK

LEMMA ReportKeeps ==
    ASSUME RunInv, NEW t \in Tabs, ReportUnit(t)
    PROVE  RunInv'
<1> DEFINE u == run[t].unit
           Rows == [status : {"PENDING", "SUCCESS", "FAILED"}, seen : IntentStatuses \cup {"none"}]
           Intents == [status : IntentStatuses, lease : Tabs \cup {"none"}, hash : Nat]
           r == [run[t] EXCEPT !.hash = NoPaymentHash, !.ok = FALSE]
<1>0. /\ run \in [Tabs -> ExecuteRecords] /\ run[t] \in ExecuteRecords
      /\ unitIntent \in [Batches -> Intents] /\ unitRow \in [Batches -> Rows]
      /\ u \in Batches
      /\ UNCHANGED <<route, approvals, payments, approving, granted, storage>>
  BY DEF RunInv, RunVarsOK, ReportUnit, ExecuteOK, HasUnit
<1>1. /\ \/ StartUnit(t, r, FindNextPendingUnit(unitRow'))
         \/ EndRun(t, "failed")
      /\ \/ UNCHANGED unitRow
         \/ \E outcome \in {"SUCCESS", "FAILED"} :
              unitRow' = [unitRow EXCEPT ![u].status = IF @ = "PENDING" THEN outcome ELSE @]
      /\ \/ UNCHANGED unitIntent
         \/ unitIntent' = [unitIntent EXCEPT ![u].status = "COMPLETED"]
         \/ unitIntent' = [unitIntent EXCEPT ![u].status = IF @ = "SUBMITTED" THEN "VERIFYING" ELSE @]
  BY DEF ReportUnit
<1>2. r \in ExecuteRecords  BY <1>0 DEF ExecuteRecords, NoPaymentHash
<1> HIDE DEF u, r
<1>3. Moves(t)
  BY <1>1, <1>2, NextIsABatch, UnitStarts, EndIsAMove DEF Moves, Messages
<1>4. unitRow' \in [Batches -> Rows]  BY <1>0, <1>1
<1>5. /\ unitIntent' \in [Batches -> Intents]
      /\ \A v \in Batches : unitIntent'[v].status = "CREATED" => unitIntent[v].status = "CREATED"
  <2>1. ASSUME NEW s \in IntentStatuses \ {"CREATED"}, unitIntent' = [unitIntent EXCEPT ![u].status = s]
        PROVE  /\ unitIntent' \in [Batches -> Intents]
               /\ \A v \in Batches : unitIntent'[v].status = "CREATED" => unitIntent[v].status = "CREATED"
    BY <1>0, <2>1
  <2>2. CASE UNCHANGED unitIntent  BY <1>0, <2>2
  <2>3. CASE unitIntent[u].status # "SUBMITTED"
             /\ unitIntent' = [unitIntent EXCEPT ![u].status = IF @ = "SUBMITTED" THEN "VERIFYING" ELSE @]
    <3>1. unitIntent' = [unitIntent EXCEPT ![u].status = @]  BY <2>3
    <3>2. unitIntent' = unitIntent  BY <1>0, <3>1
    <3> QED BY <2>2, <3>2
  <2>4. CASE unitIntent[u].status = "SUBMITTED"
             /\ unitIntent' = [unitIntent EXCEPT ![u].status = IF @ = "SUBMITTED" THEN "VERIFYING" ELSE @]
    <3>1. unitIntent' = [unitIntent EXCEPT ![u].status = "VERIFYING"]  BY <2>4
    <3> QED BY <2>1, <3>1 DEF IntentStatuses
  <2>5. CASE unitIntent' = [unitIntent EXCEPT ![u].status = "COMPLETED"]
    BY <2>1, <2>5 DEF IntentStatuses
  <2> QED BY <1>1, <2>2, <2>3, <2>4, <2>5
<1>6. /\ run' \in [Tabs -> ExecuteRecords]
      /\ PaidOnce'
      /\ \A k \in Tabs : ExecuteOK(run[k])' /\ SignOK(k)'
  BY <1>0, <1>3, <1>5, MovesKeep
<1> QED BY <1>0, <1>4, <1>5, <1>6 DEF RunInv, RunVarsOK, StorageOK, PaymentOf

LEMMA ReloadKeeps ==
    ASSUME RunInv, NEW t \in Tabs, Reload(t)
    PROVE  RunInv'
<1>1. run[t] \in ExecuteRecords  BY DEF RunInv, RunVarsOK
<1>2. Moves(t)  BY <1>1, RecordsStayTyped DEF Reload, Moves
<1> QED BY <1>2, QuietMove DEF Reload, RunInv, RunVarsOK

LEMMA LeaseExpiryKeeps ==
    ASSUME RunInv, NEW u \in Batches, UnitLeaseExpires(u)
    PROVE  RunInv'
<1> DEFINE Intents == [status : IntentStatuses, lease : Tabs \cup {"none"}, hash : Nat]
<1>1. unitIntent \in [Batches -> Intents] /\ payments \in Seq(PaymentRecords)
      /\ unitIntent' = [unitIntent EXCEPT ![u].lease = "none"]
      /\ UNCHANGED <<route, unitRow, approvals, payments, approving, granted, storage, run>>
  BY DEF RunInv, RunVarsOK, UnitLeaseExpires
<1>2. /\ unitIntent' \in [Batches -> Intents]
      /\ \A v \in Batches : unitIntent'[v].status = unitIntent[v].status
  BY <1>1
<1>3. \A h \in DOMAIN payments : payments[h].unit \in Batches  BY <1>1, PaymentsAreTyped
<1>4. PaidOnce'  BY <1>1, <1>2, <1>3 DEF RunInv, PaidOnce, UnitBroadcastOnce
<1>5. ASSUME NEW t \in Tabs PROVE ExecuteOK(run[t])' /\ SignOK(t)'
  <2>1. ExecuteOK(run[t])'  BY <1>1 DEF RunInv, ExecuteOK, HasUnit, HoldsHash, PaymentOf
  <2>2. run[t].at = "sign" => run[t].unit \in Batches  BY DEF RunInv, ExecuteOK, HasUnit
  <2> QED BY <1>1, <1>2, <2>1, <2>2 DEF RunInv, SignOK
<1> QED BY <1>1, <1>2, <1>4, <1>5 DEF RunInv, RunVarsOK, StorageOK, PaymentOf

(* The chain changes a transaction's outcome once and moves the allowance. *)
LEMMA ChainKeeps ==
    ASSUME RunInv, ChainStep
    PROVE  RunInv'
<1>0. payments \in Seq(PaymentRecords) /\ approving \subseteq Nat /\ granted \in Nat
  BY DEF RunInv, RunVarsOK
<1>1. ASSUME NEW a \in approving, MineApproval(a) PROVE RunInv'
  <2>1. approving' \subseteq Nat /\ granted' \in Nat
        /\ UNCHANGED <<route, unitRow, unitIntent, approvals, payments, storage, run>>
    BY <1>0, <1>1 DEF MineApproval, runRows
  <2> QED BY <2>1 DEF RunInv, RunVarsOK, PaidOnce, UnitBroadcastOnce, StorageOK, PaymentOf,
                      ExecuteOK, HasUnit, HoldsHash, SignOK
<1>2. ASSUME NEW h \in DOMAIN payments, MinePayment(h) PROVE RunInv'
  <2>1. /\ payments[h].status = "pending"
        /\ \E s \in {"success", "reverted"} : payments' = [payments EXCEPT ![h].status = s]
        /\ granted' \in Nat
        /\ UNCHANGED <<route, unitRow, unitIntent, approvals, approving, storage, run>>
    <3>1. payments[h].funding \in Nat  BY <1>0, PaymentsAreTyped
    <3> QED BY <1>0, <1>2, <3>1 DEF MinePayment, runRows
  <2>2. PICK s \in {"success", "reverted"} : payments' = [payments EXCEPT ![h].status = s]
    BY <2>1
  <2>3. h \in 1..Len(payments) /\ payments[h] \in PaymentRecords  BY <1>0, PaymentsAreTyped
  <2>4. [payments[h] EXCEPT !.status = s] \in PaymentRecords
        /\ [payments[h] EXCEPT !.status = s].unit = payments[h].unit
    BY <2>3 DEF PaymentRecords
  <2>5. /\ payments' \in Seq(PaymentRecords) /\ DOMAIN payments' = DOMAIN payments
        /\ \A k \in DOMAIN payments : payments'[k].unit = payments[k].unit
        /\ \A k \in DOMAIN payments : k # h => payments'[k] = payments[k]
    BY <1>0, <2>2, <2>3, <2>4
  <2>6. PaidOnce'  BY <2>1, <2>5 DEF RunInv, PaidOnce, UnitBroadcastOnce
  <2>7. ASSUME NEW t \in Tabs PROVE ExecuteOK(run[t])' /\ SignOK(t)'
    BY <2>1, <2>5 DEF RunInv, ExecuteOK, HasUnit, HoldsHash, PaymentOf, SignOK
  <2>8. StorageOK'  BY <2>1, <2>5 DEF RunInv, StorageOK, PaymentOf
  <2> QED BY <2>1, <2>5, <2>6, <2>7, <2>8 DEF RunInv, RunVarsOK
<1> QED BY <1>1, <1>2 DEF ChainStep

LEMMA RunInv_Step ==
    RunInv /\ [RunNext]_runVars => RunInv'
<1> SUFFICES ASSUME RunInv, [RunNext]_runVars PROVE RunInv'
  OBVIOUS
<1>1. ASSUME NEW t \in Tabs, TabStep(t) PROVE RunInv'
  BY <1>1, InitKeeps, ApprovalsAreQuiet, RecoverKeeps, SubmitIsQuiet, PrepareKeeps, SignKeeps,
     BindKeeps, RecordKeeps, ReportKeeps DEF TabStep
<1>2. CASE UNCHANGED runVars
  BY <1>2 DEF runVars, runRows, RunInv, RunVarsOK, PaidOnce, UnitBroadcastOnce, StorageOK, PaymentOf,
              ExecuteOK, HasUnit, HoldsHash, SignOK
<1> QED BY <1>1, <1>2, PressIsQuiet, ReloadKeeps, LeaseExpiryKeeps, ChainKeeps DEF RunNext

LEMMA RunInit_Inv ==
    RunInit => RunInv
<1> SUFFICES ASSUME RunInit PROVE RunInv
  OBVIOUS
<1>1. NoRun \in ExecuteRecords /\ NoRun.at = "idle" /\ ExecuteOK(NoRun)
  <2>1. NoRun \in ExecuteRecords /\ NoRun.at = "idle"  BY DEF NoRun, ExecuteRecords, Steps
  <2> QED BY <2>1, RecordsStayTyped
<1>2. payments = <<>> /\ payments \in Seq(PaymentRecords) /\ DOMAIN payments = {}
  BY DEF RunInit
<1>3. RunVarsOK
  BY <1>1, <1>2, RunAssumption DEF RunInit, RunVarsOK, IntentStatuses, NoPaymentHash
<1>4. \A t \in Tabs : ExecuteOK(run[t]) /\ SignOK(t)
  BY <1>1 DEF RunInit, SignOK
<1>5. PaidOnce /\ StorageOK
  BY <1>2 DEF RunInit, PaidOnce, UnitBroadcastOnce, StorageOK, NoPaymentHash
<1> QED BY <1>3, <1>4, <1>5 DEF RunInv

(* However the tabs of a payer, reloads, slow signatures and failing calls  *)
(* interleave, a unit of a payroll is broadcast at most once and recorded   *)
(* as confirmed only when its transaction succeeded.                        *)
THEOREM PayrollUnitsArePaidOnce == RunSpec => []UnitsArePaidOnce
<1>1. RunInv => UnitsArePaidOnce
  <2> SUFFICES ASSUME RunInv PROVE UnitsArePaidOnce
    OBVIOUS
  <2>1. RunTypeOK  BY DEF RunInv, RunVarsOK, RunTypeOK, ExecuteRecords
  <2>2. UnitBroadcastOnce  BY DEF RunInv, PaidOnce
  <2>3. StoredIsConfirmed  BY DEF RunInv, StorageOK, PaymentOf, StoredIsConfirmed
  <2> QED BY <2>1, <2>2, <2>3 DEF UnitsArePaidOnce
<1>2. RunSpec => []RunInv
  BY RunInit_Inv, RunInv_Step, PTL DEF RunSpec
<1> QED BY <1>1, <1>2, PTL

-----------------------------------------------------------------------------
(* A swap.  The pool's past never changes, so what a quote was given at its *)
(* block stays what that block gives.                                       *)

PoolOK ==
    /\ pool \in [head : Nat, rate : UNION {[0 .. n -> Rates] : n \in Nat}, paused : BOOLEAN,
                 was : BOOLEAN, pauses : Nat]
    /\ pool.rate \in [0 .. pool.head -> Rates]

CacheOK ==
    cache = NoCache \/
    (cache \in [at : Nat, readAt : Nat] /\ cache.at <= cache.readAt /\ cache.readAt <= pool.head)

AskRecords ==
    [key : SwapKeys, at : {"sent", "second", "quote", "pinned", "answered", "failed"},
     first : BOOLEAN, out : Nat, block : Nat, quotedAt : Nat, quorumAt : Nat, askedAt : Nat]
QuoteRecords ==
    [key : SwapKeys, out : Nat, block : Nat, quotedAt : Nat, quorumAt : Nat, askedAt : Nat]
Plans == [amount : Nat, quotedAt : Nat, min : Nat, deadline : Nat]
SwapRecords == [call : Plans, state : {"pending", "success", "reverted"}, received : Int]

(* Backed by a quorum; and, once answered, worth what its block gave. *)
Backed(a) == a.askedAt < a.quorumAt + QuorumTtl
Worth(a) == a.out = OutAt(a.key.amount, a.block)

AskOK(a) ==
    /\ a \in AskRecords
    /\ a.at = "second" => a.askedAt <= pool.head
    /\ a.at \in {"quote", "pinned", "answered"} => Backed(a)
    /\ a.at \in {"pinned", "answered"} => a.block <= pool.head
    /\ a.at = "answered" => Worth(a)

QuoteOK(q) == q \in QuoteRecords /\ Backed(q) /\ q.block <= pool.head /\ Worth(q)

PlanOK(p) ==
    /\ p \in Plans
    /\ p.quotedAt <= pool.head
    /\ p.min = ApplySlippage(OutAt(p.amount, p.quotedAt))

AsksOK == asks = [s \in DOMAIN asks |-> asks[s]] /\ \A s \in DOMAIN asks : AskOK(asks[s])

SwapScreenOK ==
    /\ screen \in [key : SwapKeys \cup {NoQuoteKey}, seq : Nat,
                   quote : QuoteRecords \cup {NoSwapQuote},
                   status : {"idle", "quoting", "preparing", "signing", "confirming"}]
    /\ screen.quote = NoSwapQuote \/ QuoteOK(screen.quote)

FlowOK ==
    \/ flow = NoFlow
    \/ flow \in [phase : {"auth"}, quote : QuoteRecords] /\ QuoteOK(flow.quote)
    \/ flow \in [phase : {"prepare"}, quote : QuoteRecords, deadline : Nat] /\ QuoteOK(flow.quote)
    \/ flow \in [phase : {"approve", "sign"}, quote : QuoteRecords, plan : Plans] /\ PlanOK(flow.plan)
    \/ flow \in [phase : {"wait", "confirm"}, tx : DOMAIN swaps]

SwapsOK ==
    /\ swaps \in Seq(SwapRecords)
    /\ \A i \in DOMAIN swaps : PlanOK(swaps[i].call)
    /\ stored \subseteq DOMAIN swaps
    /\ StoredIsSwapped

SwapInv == PoolOK /\ CacheOK /\ AsksOK /\ SwapScreenOK /\ FlowOK /\ SwapsOK

LEMMA SwapScale ==
    /\ BpsScale \in Nat \ {0} /\ SlippageBps \in Nat /\ SlippageBps < BpsScale
    /\ ExecutorFee \in Nat /\ ExecutorFee < BpsScale
    /\ \A r \in Rates : r \in Nat
    /\ \A a \in SwapAmounts : a \in Nat
    /\ QuorumTtl \in Nat \ {0}
<1>1. BpsScale \in Nat \ {0} /\ QuorumTtl \in Nat \ {0}  BY SwapAssumption
<1>2. SlippageBps \in 1 .. BpsScale - 1  BY SwapAssumption
<1>3. ExecutorFee \in 0 .. BpsScale - 1  BY SwapAssumption
<1>4. SlippageBps \in Nat /\ SlippageBps < BpsScale  BY <1>1, <1>2
<1>5. ExecutorFee \in Nat /\ ExecutorFee < BpsScale  BY <1>1, <1>3
<1>6. (\A r \in Rates : r \in Nat) /\ \A a \in SwapAmounts : a \in Nat  BY SwapAssumption
<1> QED BY <1>1, <1>4, <1>5, <1>6

(* What the pool pays is a natural number. *)
LEMMA OutIsNatural ==
    ASSUME PoolOK
    PROVE  /\ \A a \in Nat, b \in 0 .. pool.head : OutAt(a, b) \in Nat
           /\ \A a \in Int, b \in 0 .. pool.head : OutAt(a, b) \in Int
<1>1. ASSUME NEW b \in 0 .. pool.head PROVE RateAt(b) \in Nat
  BY SwapScale DEF PoolOK, RateAt
<1>2. \A n, k \in Nat : n * k \in Nat  OBVIOUS
<1>3. \A n \in Int, k \in Nat : n * k \in Int  OBVIOUS
<1> QED BY <1>1, <1>2, <1>3 DEF OutAt

LEMMA SlippageIsNatural ==
    ASSUME NEW out \in Nat
    PROVE  ApplySlippage(out) \in Nat
<1>1. BpsScale - SlippageBps \in Nat  BY SwapScale
<1>2. \A n, k \in Nat : n * k \in Nat  OBVIOUS
<1>3. out * (BpsScale - SlippageBps) \in Nat  BY <1>1, <1>2
<1>4. \A n \in Nat, d \in Nat \ {0} : n \div d \in Nat  OBVIOUS
<1> QED BY <1>3, <1>4, SwapScale DEF ApplySlippage

LEMMA NetIsInteger ==
    ASSUME NEW a \in Nat
    PROVE  Net(a) \in Int
<1>1. a * ExecutorFee \in Nat
  <2>1. \A n, k \in Nat : n * k \in Nat  OBVIOUS
  <2> QED BY <2>1, SwapScale
<1>2. \A n \in Nat, d \in Nat \ {0} : n \div d \in Nat  OBVIOUS
<1>3. (a * ExecutorFee) \div BpsScale \in Nat  BY <1>1, <1>2, SwapScale
<1> QED BY <1>3 DEF Net

(* The pool only grows. *)
PoolGrows ==
    /\ pool.head <= pool'.head
    /\ \A b \in 0 .. pool.head : pool'.rate[b] = pool.rate[b]

LEMMA PoolSteps ==
    ASSUME PoolOK, \/ \E r \in Rates : NextBlock(r)
                   \/ \E p \in BOOLEAN : SetPaused(p)
                   \/ UNCHANGED pool
    PROVE  PoolOK' /\ PoolGrows
<1> DEFINE Histories == UNION {[0 .. n -> Rates] : n \in Nat}
<1>0. /\ pool \in [head : Nat, rate : Histories, paused : BOOLEAN, was : BOOLEAN, pauses : Nat]
      /\ pool.rate \in [0 .. pool.head -> Rates]
  BY DEF PoolOK
<1>1. ASSUME NEW r \in Rates, NextBlock(r) PROVE PoolOK' /\ PoolGrows
  <2> DEFINE f == [b \in 0 .. pool.head + 1 |-> IF b <= pool.head THEN pool.rate[b] ELSE r]
             n == pool.head + 1
  <2>1. f \in [0 .. n -> Rates] /\ n \in Nat /\ \A b \in 0 .. pool.head : f[b] = pool.rate[b]
    BY <1>0
  <2>2. f \in Histories  BY <2>1
  <2>3. pool' = [pool EXCEPT !.head = n, !.was = pool.paused, !.rate = f]
    BY <1>0, <1>1 DEF NextBlock
  <2> HIDE DEF f, Histories, n
  <2>4. /\ pool' \in [head : Nat, rate : Histories, paused : BOOLEAN, was : BOOLEAN, pauses : Nat]
        /\ pool'.head = n /\ pool'.rate = f
    BY <1>0, <2>1, <2>2, <2>3
  <2>5. PoolOK'  BY <2>1, <2>4 DEF PoolOK, Histories
  <2>6. pool.head <= n  BY <1>0 DEF n
  <2> QED BY <2>1, <2>4, <2>5, <2>6 DEF PoolGrows
<1>2. ASSUME NEW p \in BOOLEAN, SetPaused(p) PROVE PoolOK' /\ PoolGrows
  <2> DEFINE n == IF p THEN pool.pauses + 1 ELSE pool.pauses
  <2>1. pool' = [pool EXCEPT !.paused = p, !.pauses = n]  BY <1>2 DEF SetPaused
  <2>3. n \in Nat  BY <1>0
  <2> HIDE DEF Histories, n
  <2>2. /\ pool' \in [head : Nat, rate : Histories, paused : BOOLEAN, was : BOOLEAN, pauses : Nat]
        /\ pool'.head = pool.head /\ pool'.rate = pool.rate
    BY <1>0, <2>1, <2>3
  <2> QED BY <1>0, <2>2 DEF PoolOK, PoolGrows, Histories
<1>3. ASSUME UNCHANGED pool PROVE PoolOK' /\ PoolGrows
  BY <1>0, <1>3 DEF PoolOK, PoolGrows
<1> QED BY <1>1, <1>2, <1>3

(* What was worth something at its block still is. *)
LEMMA PastStays ==
    ASSUME PoolOK, PoolOK', PoolGrows
    PROVE  /\ \A a : AskOK(a) => AskOK(a)'
           /\ \A q : QuoteOK(q) => QuoteOK(q)'
           /\ \A p : PlanOK(p) => PlanOK(p)'
<1>0. pool.head \in Nat /\ pool'.head \in Nat /\ pool.head <= pool'.head
  BY DEF PoolOK, PoolGrows
<1>1. ASSUME NEW a, NEW b \in Nat, b <= pool.head PROVE OutAt(a, b)' = OutAt(a, b)
  BY <1>0, <1>1 DEF OutAt, RateAt, PoolGrows
<1>2. ASSUME NEW a, AskOK(a) PROVE AskOK(a)'
  <2>1. a \in AskRecords /\ a.block \in Nat /\ a.askedAt \in Nat  BY <1>2 DEF AskOK, AskRecords
  <2> QED BY <1>0, <1>1, <1>2, <2>1 DEF AskOK, Backed, Worth
<1>3. ASSUME NEW q, QuoteOK(q) PROVE QuoteOK(q)'
  <2>1. q \in QuoteRecords /\ q.block \in Nat  BY <1>3 DEF QuoteOK, QuoteRecords
  <2> QED BY <1>0, <1>1, <1>3, <2>1 DEF QuoteOK, Backed, Worth
<1>4. ASSUME NEW p, PlanOK(p) PROVE PlanOK(p)'
  <2>1. p \in Plans /\ p.quotedAt \in Nat  BY <1>4 DEF PlanOK, Plans
  <2> QED BY <1>0, <1>1, <1>4, <2>1 DEF PlanOK, ApplySlippage
<1> QED BY <1>2, <1>3, <1>4

(* What a step leaves alone stays in order. *)
LEMMA LeftAlone ==
    ASSUME SwapInv, PoolOK', PoolGrows
    PROVE  /\ UNCHANGED cache => CacheOK'
           /\ UNCHANGED asks => AsksOK'
           /\ UNCHANGED screen => SwapScreenOK'
           /\ UNCHANGED <<flow, swaps>> => FlowOK'
           /\ UNCHANGED <<swaps, stored>> => SwapsOK'
<1> USE DEF SwapInv
<1>0. /\ \A a : AskOK(a) => AskOK(a)'
      /\ \A q : QuoteOK(q) => QuoteOK(q)'
      /\ \A p : PlanOK(p) => PlanOK(p)'
  BY PastStays
<1>1. ASSUME UNCHANGED cache PROVE CacheOK'
  BY <1>1 DEF CacheOK, PoolGrows, PoolOK
<1>2. ASSUME UNCHANGED asks PROVE AsksOK'
  BY <1>0, <1>2 DEF AsksOK
<1>3. ASSUME UNCHANGED screen PROVE SwapScreenOK'
  <2>1. screen' = screen  BY <1>3
  <2>2. screen.quote # NoSwapQuote => QuoteOK(screen.quote)'
    <3> DEFINE q == screen.quote
    <3>1. ASSUME q # NoSwapQuote PROVE QuoteOK(q)  BY <3>1 DEF SwapScreenOK
    <3> QED BY <1>0, <2>1, <3>1 DEF QuoteOK, Backed, Worth
  <2> QED BY <2>1, <2>2 DEF SwapScreenOK
<1>4. ASSUME UNCHANGED <<flow, swaps>> PROVE FlowOK'
  <2>1. QuoteOK(flow.quote) => QuoteOK(flow.quote)'
    BY <1>0, <1>4 DEF QuoteOK, Backed, Worth
  <2>2. PlanOK(flow.plan) => PlanOK(flow.plan)'
    BY <1>0, <1>4 DEF PlanOK
  <2> QED BY <1>4, <2>1, <2>2 DEF FlowOK
<1>5. ASSUME UNCHANGED <<swaps, stored>> PROVE SwapsOK'
  BY <1>0, <1>5 DEF SwapsOK, StoredIsSwapped
<1> QED BY <1>1, <1>2, <1>3, <1>4, <1>5

-----------------------------------------------------------------------------
(* The quote service *)

LEMMA AskIsSet ==
    ASSUME SwapInv, UNCHANGED pool, NEW seq \in DOMAIN asks, NEW a, AskOK(a), SetAsk(seq, a)
    PROVE  AsksOK'
<1>1. asks' = [asks EXCEPT ![seq] = a]  BY DEF SetAsk
<1>2. asks = [s \in DOMAIN asks |-> asks[s]] /\ \A s \in DOMAIN asks : AskOK(asks[s])
  BY DEF SwapInv, AsksOK
<1>3. DOMAIN asks' = DOMAIN asks /\ asks' = [s \in DOMAIN asks |-> IF s = seq THEN a ELSE asks[s]]
  BY <1>1, <1>2
<1>4. ASSUME NEW s \in DOMAIN asks PROVE AskOK(asks'[s])
  BY <1>2, <1>3
<1>5. \A b : AskOK(b) => AskOK(b)'  BY DEF AskOK, Backed, Worth, OutAt, RateAt
<1> QED BY <1>3, <1>4, <1>5 DEF AsksOK

LEMMA SamePool ==
    ASSUME SwapInv, UNCHANGED pool
    PROVE  PoolOK' /\ PoolGrows
BY PoolSteps DEF SwapInv

(* The steps of a quote request. *)
QuoteStep(seq) == BeginQuorum(seq) \/ EndQuorum(seq) \/ PinBlock(seq) \/ LiveQuote(seq)

LEMMA QuoteStepKeeps ==
    ASSUME SwapInv, NEW seq \in DOMAIN asks, QuoteStep(seq)
    PROVE  SwapInv'
<1> DEFINE a == asks[seq]
<1>0. /\ AskOK(a) /\ a \in AskRecords /\ UNCHANGED <<pool, screen, flow, swaps, stored>>
      /\ pool.head \in Nat /\ PoolOK /\ CacheOK
  BY DEF SwapInv, AsksOK, AskOK, PoolOK, QuoteStep, BeginQuorum, EndQuorum, PinBlock, LiveQuote
<1>1. ASSUME AsksOK', CacheOK' PROVE SwapInv'
  BY <1>0, <1>1, SamePool, LeftAlone DEF SwapInv
<1>2. UNCHANGED cache => CacheOK'  BY <1>0, SamePool, LeftAlone
<1>3. ASSUME SetAsk(seq, [a EXCEPT !.at = "failed"]) PROVE AsksOK'
  <2> DEFINE b == [a EXCEPT !.at = "failed"]
  <2>1. b \in AskRecords /\ b.at = "failed"  BY <1>0 DEF AskRecords
  <2> HIDE DEF b
  <2>2. AskOK(b)  BY <2>1 DEF AskOK
  <2> QED BY <1>0, <1>3, <2>2, AskIsSet DEF b
<1>4. CASE BeginQuorum(seq)
  <2>1. CASE Cached(pool.head)
    <3> DEFINE b == [a EXCEPT !.at = "quote", !.quorumAt = cache.readAt, !.askedAt = pool.head]
    <3>1. /\ cache.at \in Nat /\ cache.readAt \in Nat /\ cache.at <= cache.readAt
          /\ pool.head < cache.at + QuorumTtl
      BY <1>0, <2>1 DEF Cached, CacheOK
    <3>2. b \in AskRecords /\ b.at = "quote" /\ b.quorumAt = cache.readAt /\ b.askedAt = pool.head
      BY <1>0, <3>1 DEF AskRecords
    <3> HIDE DEF b
    <3>3. AskOK(b)  BY <1>0, <3>1, <3>2, SwapScale DEF AskOK, Backed
    <3>4. SetAsk(seq, b) /\ UNCHANGED cache  BY <1>4, <2>1 DEF BeginQuorum, Ask, b
    <3> QED BY <1>0, <1>1, <1>2, <3>3, <3>4, AskIsSet
  <2>2. CASE ~Cached(pool.head)
    <3>1. PICK p \in PausedSeen :
            SetAsk(seq, [a EXCEPT !.at = "second", !.first = p, !.askedAt = pool.head])
      BY <1>4, <2>2 DEF BeginQuorum, Ask
    <3>2. p \in BOOLEAN  BY <1>0 DEF PausedSeen, PoolOK
    <3> DEFINE b == [a EXCEPT !.at = "second", !.first = p, !.askedAt = pool.head]
    <3>3. b \in AskRecords /\ b.at = "second" /\ b.askedAt = pool.head
      BY <1>0, <3>2 DEF AskRecords
    <3> HIDE DEF b
    <3>4. AskOK(b)  BY <1>0, <3>3 DEF AskOK
    <3>5. SetAsk(seq, b) /\ UNCHANGED cache  BY <1>4, <3>1 DEF BeginQuorum, b
    <3> QED BY <1>0, <1>1, <1>2, <3>4, <3>5, AskIsSet
  <2> QED BY <2>1, <2>2
<1>5. CASE EndQuorum(seq)
  <2>1. a.at = "second" /\ a.askedAt <= pool.head /\ a.askedAt \in Nat
    BY <1>0, <1>5 DEF EndQuorum, Ask, AskOK, AskRecords
  <2> DEFINE b == [a EXCEPT !.at = "quote", !.quorumAt = pool.head]
  <2>2. b \in AskRecords /\ b.at = "quote" /\ b.quorumAt = pool.head /\ b.askedAt = a.askedAt
    BY <1>0 DEF AskRecords
  <2>3. \/ cache' = [at |-> a.askedAt, readAt |-> pool.head] /\ SetAsk(seq, b)
        \/ SetAsk(seq, [a EXCEPT !.at = "failed"]) /\ UNCHANGED cache
    BY <1>5 DEF EndQuorum, Ask
  <2> HIDE DEF b
  <2>4. AskOK(b)  BY <1>0, <2>1, <2>2, SwapScale DEF AskOK, Backed
  <2>5. ASSUME cache' = [at |-> a.askedAt, readAt |-> pool.head] PROVE CacheOK'
    BY <1>0, <2>1, <2>5 DEF CacheOK
  <2> QED BY <1>0, <1>1, <1>2, <1>3, <2>3, <2>4, <2>5, AskIsSet
<1>6. CASE PinBlock(seq)
  <2> DEFINE b == [a EXCEPT !.at = "pinned", !.block = pool.head]
  <2>1. a.at = "quote" /\ UNCHANGED cache  BY <1>6 DEF PinBlock, Ask
  <2>2. SetAsk(seq, b)  BY <1>6 DEF PinBlock, Ask
  <2>3. /\ b \in AskRecords /\ b.at = "pinned" /\ b.block = pool.head
        /\ b.quorumAt = a.quorumAt /\ b.askedAt = a.askedAt
    BY <1>0 DEF AskRecords
  <2> HIDE DEF b
  <2>4. AskOK(b)  BY <1>0, <2>1, <2>3 DEF AskOK, Backed
  <2> QED BY <1>0, <1>1, <1>2, <2>1, <2>2, <2>4, AskIsSet
<1>7. CASE LiveQuote(seq)
  <2> DEFINE out == OutAt(a.key.amount, a.block)
             b == [a EXCEPT !.at = "answered", !.quotedAt = pool.head, !.out = out]
  <2>1. a.at = "pinned" /\ UNCHANGED cache  BY <1>7 DEF LiveQuote, Ask
  <2>2. SetAsk(seq, b) \/ SetAsk(seq, [a EXCEPT !.at = "failed"])
    BY <1>7 DEF LiveQuote, Ask, QuotedBlock
  <2>3. a.block \in 0 .. pool.head /\ a.key.amount \in Nat
    BY <1>0, <2>1, SwapScale DEF AskOK, AskRecords, SwapKeys
  <2>4. out \in Nat  BY <1>0, <2>3, OutIsNatural
  <2>5. /\ b \in AskRecords /\ b.at = "answered" /\ b.block = a.block /\ b.out = out
        /\ b.quorumAt = a.quorumAt /\ b.askedAt = a.askedAt /\ b.key = a.key
    BY <1>0, <2>4 DEF AskRecords
  <2> HIDE DEF b
  <2>6. AskOK(b)  BY <1>0, <2>1, <2>5 DEF AskOK, Backed, Worth
  <2> QED BY <1>0, <1>1, <1>2, <1>3, <2>1, <2>2, <2>6, AskIsSet
<1> QED BY <1>4, <1>5, <1>6, <1>7 DEF QuoteStep

-----------------------------------------------------------------------------
(* The screen *)

LEMMA TakeAnswerKeeps ==
    ASSUME SwapInv, NEW seq \in DOMAIN asks, TakeAnswer(seq)
    PROVE  SwapInv'
<1> DEFINE a == asks[seq]
           q == [key |-> a.key, out |-> a.out, block |-> a.block, quotedAt |-> a.quotedAt,
                 quorumAt |-> a.quorumAt, askedAt |-> a.askedAt]
<1>0. /\ AskOK(a) /\ a \in AskRecords /\ UNCHANGED <<pool, cache, flow, swaps, stored>>
      /\ asks' = [s \in DOMAIN asks \ {seq} |-> asks[s]]
      /\ \A s \in DOMAIN asks : AskOK(asks[s])
  BY DEF SwapInv, AsksOK, AskOK, TakeAnswer, DropAsk
<1>1. AsksOK'
  <2>1. \A b : AskOK(b) => AskOK(b)'  BY <1>0 DEF AskOK, Backed, Worth, OutAt, RateAt
  <2> QED BY <1>0, <2>1 DEF AsksOK
<1>2. SwapScreenOK'
  <2>1. CASE screen' = screen  BY <1>0, <2>1, SamePool, LeftAlone
  <2>2. CASE screen' = [screen EXCEPT !.status = "idle"]
    <3>1. screen'.quote = screen.quote  BY <2>2 DEF SwapInv, SwapScreenOK
    <3> QED BY <1>0, <2>2, <3>1 DEF SwapInv, SwapScreenOK, QuoteOK, Backed, Worth, OutAt, RateAt
  <2>3. CASE a.at = "answered" /\ screen' = [screen EXCEPT !.status = "idle", !.quote = q]
    <3>1. /\ q \in QuoteRecords /\ q.key = a.key /\ q.out = a.out /\ q.block = a.block
          /\ q.quorumAt = a.quorumAt /\ q.askedAt = a.askedAt
      BY <1>0 DEF AskRecords, QuoteRecords
    <3> HIDE DEF q
    <3>2. QuoteOK(q)  BY <1>0, <2>3, <3>1 DEF AskOK, QuoteOK, Backed, Worth
    <3>3. screen'.quote = q /\ screen' \in [key : SwapKeys \cup {NoQuoteKey}, seq : Nat,
                   quote : QuoteRecords \cup {NoSwapQuote},
                   status : {"idle", "quoting", "preparing", "signing", "confirming"}]
      BY <2>3, <3>1 DEF SwapInv, SwapScreenOK
    <3> QED BY <1>0, <3>2, <3>3 DEF SwapScreenOK, QuoteOK, Backed, Worth, OutAt, RateAt
  <2> QED BY <2>1, <2>2, <2>3 DEF TakeAnswer, Ask
<1> QED BY <1>0, <1>1, <1>2, SamePool, LeftAlone DEF SwapInv

LEMMA ChangeInputsKeeps ==
    ASSUME SwapInv, NEW key \in SwapKeys \cup {NoQuoteKey}, ChangeInputs(key)
    PROVE  SwapInv'
<1>0. UNCHANGED <<pool, cache, flow, swaps, stored>>  BY DEF ChangeInputs
<1>5. \A b : AskOK(b) => AskOK(b)'  BY <1>0 DEF AskOK, Backed, Worth, OutAt, RateAt
<1>6. \A s \in DOMAIN asks : AskOK(asks[s])  BY DEF SwapInv, AsksOK
<1>1. AsksOK'
  <2>1. CASE UNCHANGED asks  BY <1>0, <2>1, SamePool, LeftAlone
  <2>2. CASE asks' = [s \in {} |-> {}]  BY <2>2 DEF AsksOK
  <2>3. CASE key # NoQuoteKey
    <3> DEFINE a == [key |-> key, at |-> "sent", first |-> FALSE, out |-> 0,
                     block |-> 0, quotedAt |-> 0, quorumAt |-> 0, askedAt |-> 0]
    <3>1. PICK kept \in SUBSET DOMAIN asks :
            asks' = [s \in kept \cup {screen.seq + 1} |-> IF s \in kept THEN asks[s] ELSE a]
      BY <2>3 DEF ChangeInputs
    <3>2. a \in AskRecords /\ a.at = "sent"  BY <2>3 DEF AskRecords
    <3> HIDE DEF a
    <3>3. AskOK(a)  BY <3>2 DEF AskOK
    <3> QED BY <1>5, <1>6, <3>1, <3>3 DEF AsksOK
  <2> QED BY <2>1, <2>2, <2>3 DEF ChangeInputs
<1>2. SwapScreenOK'
  <2>1. \/ screen' = [screen EXCEPT !.key = key, !.quote = NoSwapQuote]
        \/ screen' = [screen EXCEPT !.key = key, !.quote = NoSwapQuote, !.seq = @ + 1,
                                    !.status = "quoting"]
    BY DEF ChangeInputs
  <2>2. /\ screen \in [key : SwapKeys \cup {NoQuoteKey}, seq : Nat,
                       quote : QuoteRecords \cup {NoSwapQuote},
                       status : {"idle", "quoting", "preparing", "signing", "confirming"}]
        /\ screen.seq + 1 \in Nat
    BY DEF SwapInv, SwapScreenOK
  <2> DEFINE n == screen.seq + 1
             screens == [key : SwapKeys \cup {NoQuoteKey}, seq : Nat,
                         quote : QuoteRecords \cup {NoSwapQuote},
                         status : {"idle", "quoting", "preparing", "signing", "confirming"}]
  <2>3. CASE screen' = [screen EXCEPT !.key = key, !.quote = NoSwapQuote]
    <3>1. screen' \in screens /\ screen'.quote = NoSwapQuote  BY <2>2, <2>3
    <3> QED BY <3>1 DEF SwapScreenOK
  <2>4. CASE screen' = [screen EXCEPT !.key = key, !.quote = NoSwapQuote, !.seq = @ + 1,
                                      !.status = "quoting"]
    <3>1. screen' = [screen EXCEPT !.key = key, !.quote = NoSwapQuote, !.seq = n,
                                   !.status = "quoting"]
      BY <2>2, <2>4
    <3>2. n \in Nat  BY <2>2
    <3> HIDE DEF n
    <3>3. screen' \in screens /\ screen'.quote = NoSwapQuote  BY <2>2, <3>1, <3>2
    <3> QED BY <3>3 DEF SwapScreenOK
  <2> QED BY <2>1, <2>3, <2>4
<1> QED BY <1>0, <1>1, <1>2, SamePool, LeftAlone DEF SwapInv

(* A status is all that a swap changes on the screen. *)
LEMMA StatusIsQuiet ==
    ASSUME SwapInv, UNCHANGED pool,
           NEW status \in {"idle", "quoting", "preparing", "signing", "confirming"},
           screen' = [screen EXCEPT !.status = status]
    PROVE  SwapScreenOK'
<1>1. screen'.quote = screen.quote  BY DEF SwapInv, SwapScreenOK
<1> QED BY <1>1 DEF SwapInv, SwapScreenOK, QuoteOK, Backed, Worth, OutAt, RateAt

LEMMA FinishKeeps ==
    ASSUME SwapInv, UNCHANGED <<pool, cache, asks>>, Finish, SwapsOK'
    PROVE  SwapInv'
<1>1. SwapScreenOK'  BY StatusIsQuiet DEF Finish
<1>2. FlowOK'  BY DEF Finish, FlowOK
<1> QED BY <1>1, <1>2, SamePool, LeftAlone DEF SwapInv

(* A step of handleSwap that sends nothing. *)
LEMMA FlowKeeps ==
    ASSUME SwapInv, UNCHANGED <<pool, cache, asks, swaps, stored>>, FlowOK',
           screen' = screen \/ \E status \in {"preparing", "signing"} :
                                  screen' = [screen EXCEPT !.status = status]
    PROVE  SwapInv'
<1>1. SwapScreenOK'  BY StatusIsQuiet, SamePool, LeftAlone
<1> QED BY <1>1, SamePool, LeftAlone DEF SwapInv

LEMMA QuotesAreStable ==
    ASSUME UNCHANGED pool
    PROVE  (\A q : QuoteOK(q) => QuoteOK(q)') /\ (\A p : PlanOK(p) => PlanOK(p)')
BY DEF QuoteOK, PlanOK, Backed, Worth, OutAt, RateAt, ApplySlippage

LEMMA ClickKeeps ==
    ASSUME SwapInv, Click
    PROVE  SwapInv'
<1>1. QuoteOK(screen.quote) /\ screen.quote \in QuoteRecords
  BY DEF SwapInv, SwapScreenOK, Click, SwapQuoteCurrent, QuoteOK
<1>2. /\ flow' = [phase |-> "auth", quote |-> screen.quote]
      /\ UNCHANGED <<pool, cache, asks, swaps, stored>>
      /\ screen' = [screen EXCEPT !.status = "preparing"]
  BY DEF Click
<1>3. QuoteOK(flow'.quote)  BY <1>1, <1>2
<1>4. FlowOK'
  <2>1. flow' \in [phase : {"auth"}, quote : QuoteRecords]  BY <1>1, <1>2
  <2>2. QuoteOK(flow.quote)'  BY <1>2, <1>3 DEF QuoteOK, Backed, Worth, OutAt, RateAt
  <2> QED BY <2>1, <2>2 DEF FlowOK
<1> QED BY <1>2, <1>4, FlowKeeps

LEMMA AuthenticateKeeps ==
    ASSUME SwapInv, AuthenticateSwap
    PROVE  SwapInv'
<1>0. UNCHANGED <<pool, cache, asks, swaps, stored>>  BY DEF AuthenticateSwap
<1>1. CASE Finish  BY <1>0, <1>1, FinishKeeps, SamePool, LeftAlone
<1>2. CASE ~Finish
  <2>1. flow \in [phase : {"auth"}, quote : QuoteRecords] /\ QuoteOK(flow.quote)
    BY DEF SwapInv, FlowOK, NoFlow, AuthenticateSwap
  <2> DEFINE d == pool.head + DeadlineAfter
  <2>2. d \in Nat  BY SwapAssumption DEF SwapInv, PoolOK
  <2>3. flow' = [phase |-> "prepare", quote |-> flow.quote, deadline |-> d] /\ UNCHANGED screen
    BY <1>2 DEF AuthenticateSwap
  <2> HIDE DEF d
  <2>4. FlowOK'
    <3>1. flow' \in [phase : {"prepare"}, quote : QuoteRecords, deadline : Nat]
      BY <2>1, <2>2, <2>3
    <3>2. flow'.quote = flow.quote  BY <2>3
    <3>3. QuoteOK(flow.quote)'
      BY <1>0, <2>1, <3>2 DEF QuoteOK, Backed, Worth, OutAt, RateAt
    <3> QED BY <3>1, <3>3 DEF FlowOK
  <2> QED BY <1>0, <2>3, <2>4, FlowKeeps
<1> QED BY <1>1, <1>2

(* The plan takes its minimum from the quote. *)
LEMMA PrepareSwapKeeps ==
    ASSUME SwapInv, Prepare
    PROVE  SwapInv'
<1>0. UNCHANGED <<pool, cache, asks, swaps, stored>>  BY DEF Prepare
<1>1. CASE Finish  BY <1>0, <1>1, FinishKeeps, SamePool, LeftAlone
<1>2. CASE ~Finish
  <2> DEFINE q == flow.quote
             p == SwapPlan(q, flow.deadline)
             phase == IF NeedsApproval(q) THEN "approve" ELSE "sign"
  <2>1. flow.deadline \in Nat /\ q \in QuoteRecords /\ QuoteOK(q)
    BY DEF SwapInv, FlowOK, NoFlow, Prepare
  <2>2. q.block \in Nat /\ q.key.amount \in Nat /\ q.out \in Nat
    BY <2>1, SwapScale DEF QuoteRecords, SwapKeys
  <2>3. PlanOK(p)
    <3>1. ApplySlippage(q.out) \in Nat  BY <2>2, SlippageIsNatural
    <3>2. /\ p \in Plans /\ p.quotedAt = q.block /\ p.amount = q.key.amount
          /\ p.min = ApplySlippage(q.out)
      BY <2>1, <2>2, <3>1 DEF SwapPlan, Plans
    <3> QED BY <2>1, <3>2 DEF PlanOK, QuoteOK, Worth
  <2>4. /\ flow' = [phase |-> phase, quote |-> q, plan |-> p]
        /\ screen' = [screen EXCEPT !.status = "signing"]
        /\ phase \in {"approve", "sign"}
    BY <1>2 DEF Prepare
  <2> HIDE DEF p, q, phase
  <2>5. FlowOK'
    <3>1. p \in Plans  BY <2>3 DEF PlanOK
    <3>2. flow' \in [phase : {"approve", "sign"}, quote : QuoteRecords, plan : Plans]
          /\ flow'.plan = p
      BY <2>1, <2>4, <3>1
    <3>3. PlanOK(flow.plan)'
      BY <1>0, <2>3, <3>2 DEF PlanOK, OutAt, RateAt
    <3> QED BY <3>2, <3>3 DEF FlowOK
  <2> QED BY <1>0, <2>4, <2>5, FlowKeeps
<1> QED BY <1>1, <1>2

LEMMA ApproveKeeps ==
    ASSUME SwapInv, ApproveInput
    PROVE  SwapInv'
<1>0. UNCHANGED <<pool, cache, asks, swaps, stored>>  BY DEF ApproveInput
<1>1. CASE Finish  BY <1>0, <1>1, FinishKeeps, SamePool, LeftAlone
<1>2. CASE ~Finish
  <2>1. flow \in [phase : {"approve", "sign"}, quote : QuoteRecords, plan : Plans] /\ PlanOK(flow.plan)
    BY DEF SwapInv, FlowOK, NoFlow, ApproveInput
  <2>2. flow' = [flow EXCEPT !.phase = "sign"] /\ UNCHANGED screen
    BY <1>2 DEF ApproveInput
  <2>3. flow' \in [phase : {"approve", "sign"}, quote : QuoteRecords, plan : Plans]
        /\ flow'.plan = flow.plan
    BY <2>1, <2>2
  <2>4. PlanOK(flow.plan)'  BY <1>0, <2>1, <2>3 DEF PlanOK, OutAt, RateAt
  <2>5. FlowOK'  BY <2>3, <2>4 DEF FlowOK
  <2> QED BY <1>0, <2>2, <2>5, FlowKeeps
<1> QED BY <1>1, <1>2

-----------------------------------------------------------------------------
(* The swaps *)

(* The swap that is signed carries the plan of its quote. *)
LEMMA SignSwapKeeps ==
    ASSUME SwapInv, Sign
    PROVE  SwapInv'
<1>0. UNCHANGED <<pool, cache, asks, stored>>  BY DEF Sign
<1>1. CASE Finish /\ UNCHANGED swaps  BY <1>0, <1>1, FinishKeeps, SamePool, LeftAlone
<1>2. CASE ~(Finish /\ UNCHANGED swaps)
  <2> DEFINE t == [call |-> flow.plan, state |-> "pending", received |-> 0]
             n == Len(swaps) + 1
  <2>1. PlanOK(flow.plan)
    BY DEF SwapInv, FlowOK, NoFlow, Sign
  <2>2. /\ swaps' = Append(swaps, t) /\ flow' = [phase |-> "wait", tx |-> n]
        /\ screen' = [screen EXCEPT !.status = "confirming"]
    BY <1>2 DEF Sign
  <2>3. t \in SwapRecords /\ t.call = flow.plan  BY <2>1 DEF SwapRecords, PlanOK
  <2> HIDE DEF t
  <2>4. /\ swaps \in Seq(SwapRecords) /\ \A i \in DOMAIN swaps : PlanOK(swaps[i].call)
        /\ stored \subseteq DOMAIN swaps /\ StoredIsSwapped
    BY DEF SwapInv, SwapsOK
  <2>5. /\ swaps' \in Seq(SwapRecords) /\ DOMAIN swaps' = DOMAIN swaps \cup {n}
        /\ \A i \in DOMAIN swaps : swaps'[i] = swaps[i]
        /\ swaps'[n] = t
    BY <2>2, <2>3, <2>4
  <2> HIDE DEF n
  <2>6. ASSUME NEW i \in DOMAIN swaps' PROVE PlanOK(swaps'[i].call)
    BY <2>1, <2>3, <2>4, <2>5
  <2>8. SwapsOK'
    <3>1. (\A i \in DOMAIN swaps : PlanOK(swaps[i].call))'
      BY <1>0, <2>6 DEF PlanOK, OutAt, RateAt
    <3>2. StoredIsSwapped'  BY <1>0, <2>4, <2>5 DEF StoredIsSwapped
    <3> QED BY <1>0, <2>4, <2>5, <3>1, <3>2 DEF SwapsOK
  <2>9. FlowOK'  BY <2>2, <2>5 DEF FlowOK
  <2> QED BY <1>0, <2>2, <2>8, <2>9, StatusIsQuiet, SamePool, LeftAlone DEF SwapInv
<1> QED BY <1>1, <1>2

(* A pending swap is not a stored one. *)
LEMMA MineSwapKeeps ==
    ASSUME SwapInv, NEW i \in DOMAIN swaps, MineSwap(i)
    PROVE  SwapInv'
<1> DEFINE t == swaps[i]
           state == IF Executes(t) THEN "success" ELSE "reverted"
           received == IF Executes(t) THEN OutAt(Net(t.call.amount), pool.head) ELSE 0
           new == [t EXCEPT !.state = state, !.received = received]
<1>0. /\ UNCHANGED <<pool, cache, screen, asks, flow, stored>> /\ t.state = "pending"
      /\ swaps' = [swaps EXCEPT ![i] = new]
  BY DEF MineSwap
<1>1. /\ swaps \in Seq(SwapRecords) /\ \A k \in DOMAIN swaps : PlanOK(swaps[k].call)
      /\ stored \subseteq DOMAIN swaps /\ StoredIsSwapped /\ t \in SwapRecords
  BY DEF SwapInv, SwapsOK
<1>2. received \in Int
  <2>1. t.call.amount \in Nat  BY <1>1 DEF SwapRecords, Plans
  <2>2. Net(t.call.amount) \in Int  BY <2>1, NetIsInteger
  <2>3. pool.head \in 0 .. pool.head /\ PoolOK  BY DEF SwapInv, PoolOK
  <2>4. OutAt(Net(t.call.amount), pool.head) \in Int  BY <2>2, <2>3, OutIsNatural
  <2> QED BY <2>4
<1>3. state \in {"pending", "success", "reverted"}  OBVIOUS
<1> HIDE DEF t, state, received
<1>4. new \in SwapRecords /\ new.call = t.call  BY <1>1, <1>2, <1>3 DEF SwapRecords
<1> HIDE DEF new
<1>5. /\ swaps' \in Seq(SwapRecords) /\ DOMAIN swaps' = DOMAIN swaps
      /\ swaps'[i] = new /\ \A k \in DOMAIN swaps : k # i => swaps'[k] = swaps[k]
  BY <1>0, <1>1, <1>4
<1>6. ASSUME NEW k \in DOMAIN swaps PROVE swaps'[k].call = swaps[k].call
  BY <1>4, <1>5 DEF t
<1>7. i \notin stored  BY <1>0, <1>1 DEF StoredIsSwapped, t
<1>8. SwapsOK'
  <2>1. StoredIsSwapped'  BY <1>0, <1>1, <1>5, <1>7 DEF StoredIsSwapped
  <2>3. (\A k \in DOMAIN swaps : PlanOK(swaps[k].call))'
    BY <1>0, <1>1, <1>5, <1>6 DEF PlanOK, OutAt, RateAt
  <2> QED BY <1>0, <1>1, <1>5, <2>1, <2>3 DEF SwapsOK
<1>9. FlowOK'
  <2>1. \A q : QuoteOK(q) => QuoteOK(q)'  BY <1>0, QuotesAreStable
  <2>2. \A p : PlanOK(p) => PlanOK(p)'  BY <1>0, QuotesAreStable
  <2>3. QuoteOK(flow.quote) => QuoteOK(flow.quote)'
    BY <1>0, <2>1 DEF QuoteOK, Backed, Worth, OutAt, RateAt
  <2>4. PlanOK(flow.plan) => PlanOK(flow.plan)'
    BY <1>0, <2>2 DEF PlanOK, OutAt, RateAt
  <2> QED BY <1>0, <1>5, <2>3, <2>4 DEF SwapInv, FlowOK
<1> QED BY <1>0, <1>8, <1>9, SamePool, LeftAlone DEF SwapInv

LEMMA SeeReceiptKeeps ==
    ASSUME SwapInv, SeeReceipt
    PROVE  SwapInv'
<1>0. UNCHANGED <<pool, cache, asks, swaps, stored>>  BY DEF SeeReceipt
<1>1. CASE Finish  BY <1>0, <1>1, FinishKeeps, SamePool, LeftAlone
<1>2. CASE ~Finish
  <2>1. flow \in [phase : {"wait", "confirm"}, tx : DOMAIN swaps]
    BY DEF SwapInv, FlowOK, NoFlow, SeeReceipt
  <2>2. flow' = [flow EXCEPT !.phase = "confirm"] /\ UNCHANGED screen
    BY <1>2 DEF SeeReceipt
  <2>3. flow' \in [phase : {"wait", "confirm"}, tx : DOMAIN swaps]  BY <2>1, <2>2
  <2>4. FlowOK'  BY <1>0, <2>3 DEF FlowOK
  <2> QED BY <1>0, <2>2, <2>4, FlowKeeps
<1> QED BY <1>1, <1>2

(* Only what the receipt proves is stored. *)
LEMMA StoringKeeps ==
    ASSUME SwapInv, UNCHANGED <<pool, swaps>>, NEW i \in DOMAIN swaps,
           VerifySwapReceipt(swaps[i]), stored' = stored \cup {i}
    PROVE  SwapsOK'
<1>1. \A p : PlanOK(p) => PlanOK(p)'  BY QuotesAreStable
<1> QED BY <1>1 DEF SwapInv, SwapsOK, StoredIsSwapped, VerifySwapReceipt

LEMMA ConfirmKeeps ==
    ASSUME SwapInv, \/ Confirm
                    \/ \E i \in DOMAIN swaps : ConfirmOther(i)
    PROVE  SwapInv'
<1>1. CASE Confirm
  <2>1. flow.tx \in DOMAIN swaps
    BY <1>1 DEF SwapInv, FlowOK, NoFlow, Confirm
  <2>2. SwapsOK'
    <3>1. CASE UNCHANGED stored  BY <1>1, <3>1, SamePool, LeftAlone DEF Confirm
    <3>2. CASE VerifySwapReceipt(swaps[flow.tx]) /\ stored' = stored \cup {flow.tx}
      BY <1>1, <2>1, <3>2, StoringKeeps DEF Confirm
    <3> QED BY <1>1, <3>1, <3>2 DEF Confirm
  <2> QED BY <1>1, <2>2, FinishKeeps DEF Confirm
<1>2. ASSUME NEW i \in DOMAIN swaps, ConfirmOther(i) PROVE SwapInv'
  <2>1. SwapsOK'  BY <1>2, StoringKeeps DEF ConfirmOther
  <2> QED BY <1>2, <2>1, SamePool, LeftAlone DEF SwapInv, ConfirmOther
<1> QED BY <1>1, <1>2

LEMMA SwapStarts == SwapInit => SwapInv
<1> SUFFICES ASSUME SwapInit PROVE SwapInv  OBVIOUS
<1>1. PoolOK
  <2> DEFINE Histories == UNION {[0 .. n -> Rates] : n \in Nat}
             First == [0 .. 0 -> Rates]
  <2>1. pool \in [head : {0}, rate : First, paused : {FALSE}, was : {FALSE}, pauses : {0}]
    <3>1. 0 .. 0 = {0}  OBVIOUS
    <3> QED BY <3>1 DEF SwapInit
  <2>2. First \subseteq Histories  OBVIOUS
  <2> HIDE DEF Histories, First
  <2>3. pool.rate \in First /\ pool.head = 0  BY <2>1
  <2>4. pool \in [head : Nat, rate : Histories, paused : BOOLEAN, was : BOOLEAN, pauses : Nat]
    <3>1. PICK r \in First : pool = [head |-> 0, rate |-> r, paused |-> FALSE, was |-> FALSE,
                                     pauses |-> 0]
      BY <2>1
    <3>2. r \in Histories /\ 0 \in Nat /\ FALSE \in BOOLEAN  BY <2>2
    <3> QED BY <3>1, <3>2
  <2> QED BY <2>3, <2>4 DEF PoolOK, Histories, First
<1>2. CacheOK /\ FlowOK  BY DEF SwapInit, CacheOK, FlowOK
<1>3. AsksOK  BY DEF SwapInit, AsksOK
<1>4. SwapScreenOK  BY DEF SwapInit, SwapScreenOK
<1>5. SwapsOK  BY DEF SwapInit, SwapsOK, StoredIsSwapped
<1> QED BY <1>1, <1>2, <1>3, <1>4, <1>5 DEF SwapInv

LEMMA SwapStepKeeps ==
    ASSUME SwapInv, [SwapNext]_swapVars
    PROVE  SwapInv'
<1>1. CASE \/ \E r \in Rates : NextBlock(r)
           \/ \E p \in BOOLEAN : SetPaused(p)
  BY <1>1, PoolSteps, LeftAlone DEF SwapInv, NextBlock, SetPaused
<1>2. CASE UNCHANGED swapVars
  BY <1>2, SamePool, LeftAlone DEF SwapInv, swapVars
<1> QED BY <1>1, <1>2, ChangeInputsKeeps, QuoteStepKeeps, TakeAnswerKeeps, ClickKeeps,
          AuthenticateKeeps, PrepareSwapKeeps, ApproveKeeps, SignSwapKeeps, MineSwapKeeps,
          SeeReceiptKeeps, ConfirmKeeps
      DEF SwapNext, QuoteStep

(* Whatever the amounts, rates and slippage, and however blocks, pauses and *)
(* requests interleave: the quote shown is backed by two endpoints that     *)
(* agreed less than QUORUM_CACHE_MS before it was asked, the minimum a swap *)
(* is signed with is its own amount at the quoted block less the slippage,  *)
(* and what is stored paid the wallet that minimum.                         *)
THEOREM SwapIsAsQuoted == SwapSpec => []SwapAsQuoted
<1>1. SwapInv => SwapAsQuoted
  BY DEF SwapInv, SwapScreenOK, SwapsOK, SwapAsQuoted, QuoteBackedByQuorum, SignedAsQuoted,
         QuoteOK, Backed, PlanOK
<1> QED BY <1>1, SwapStarts, SwapStepKeeps, PTL DEF SwapSpec

-----------------------------------------------------------------------------
(* The activity feed.  Overlapping synchronisations. *)
LEMMA AtMostOne ==
  ASSUME NEW S, NEW x, S \subseteq {x} PROVE Cardinality(S) <= 1
<1>1. IsFiniteSet({x}) /\ Cardinality({x}) = 1  BY FS_Singleton
<1>2. IsFiniteSet(S) /\ Cardinality(S) <= Cardinality({x})  BY <1>1, FS_Subset
<1>3. Cardinality(S) \in Nat  BY <1>2, FS_CardinalityType
<1> QED  BY <1>1, <1>2, <1>3

(* A flight whose lease has not expired is the holder's: whoever claims has *)
(* read a clock at which the lease before was over.                         *)
Live(p) == flight[p].at \in {"project", "upsert"} /\ flight[p].until > syncTime

LeaseInv ==
  /\ syncTime \in Nat /\ syncState.until \in Nat
  /\ \A p \in Replicas : flight[p].now \in 0 .. syncTime /\ flight[p].until \in Nat
  /\ \A p \in Replicas : Live(p) => syncState.holder = p /\ syncState.until = flight[p].until

\* The records are those of the model.
FlightIs(f) == f = [at |-> f.at, now |-> f.now, until |-> f.until, snap |-> f.snap, todo |-> f.todo]
SyncShape ==
  /\ flight = [p \in Replicas |-> flight[p]] /\ \A p \in Replicas : FlightIs(flight[p])
  /\ syncState = [holder |-> syncState.holder, until |-> syncState.until, next |-> syncState.next]

(* A row shows, of the records whose key does not depend on the others,     *)
(* those whose key is its own.                                              *)
Fixed(s) == s.run # "" \/ s.kind # "payroll"

RowsInv ==
  /\ \A r, q \in activity : r.key = q.key => r = q
  /\ \A r \in activity : \A s \in r.records : Fixed(s) => r.key = KeyOf(s, {})

LEMMA FixedKey ==
  ASSUME NEW s, Fixed(s), NEW all PROVE KeyOf(s, all) = KeyOf(s, {})
BY DEF Fixed, KeyOf, RunReference

LEMMA UpsertKeepsRows ==
  ASSUME RowsInv, NEW p \in Replicas, NEW k, UpsertActivity(p, k) PROVE RowsInv'
<1>1. PICK row : row = [key |-> k, records |-> {s \in flight[p].snap : KeyOf(s, flight[p].snap) = k}]
  OBVIOUS
<1>2. activity' = {r \in activity : r.key # k} \cup {row}  BY <1>1 DEF UpsertActivity
<1>3. row.key = k /\ \A s \in row.records : Fixed(s) => k = KeyOf(s, {})  BY <1>1, FixedKey
<1> QED  BY <1>2, <1>3 DEF RowsInv

(* One flight changes, and the state row or the clock perhaps.              *)
LEMMA LeaseGoesOn ==
  ASSUME LeaseInv, SyncShape, NEW p \in Replicas, syncTime' = syncTime,
         flight' = [flight EXCEPT ![p] = flight'[p]],
         FlightIs(flight'[p]),
         syncState' = [holder |-> syncState'.holder, until |-> syncState'.until, next |-> syncState'.next],
         flight'[p].now \in 0 .. syncTime, flight'[p].until \in Nat, syncState'.until \in Nat,
         Live(p)' => syncState'.holder = p /\ syncState'.until = flight'[p].until,
         \A q \in Replicas \ {p} : Live(q) => syncState'.holder = q /\ syncState'.until = flight[q].until
  PROVE  LeaseInv' /\ SyncShape'
<1>1. \A q \in Replicas \ {p} : flight'[q] = flight[q]  BY DEF SyncShape
<1>2. SyncShape'
  <2>1. flight' = [q \in Replicas |-> flight'[q]]  BY DEF SyncShape
  <2>2. ASSUME NEW q \in Replicas
        PROVE  FlightIs(flight'[q])
    BY <1>1 DEF SyncShape
  <2> QED  BY <2>1, <2>2 DEF SyncShape, FlightIs
<1>3. \A q \in Replicas : flight'[q].now \in 0 .. syncTime /\ flight'[q].until \in Nat
  BY <1>1 DEF LeaseInv
<1>4. ASSUME NEW q \in Replicas, Live(q)'
      PROVE  syncState'.holder = q /\ syncState'.until = flight'[q].until
  BY <1>1, <1>4 DEF Live
<1> QED  BY <1>2, <1>3, <1>4 DEF LeaseInv

LEMMA Leased ==
  ASSUME NEW f, FlightIs(f), NEW a, NEW b, NEW g, g = [f EXCEPT !.at = a, !.until = b]
  PROVE  g = [at |-> a, now |-> f.now, until |-> b, snap |-> f.snap, todo |-> f.todo]
<1>1. PICK now, until, at, snap, todo :
        f = [at |-> at, now |-> now, until |-> until, snap |-> snap, todo |-> todo]
  BY DEF FlightIs
<1>2. g = [at |-> a, now |-> now, until |-> b, snap |-> snap, todo |-> todo]  BY <1>1
<1> QED  BY <1>1, <1>2

LEMMA Projected ==
  ASSUME NEW f, FlightIs(f), NEW a, NEW b, NEW c, NEW g,
         g = [f EXCEPT !.at = a, !.snap = b, !.todo = c]
  PROVE  g = [at |-> a, now |-> f.now, until |-> f.until, snap |-> b, todo |-> c]
<1>1. PICK now, until, at, snap, todo :
        f = [at |-> at, now |-> now, until |-> until, snap |-> snap, todo |-> todo]
  BY DEF FlightIs
<1>2. g = [at |-> a, now |-> now, until |-> until, snap |-> b, todo |-> c]  BY <1>1
<1> QED  BY <1>1, <1>2

LEMMA NoFlightIsLive ==
  ASSUME LeaseInv, NEW p \in Replicas, flight'[p] = NoFlight
  PROVE  /\ FlightIs(flight'[p]) /\ ~Live(p)'
         /\ flight'[p].now \in 0 .. syncTime /\ flight'[p].until \in Nat
BY DEF LeaseInv, NoFlight, FlightIs, Live

LEMMA SyncKeeps ==
  ASSUME LeaseInv, SyncShape, SyncNext PROVE LeaseInv' /\ SyncShape'
<1>1. CASE \E s \in Sources \ verified : VerifyRecord(s)
  BY <1>1 DEF VerifyRecord, LeaseInv, SyncShape, FlightIs, Live
<1>2. CASE SyncTick
  <2>1. syncTime' = syncTime + 1 /\ syncState' = syncState /\ flight' = flight  BY <1>2 DEF SyncTick
  <2>2. \A p \in Replicas : Live(p)' => Live(p)  BY <2>1 DEF Live, LeaseInv
  <2> QED  BY <2>1, <2>2 DEF LeaseInv, SyncShape, FlightIs
<1>3. ASSUME NEW p \in Replicas, SyncStep(p) \/ CallBackfill(p) PROVE LeaseInv' /\ SyncShape'
  <2>1. CASE CallSync(p) \/ CallBackfill(p)
    <3>1. PICK at \in {"project", "claim"}, now \in {0, syncTime} :
            flight' = [flight EXCEPT ![p] = [NoFlight EXCEPT !.at = at, !.now = now]]
      <4>1. CASE CallSync(p) /\ syncState.next > syncTime  BY <4>1 DEF CallSync
      <4>2. CASE CallSync(p) /\ ~(syncState.next > syncTime)  BY <4>2 DEF CallSync
      <4>3. CASE CallBackfill(p)
        <5>1. PICK f, g : f = [NoFlight EXCEPT !.at = "project"]
                          /\ g = [NoFlight EXCEPT !.at = "project", !.now = 0]
          OBVIOUS
        <5>2. f = [at |-> "project", now |-> 0, until |-> 0, snap |-> {}, todo |-> {}]
          BY <5>1 DEF NoFlight
        <5>4. g = [at |-> "project", now |-> 0, until |-> 0, snap |-> {}, todo |-> {}]
          BY <5>1 DEF NoFlight
        <5>3. flight' = [flight EXCEPT ![p] = g]  BY <4>3, <5>1, <5>2, <5>4 DEF CallBackfill
        <5> QED  BY <5>1, <5>3
      <4> QED  BY <2>1, <4>1, <4>2, <4>3
    <3>2. syncTime' = syncTime /\ syncState' = syncState  BY <2>1 DEF CallSync, CallBackfill
    <3>3. flight'[p] = [at |-> at, now |-> now, until |-> 0, snap |-> {}, todo |-> {}]
      BY <3>1 DEF SyncShape, NoFlight
    <3>4. ~Live(p)'  BY <3>2, <3>3 DEF Live, LeaseInv
    <3>5. flight'[p].now \in 0 .. syncTime /\ flight'[p].until \in Nat /\ FlightIs(flight'[p])
      BY <3>3 DEF LeaseInv, FlightIs
    <3>6. flight' = [flight EXCEPT ![p] = flight'[p]]  BY <3>1 DEF SyncShape
    <3> QED  BY <3>2, <3>4, <3>5, <3>6, LeaseGoesOn DEF LeaseInv, SyncShape
  <2>2. CASE ClaimSync(p)
    <3>1. CASE Claimable(p)
      <4>1. PICK until : until = flight[p].now + SyncLease  OBVIOUS
      <4>2. /\ syncState' = [syncState EXCEPT !.holder = p, !.until = until]
            /\ flight' = [flight EXCEPT ![p].at = "project", ![p].until = until]
            /\ syncTime' = syncTime
        BY <2>2, <3>1, <4>1 DEF ClaimSync
      <4>3. until \in Nat  BY <4>1, ActivityAssumption DEF LeaseInv
      <4>4. \A q \in Replicas : ~Live(q)
        <5>1. syncState.until <= syncTime  BY <3>1 DEF Claimable, LeaseInv
        <5> QED  BY <5>1 DEF Live, LeaseInv
      <4>5. flight'[p] = [at |-> "project", now |-> flight[p].now, until |-> until,
                          snap |-> flight[p].snap, todo |-> flight[p].todo]
        <5>1. flight'[p] = [flight[p] EXCEPT !.at = "project", !.until = until]
          BY <4>2 DEF SyncShape
        <5>2. FlightIs(flight[p])  BY DEF SyncShape
        <5> QED  BY <5>1, <5>2, Leased
      <4>6. syncState' = [holder |-> p, until |-> until, next |-> syncState.next]
        BY <4>2 DEF SyncShape
      <4>7. flight' = [flight EXCEPT ![p] = flight'[p]]  BY <4>2 DEF SyncShape
      <4>8. FlightIs(flight'[p]) /\ flight'[p].now \in 0 .. syncTime /\ flight'[p].until = until
        BY <4>5 DEF FlightIs, LeaseInv
      <4> QED  BY <4>2, <4>3, <4>4, <4>6, <4>7, <4>8, LeaseGoesOn
    <3>2. CASE ~Claimable(p)
      <4>1. /\ syncState' = syncState /\ syncTime' = syncTime
            /\ flight' = [flight EXCEPT ![p] = NoFlight] /\ flight'[p] = NoFlight
        BY <2>2, <3>2 DEF ClaimSync, SyncShape
      <4> QED  BY <4>1, NoFlightIsLive, LeaseGoesOn DEF LeaseInv, SyncShape
    <3> QED  BY <3>1, <3>2
  <2>3. CASE ReadVerified(p) \/ \E k \in flight[p].todo : UpsertActivity(p, k)
    <3>1. PICK snap, todo : flight' = [flight EXCEPT ![p].at = "upsert", ![p].snap = snap, ![p].todo = todo]
      <4>1. CASE ReadVerified(p)  BY <4>1 DEF ReadVerified
      <4>2. ASSUME NEW k \in flight[p].todo, UpsertActivity(p, k)
            PROVE  \E snap, todo : flight' = [flight EXCEPT ![p].at = "upsert", ![p].snap = snap, ![p].todo = todo]
        <5>1. flight' = [flight EXCEPT ![p].todo = @ \ {k}] /\ flight[p].at = "upsert"
          BY <4>2 DEF UpsertActivity
        <5>2. flight' = [flight EXCEPT ![p].at = "upsert", ![p].snap = flight[p].snap,
                                       ![p].todo = flight[p].todo \ {k}]
          BY <5>1 DEF SyncShape, FlightIs
        <5> QED  BY <5>2
      <4> QED  BY <2>3, <4>1, <4>2
    <3>2. /\ syncTime' = syncTime /\ syncState' = syncState
          /\ flight[p].at \in {"project", "upsert"}
      BY <2>3 DEF ReadVerified, UpsertActivity
    <3>3. flight'[p] = [at |-> "upsert", now |-> flight[p].now, until |-> flight[p].until,
                        snap |-> snap, todo |-> todo]
      <4>1. flight'[p] = [flight[p] EXCEPT !.at = "upsert", !.snap = snap, !.todo = todo]
        BY <3>1 DEF SyncShape
      <4>2. FlightIs(flight[p])  BY DEF SyncShape
      <4> QED  BY <4>1, <4>2, Projected
    <3>4. flight' = [flight EXCEPT ![p] = flight'[p]]  BY <3>1 DEF SyncShape
    <3>5. FlightIs(flight'[p]) /\ flight'[p].now = flight[p].now /\ flight'[p].until = flight[p].until
      BY <3>3 DEF FlightIs
    <3>6. Live(p)' => Live(p)  BY <3>2, <3>5 DEF Live
    <3>7. Live(p)' => syncState'.holder = p /\ syncState'.until = flight'[p].until
      BY <3>2, <3>5, <3>6 DEF LeaseInv
    <3>8. syncState' = [holder |-> syncState'.holder, until |-> syncState'.until, next |-> syncState'.next]
      BY <3>2 DEF SyncShape
    <3> QED  BY <3>2, <3>4, <3>5, <3>7, <3>8, LeaseGoesOn DEF LeaseInv
  <2>4. CASE FinishSync(p)
    <3>1. /\ syncTime' = syncTime
          /\ flight' = [flight EXCEPT ![p] = NoFlight] /\ flight'[p] = NoFlight
          /\ syncState' = IF flight[p].until > 0 /\ StillHolds(p)
                          THEN [holder |-> "none", until |-> 0, next |-> syncTime + SyncThrottle]
                          ELSE syncState
      BY <2>4 DEF FinishSync, SyncShape
    <3>2. syncState' = [holder |-> syncState'.holder, until |-> syncState'.until, next |-> syncState'.next]
      BY <3>1 DEF SyncShape
    <3>3. syncState'.until \in Nat  BY <3>1 DEF LeaseInv
    <3>4. \A q \in Replicas \ {p} : Live(q) => syncState'.holder = q /\ syncState'.until = flight[q].until
      BY <3>1 DEF StillHolds, LeaseInv
    <3> QED  BY <3>1, <3>2, <3>3, <3>4, NoFlightIsLive, LeaseGoesOn
  <2> QED  BY <1>3, <2>1, <2>2, <2>3, <2>4 DEF SyncStep
<1> QED  BY <1>1, <1>2, <1>3 DEF SyncNext

LEMMA RowsKeep ==
  ASSUME RowsInv, SyncNext PROVE RowsInv'
<1>1. CASE UNCHANGED activity  BY <1>1 DEF RowsInv
<1>2. CASE \E p \in Replicas : \E k : UpsertActivity(p, k)  BY <1>2, UpsertKeepsRows
<1> QED
  BY <1>1, <1>2 DEF SyncNext, VerifyRecord, SyncTick, SyncStep, CallSync, CallBackfill, ClaimSync,
                    ReadVerified, FinishSync

LEMMA Smaller ==
  ASSUME NEW T, IsFiniteSet(T), NEW S, S \subseteq T, NEW x \in T, x \notin S
  PROVE  Cardinality(S) < Cardinality(T)
<1>1. IsFiniteSet(T \ {x}) /\ Cardinality(T \ {x}) = Cardinality(T) - 1  BY FS_RemoveElement
<1>2. Cardinality(S) <= Cardinality(T \ {x}) /\ IsFiniteSet(S)  BY <1>1, FS_Subset
<1>3. Cardinality(S) \in Nat /\ Cardinality(T) \in Nat  BY <1>2, FS_CardinalityType
<1> QED  BY <1>1, <1>2, <1>3

LEMMA SyncIsFaithful ==
  ASSUME LeaseInv, RowsInv PROVE OneSyncPerLease /\ ShownOnce
<1>1. OneSyncPerLease
  <2>1. {p \in Replicas : Live(p)} \subseteq {syncState.holder}  BY DEF LeaseInv
  <2> QED  BY <2>1, AtMostOne DEF OneSyncPerLease, Live
<1>2. ASSUME NEW s \in verified, Fixed(s)
      PROVE  Cardinality({r \in activity : s \in r.records}) <= 1
  <2> DEFINE rows == {r \in activity : s \in r.records}
  <2>1. \A r, q \in rows : r = q  BY <1>2 DEF RowsInv
  <2>2. \E x : rows \subseteq {x}
    <3>1. CASE rows = {}  BY <3>1
    <3>2. ASSUME NEW x \in rows PROVE rows \subseteq {x}  BY <2>1
    <3> QED  BY <3>1, <3>2
  <2> HIDE DEF rows
  <2> QED  BY <2>2, AtMostOne DEF rows
<1> QED  BY <1>1, <1>2 DEF ShownOnce, Fixed

-----------------------------------------------------------------------------
(* The pages.  What was there when the list was opened was read or comes    *)
(* after the cursor, and what was read does not.                            *)
EntryRecords == [time : Nat, id : Nat]

PageInv ==
  /\ entryTime \in Nat /\ entries \subseteq EntryRecords /\ IsFiniteSet(entries)
  /\ reader.at \in {"idle", "reading", "done"} /\ ~reader.repeated
  /\ reader = [at |-> reader.at, cursor |-> reader.cursor, existed |-> reader.existed,
               got |-> reader.got, repeated |-> reader.repeated]
  /\ reader.existed \subseteq entries /\ reader.got \subseteq entries
  /\ reader.at # "done" => /\ reader.cursor \in [on : BOOLEAN, time : Nat, id : Nat]
                           /\ ~reader.cursor.on => reader.got = {}
                           /\ \A e \in reader.existed : e \in reader.got \/ AfterCursor(e, reader.cursor)
                           /\ \A e \in reader.got : ~AfterCursor(e, reader.cursor)
  /\ reader.at = "idle" => ~reader.cursor.on /\ reader.existed = {}
  /\ reader.at = "done" => reader.existed \subseteq reader.got

\* How many rows of rest are listed before e.
Rank(rest, e) == Cardinality({d \in rest : Before(d, e)})

LEMMA BeforeIsOrder ==
  /\ \A e \in EntryRecords : ~Before(e, e)
  /\ \A d, e \in EntryRecords : d # e => Before(d, e) \/ Before(e, d)
  /\ \A c, d, e \in EntryRecords : Before(c, d) /\ Before(d, e) => Before(c, e)
BY DEF EntryRecords, Before

LEMMA Ranks ==
  ASSUME NEW rest, rest \subseteq EntryRecords, IsFiniteSet(rest)
  PROVE  /\ \A e \in rest : Rank(rest, e) \in Nat /\ Rank(rest, e) < Cardinality(rest)
         /\ \A d, e \in rest : Before(d, e) => Rank(rest, d) < Rank(rest, e)
<1> DEFINE preds(e) == {d \in rest : Before(d, e)}
<1>1. \A e : IsFiniteSet(preds(e)) /\ Cardinality(preds(e)) \in Nat  BY FS_Subset, FS_CardinalityType
<1>2. ASSUME NEW S, NEW T, IsFiniteSet(T), S \subseteq T, NEW x \in T, x \notin S
      PROVE  Cardinality(S) < Cardinality(T)
  BY <1>2, Smaller
<1>3. ASSUME NEW e \in rest PROVE Rank(rest, e) < Cardinality(rest)
  <2>1. e \notin preds(e)  BY BeforeIsOrder
  <2> QED  BY <1>2, <2>1 DEF Rank
<1>4. ASSUME NEW d \in rest, NEW e \in rest, Before(d, e) PROVE Rank(rest, d) < Rank(rest, e)
  <2>1. preds(d) \subseteq preds(e) /\ d \in preds(e) /\ d \notin preds(d)  BY <1>4, BeforeIsOrder
  <2> QED  BY <1>1, <1>2, <2>1 DEF Rank
<1> QED  BY <1>1, <1>3, <1>4 DEF Rank

\* A page is not empty while there are rows, and has a last one, before which
\* none comes that is not on it.
LEMMA PageHasLast ==
  ASSUME NEW rest, rest \subseteq EntryRecords, IsFiniteSet(rest), rest # {},
         NEW items, items = {e \in rest : Rank(rest, e) < PageLimit}
  PROVE  \E e \in items : /\ \A d \in items \ {e} : Before(d, e)
                          /\ \A d \in rest \ items : Before(e, d)
<1>1. items # {}
  <2> DEFINE ranks == {Rank(rest, e) : e \in rest}
  <2>0. ranks \subseteq Nat /\ ranks # {}  BY Ranks
  <2>1. PICK n \in ranks : \A m \in ranks : n <= m  BY <2>0, LeastNatural
  <2>2. PICK e \in rest : n = Rank(rest, e)  BY <2>1
  <2>3. \A d \in rest : ~Before(d, e)
    <3>1. ASSUME NEW d \in rest, Before(d, e) PROVE FALSE
      <4>1. Rank(rest, d) < Rank(rest, e) /\ Rank(rest, d) \in Nat /\ Rank(rest, e) \in Nat
        BY <3>1, Ranks
      <4> QED  BY <2>1, <2>2, <4>1
    <3> QED  BY <3>1
  <2>4. Rank(rest, e) = 0
    <3>1. {d \in rest : Before(d, e)} = {}  BY <2>3
    <3> QED  BY <3>1, FS_EmptySet DEF Rank
  <2> QED  BY <2>4, ActivityAssumption
<1>2. PICK e \in items : \A d \in items : Rank(rest, d) <= Rank(rest, e)
  <2> DEFINE left == {PageLimit - Rank(rest, e) : e \in items}
  <2>1. left \subseteq Nat /\ left # {}  BY <1>1, Ranks, ActivityAssumption
  <2>2. PICK n \in left : \A m \in left : n <= m  BY <2>1, LeastNatural
  <2>3. PICK e \in items : n = PageLimit - Rank(rest, e)  BY <2>2
  <2>4. ASSUME NEW d \in items PROVE Rank(rest, d) <= Rank(rest, e)
    <3>1. PageLimit - Rank(rest, e) <= PageLimit - Rank(rest, d)  BY <2>2, <2>3
    <3>2. Rank(rest, d) \in Nat /\ Rank(rest, e) \in Nat  BY Ranks
    <3> QED  BY <3>1, <3>2, ActivityAssumption
  <2> QED  BY <2>4
<1>3. ASSUME NEW d \in items \ {e} PROVE Before(d, e)
  <2>1. d \in rest /\ e \in rest /\ (Before(d, e) \/ Before(e, d))  BY BeforeIsOrder
  <2>2. Rank(rest, d) \in Nat /\ Rank(rest, e) \in Nat /\ Rank(rest, d) <= Rank(rest, e)  BY <1>2, <2>1, Ranks
  <2>3. ~Before(e, d)  BY <2>1, <2>2, Ranks
  <2> QED  BY <2>1, <2>3
<1>4. ASSUME NEW d \in rest \ items PROVE Before(e, d)
  <2>1. d \in rest /\ e \in rest /\ d # e /\ (Before(d, e) \/ Before(e, d))  BY BeforeIsOrder
  <2>2. /\ Rank(rest, d) \in Nat /\ Rank(rest, e) \in Nat
        /\ Rank(rest, e) < PageLimit /\ ~(Rank(rest, d) < PageLimit)
    BY <2>1, Ranks
  <2>3. Rank(rest, e) < Rank(rest, d)  BY <2>2, ActivityAssumption
  <2>4. ~Before(d, e)  BY <2>1, <2>2, <2>3, Ranks
  <2> QED  BY <2>1, <2>4
<1> QED  BY <1>3, <1>4

LEMMA ReadKeepsPages ==
  ASSUME PageInv, ReadPage PROVE PageInv'
<1> DEFINE rest == {e \in entries : AfterCursor(e, reader.cursor)}
           items == {e \in rest : Cardinality({d \in rest : Before(d, e)}) < PageLimit}
           last == CHOOSE e \in items : \A d \in items \ {e} : Before(d, e)
           more == Cardinality(rest) > PageLimit
           next == IF more THEN [on |-> TRUE, time |-> last.time, id |-> last.id] ELSE NoCursor
<1>1. /\ reader.at = "reading" /\ entries' = entries /\ entryTime' = entryTime
      /\ reader' = [reader EXCEPT !.at = IF more THEN "reading" ELSE "done", !.cursor = next,
                                  !.repeated = @ \/ items \cap reader.got # {},
                                  !.got = @ \cup items]
  BY DEF ReadPage
<1>2. rest \subseteq EntryRecords /\ IsFiniteSet(rest) /\ rest \subseteq entries /\ items \subseteq rest
  BY FS_Subset DEF PageInv
<1>3. items = {e \in rest : Rank(rest, e) < PageLimit}  BY DEF Rank
<1>4. rest \cap reader.got = {}  BY <1>1 DEF PageInv
<1>5. reader.existed \subseteq reader.got \cup rest  BY <1>1 DEF PageInv
<1>6. more => /\ last \in items
              /\ \A d \in items : ~AfterCursor(d, next)
              /\ \A d \in rest \ items : AfterCursor(d, next)
              /\ \A d \in reader.got : ~AfterCursor(d, next)
              /\ next \in [on : BOOLEAN, time : Nat, id : Nat] /\ next.on
  <2> SUFFICES ASSUME more
      PROVE  /\ last \in items
             /\ \A d \in items : ~AfterCursor(d, next)
             /\ \A d \in rest \ items : AfterCursor(d, next)
             /\ \A d \in reader.got : ~AfterCursor(d, next)
             /\ next \in [on : BOOLEAN, time : Nat, id : Nat] /\ next.on
    OBVIOUS
  <2>1. rest # {}  BY FS_EmptySet, ActivityAssumption
  <2> HIDE DEF rest, items, more
  <2>2. PICK e \in items : /\ \A d \in items \ {e} : Before(d, e)
                           /\ \A d \in rest \ items : Before(e, d)
    BY <1>2, <1>3, <2>1, PageHasLast
  <2>3. last \in items /\ \A d \in items \ {last} : Before(d, last)  BY <2>2
  <2>4. last = e
    <3>1. last # e => Before(last, e) /\ Before(e, last)  BY <2>2, <2>3
    <3>2. last \in EntryRecords /\ e \in EntryRecords  BY <1>2, <2>3
    <3> QED  BY <3>1, <3>2, BeforeIsOrder
  <2> HIDE DEF last
  <2>5. last \in EntryRecords /\ next = [on |-> TRUE, time |-> last.time, id |-> last.id]
    BY <1>2, <2>3
  <2> HIDE DEF next
  <2>6. next \in [on : BOOLEAN, time : Nat, id : Nat] /\ next.on  BY <2>5 DEF EntryRecords
  <2>7. \A d \in EntryRecords : AfterCursor(d, next) <=> Before(last, d)
    BY <2>5 DEF AfterCursor, Before, EntryRecords
  <2>8. \A d \in items : ~AfterCursor(d, next)
    <3>1. ASSUME NEW d \in items, Before(last, d) PROVE FALSE
      <4>1. d \in EntryRecords  BY <1>2
      <4>2. d # last => Before(d, last)  BY <2>3
      <4> QED  BY <2>5, <3>1, <4>1, <4>2, BeforeIsOrder
    <3> QED  BY <1>2, <2>7, <3>1
  <2>9. \A d \in rest \ items : AfterCursor(d, next)  BY <1>2, <2>2, <2>4, <2>7
  <2>10. ASSUME NEW d \in reader.got PROVE ~AfterCursor(d, next)
    <3>1. d \in EntryRecords /\ ~AfterCursor(d, reader.cursor)  BY <1>1 DEF PageInv
    <3>2. AfterCursor(last, reader.cursor)  BY <1>2, <2>3 DEF rest
    <3>3. reader.cursor \in [on : BOOLEAN, time : Nat, id : Nat]  BY <1>1 DEF PageInv
    <3>4. ~Before(last, d)
      BY <2>5, <3>1, <3>2, <3>3 DEF AfterCursor, Before, EntryRecords
    <3> QED  BY <2>7, <3>1, <3>4
  <2> QED  BY <2>3, <2>6, <2>8, <2>9, <2>10
<1>7. ~more => items = rest
  <2> SUFFICES ASSUME ~more, NEW e \in rest PROVE Rank(rest, e) < PageLimit
    BY <1>3
  <2>1. Rank(rest, e) < Cardinality(rest) /\ Rank(rest, e) \in Nat  BY <1>2, Ranks
  <2>2. Cardinality(rest) \in Nat  BY <1>2, FS_CardinalityType
  <2> QED  BY <2>1, <2>2, ActivityAssumption
<1> HIDE DEF rest, items, last, more, next
<1>8. reader' = [at |-> IF more THEN "reading" ELSE "done", cursor |-> next, existed |-> reader.existed,
                 got |-> reader.got \cup items, repeated |-> FALSE]
  <2>1. ~reader.repeated /\ items \cap reader.got = {}  BY <1>2, <1>4 DEF PageInv
  <2>2. PICK at, cursor, existed, got, repeated :
          reader = [at |-> at, cursor |-> cursor, existed |-> existed, got |-> got, repeated |-> repeated]
    BY DEF PageInv
  <2> QED  BY <1>1, <2>1, <2>2
<1>9. CASE more
  <2>1. /\ reader'.at = "reading" /\ reader'.cursor = next /\ reader'.existed = reader.existed
        /\ reader'.got = reader.got \cup items /\ ~reader'.repeated
    BY <1>8, <1>9
  <2>2. \A e \in reader'.existed : e \in reader'.got \/ AfterCursor(e, next)
    BY <1>5, <1>6, <1>9, <2>1
  <2>3. \A e \in reader'.got : ~AfterCursor(e, next)  BY <1>6, <1>9, <2>1
  <2>4. reader'.existed \subseteq entries /\ reader'.got \subseteq entries
    BY <1>2, <2>1 DEF PageInv
  <2> QED  BY <1>1, <1>6, <1>8, <1>9, <2>1, <2>2, <2>3, <2>4 DEF PageInv, AfterCursor
<1>10. CASE ~more
  <2>1. /\ reader'.at = "done" /\ reader'.existed = reader.existed
        /\ reader'.got = reader.got \cup rest /\ ~reader'.repeated
    BY <1>7, <1>8, <1>10
  <2>2. reader'.existed \subseteq entries /\ reader'.got \subseteq entries
    BY <1>2, <2>1 DEF PageInv
  <2> QED  BY <1>1, <1>5, <1>8, <2>1, <2>2 DEF PageInv
<1> QED  BY <1>9, <1>10

LEMMA PagesKeep ==
  ASSUME PageInv, PagingNext PROVE PageInv'
<1>1. ASSUME NEW i \in EntryIds, InsertEntry(i) PROVE PageInv'
  <2>1. PICK e : e = [time |-> entryTime, id |-> i]  OBVIOUS
  <2>2. entries' = entries \cup {e} /\ reader' = reader /\ entryTime' = entryTime
    BY <1>1, <2>1 DEF InsertEntry
  <2>3. e \in EntryRecords  BY <2>1, ActivityAssumption DEF EntryRecords, PageInv
  <2>4. IsFiniteSet(entries \cup {e})  BY FS_AddElement DEF PageInv
  <2> QED  BY <2>2, <2>3, <2>4 DEF PageInv, AfterCursor
<1>2. CASE EntryTick  BY <1>2 DEF EntryTick, PageInv, AfterCursor
<1>3. CASE OpenList
  <2>1. /\ entries' = entries /\ entryTime' = entryTime /\ reader.at = "idle"
        /\ reader' = [reader EXCEPT !.at = "reading", !.existed = entries]
    BY <1>3 DEF OpenList
  <2>2. PICK at, cursor, existed, got, repeated :
          reader = [at |-> at, cursor |-> cursor, existed |-> existed, got |-> got, repeated |-> repeated]
    BY DEF PageInv
  <2>3. reader' = [at |-> "reading", cursor |-> reader.cursor, existed |-> entries,
                   got |-> reader.got, repeated |-> reader.repeated]
    BY <2>1, <2>2
  <2>4. ~reader.cursor.on /\ \A e \in entries : AfterCursor(e, reader.cursor)
    BY <2>1 DEF PageInv, AfterCursor
  <2> QED  BY <2>1, <2>3, <2>4 DEF PageInv, AfterCursor
<1> QED  BY <1>1, <1>2, <1>3, ReadKeepsPages DEF PagingNext

-----------------------------------------------------------------------------
(* The hook.  What a query holds was fetched with the token of its key.     *)
CacheInv == \A c \in queryCache : c.of = c.key

LEMMA CacheKeeps ==
  ASSUME CacheInv, FeedNext PROVE CacheInv'
<1>1. ASSUME NEW t, FeedFetched(t) PROVE CacheInv'
  BY <1>1 DEF FeedFetched, QueryKey, CacheInv
<1>2. ASSUME NEW t, SwitchSession(t) PROVE CacheInv'
  BY <1>2 DEF SwitchSession, CacheInv
<1>3. CASE UNCHANGED queryCache  BY <1>3 DEF CacheInv
<1> QED
  BY <1>1, <1>2, <1>3 DEF FeedNext, FeedStep, SyncAnswers, FetchFeed, RetryFeed

LEMMA FeedIsOwn ==
  ASSUME CacheInv PROVE ShownBelongsToSession
BY DEF CacheInv, ShownBelongsToSession, Shown, QueryKey

-----------------------------------------------------------------------------
(* The payroll logs.  The ranges follow one another up to where the scan is.*)
ScanInv ==
  /\ head \in Nat /\ head >= FirstBlock
  /\ scan = [at |-> scan.at, upTo |-> scan.upTo, from |-> scan.from, seen |-> scan.seen]
  /\ scan.at \in {"idle", "scanning", "done"} /\ scan.upTo \in Nat /\ scan.from \in Nat
  /\ scan.seen \in Seq(Nat \X Nat)
  /\ \A i \in DOMAIN scan.seen : scan.seen[i][2] < scan.from
  /\ \A i, j \in DOMAIN scan.seen : i < j => scan.seen[i][2] < scan.seen[j][1]
  /\ \A b \in FirstBlock .. scan.from - 1 :
       \E i \in DOMAIN scan.seen : b \in scan.seen[i][1] .. scan.seen[i][2]
  /\ scan.at = "idle" => scan.from = FirstBlock /\ scan.seen = <<>>
  /\ scan.at # "idle" => scan.from <= scan.upTo + 1
  /\ scan.at = "done" => scan.from = scan.upTo + 1

LEMMA ScanKeeps ==
  ASSUME ScanInv, ScanNext PROVE ScanInv'
<1>1. CASE Grow
  <2>1. scan' = scan /\ head' = head + 1  BY <1>1 DEF Grow
  <2>2. head' \in Nat /\ head' >= FirstBlock  BY <2>1, ActivityAssumption DEF ScanInv
  <2> QED  BY <2>1, <2>2 DEF ScanInv
<1>2. PICK at, upTo, from, seen : scan = [at |-> at, upTo |-> upTo, from |-> from, seen |-> seen]
  BY DEF ScanInv
<1>3. CASE StartScan
  <2>1. scan' = [at |-> "scanning", upTo |-> head, from |-> from, seen |-> seen] /\ head' = head
    BY <1>2, <1>3 DEF StartScan
  <2>2. scan.at = "idle"  BY <1>3 DEF StartScan
  <2> QED  BY <1>2, <2>1, <2>2, ActivityAssumption DEF ScanInv
<1>4. CASE FetchLogs /\ scan.from > scan.upTo
  <2>1. scan' = [at |-> "done", upTo |-> upTo, from |-> from, seen |-> seen] /\ head' = head
    BY <1>2, <1>4 DEF FetchLogs
  <2>2. scan.at = "scanning"  BY <1>4 DEF FetchLogs
  <2> QED  BY <1>2, <1>4, <2>1, <2>2 DEF ScanInv
<1>5. CASE FetchLogs /\ ~(scan.from > scan.upTo)
  <2>1. PICK to : to = IF scan.from + ChunkSize > scan.upTo THEN scan.upTo ELSE scan.from + ChunkSize
    OBVIOUS
  <2>2. scan' = [at |-> at, upTo |-> upTo, from |-> to + 1, seen |-> Append(seen, <<from, to>>)]
        /\ head' = head /\ at = "scanning"
    BY <1>2, <1>5, <2>1 DEF FetchLogs, NextFrom
  <2>3. to \in Nat /\ from \in Nat /\ upTo \in Nat /\ from <= to /\ to <= upTo
    BY <1>2, <1>5, <2>1, ActivityAssumption DEF ScanInv
  <2>4. seen \in Seq(Nat \X Nat)  BY <1>2 DEF ScanInv
  <2>5. /\ Append(seen, <<from, to>>) \in Seq(Nat \X Nat)
        /\ DOMAIN Append(seen, <<from, to>>) = DOMAIN seen \cup {Len(seen) + 1}
        /\ \A i \in DOMAIN seen : i < Len(seen) + 1 /\ Append(seen, <<from, to>>)[i] = seen[i]
        /\ Append(seen, <<from, to>>)[Len(seen) + 1] = <<from, to>>
    BY <2>3, <2>4
  <2>6. PICK after : after = Append(seen, <<from, to>>)  OBVIOUS
  <2>7. /\ \A i \in DOMAIN seen : seen[i] \in Nat \X Nat /\ seen[i][2] < from
        /\ \A i, j \in DOMAIN seen : i < j => seen[i][2] < seen[j][1]
        /\ \A b \in FirstBlock .. from - 1 : \E i \in DOMAIN seen : b \in seen[i][1] .. seen[i][2]
    BY <1>2, <2>4 DEF ScanInv
  <2>8. \A i \in DOMAIN after : after[i][2] < to + 1
    BY <2>3, <2>5, <2>6, <2>7
  <2>9. \A i, j \in DOMAIN after : i < j => after[i][2] < after[j][1]
    BY <2>3, <2>4, <2>5, <2>6, <2>7
  <2>10. ASSUME NEW b \in FirstBlock .. to
         PROVE  \E i \in DOMAIN after : b \in after[i][1] .. after[i][2]
    <3>1. CASE b < from
      <4>1. PICK i \in DOMAIN seen : b \in seen[i][1] .. seen[i][2]
        BY <2>3, <2>7, <3>1, ActivityAssumption
      <4> QED  BY <2>5, <2>6, <4>1
    <3>2. CASE ~(b < from)
      <4>1. b \in from .. to  BY <2>3, <3>2, ActivityAssumption
      <4> QED  BY <2>5, <2>6, <4>1
    <3> QED  BY <3>1, <3>2
  <2>11. scan'.from = to + 1 /\ scan'.seen = after /\ scan'.at = "scanning" /\ scan'.upTo = upTo
         /\ scan' = [at |-> scan'.at, upTo |-> scan'.upTo, from |-> scan'.from, seen |-> scan'.seen]
    BY <2>2, <2>6
  <2>12. FirstBlock .. scan'.from - 1 = FirstBlock .. to  BY <2>3, <2>11
  <2>13. scan'.seen \in Seq(Nat \X Nat)  BY <2>5, <2>6, <2>11
  <2>14. /\ \A i \in DOMAIN scan'.seen : scan'.seen[i][2] < scan'.from
         /\ \A i, j \in DOMAIN scan'.seen : i < j => scan'.seen[i][2] < scan'.seen[j][1]
         /\ \A b \in FirstBlock .. scan'.from - 1 :
              \E i \in DOMAIN scan'.seen : b \in scan'.seen[i][1] .. scan'.seen[i][2]
    BY <2>8, <2>9, <2>10, <2>11, <2>12
  <2>15. scan'.from \in Nat /\ scan'.upTo \in Nat /\ scan'.from <= scan'.upTo + 1
    BY <2>3, <2>11
  <2>16. head' \in Nat /\ head' >= FirstBlock  BY <2>2 DEF ScanInv
  <2> QED  BY <2>11, <2>13, <2>14, <2>15, <2>16 DEF ScanInv
<1> QED  BY <1>1, <1>3, <1>4, <1>5 DEF ScanNext, FetchLogs

LEMMA ScanIsExact ==
  ASSUME ScanInv PROVE BlocksScannedOnce
<1> DEFINE ranges(b) == {i \in DOMAIN scan.seen : b \in scan.seen[i][1] .. scan.seen[i][2]}
<1> SUFFICES ASSUME NEW b \in FirstBlock .. LastBlock
    PROVE  /\ Cardinality(ranges(b)) <= 1
           /\ scan.at = "done" => Cardinality(ranges(b)) = IF b <= scan.upTo THEN 1 ELSE 0
  BY DEF BlocksScannedOnce
<1>1. \A i \in DOMAIN scan.seen : scan.seen[i] \in Nat \X Nat /\ i \in Nat  BY DEF ScanInv
<1>2. ASSUME NEW i \in ranges(b), NEW j \in ranges(b), i # j PROVE FALSE
  <2>1. i < j \/ j < i  BY <1>1, <1>2
  <2>2. /\ scan.seen[i][1] <= b /\ b <= scan.seen[i][2] /\ scan.seen[j][1] <= b /\ b <= scan.seen[j][2]
        /\ scan.seen[i] \in Nat \X Nat /\ scan.seen[j] \in Nat \X Nat /\ b \in Int
    BY <1>1
  <2> QED  BY <2>1, <2>2 DEF ScanInv
<1>3. ranges(b) = {} \/ \E i : ranges(b) = {i}
  <2>1. ASSUME NEW i \in ranges(b) PROVE ranges(b) = {i}  BY <1>2
  <2> QED  BY <2>1
<1>4. Cardinality({}) = 0 /\ \A i : Cardinality({i}) = 1  BY FS_EmptySet, FS_Singleton
<1>5. ASSUME scan.at = "done", b <= scan.upTo PROVE ranges(b) # {}
  <2>1. b \in FirstBlock .. scan.from - 1  BY <1>5, ActivityAssumption DEF ScanInv
  <2> QED  BY <2>1 DEF ScanInv
<1>6. ASSUME scan.at = "done", ~(b <= scan.upTo) PROVE ranges(b) = {}
  <2>1. ASSUME NEW i \in ranges(b) PROVE FALSE
    <3>1. scan.seen[i][2] < scan.upTo + 1 /\ b <= scan.seen[i][2] /\ scan.seen[i] \in Nat \X Nat
      BY <1>1, <1>6, <2>1 DEF ScanInv
    <3>2. scan.upTo \in Nat /\ b \in Int  BY DEF ScanInv
    <3> QED  BY <1>6, <3>1, <3>2
  <2> QED  BY <2>1
<1> HIDE DEF ranges
<1>7. CASE ranges(b) = {}
  <2>1. Cardinality(ranges(b)) = 0  BY <1>4, <1>7
  <2> QED  BY <1>5, <1>7, <2>1
<1>8. ASSUME NEW i, ranges(b) = {i}
      PROVE  /\ Cardinality(ranges(b)) <= 1
             /\ scan.at = "done" => Cardinality(ranges(b)) = IF b <= scan.upTo THEN 1 ELSE 0
  <2>1. Cardinality(ranges(b)) = 1 /\ ranges(b) # {}  BY <1>4, <1>8
  <2> QED  BY <1>6, <2>1
<1> QED  BY <1>3, <1>7, <1>8

\* For any replicas, records, rows, sessions and blocks: no two synchronisations
\* hold a live lease, a record is shown by one row at most, pages read with the
\* cursor deliver every row once, the page shows its own session's rows, and each
\* block is scanned once (activity.service.ts, useActivityFeed, payroll history).
THEOREM FeedFollowsRecords == ActivitySpec => []FeedIsFaithful
<1> DEFINE Inv == LeaseInv /\ SyncShape /\ RowsInv /\ PageInv /\ CacheInv /\ ScanInv
<1>1. ActivityInit => Inv
  <2> SUFFICES ASSUME ActivityInit PROVE Inv  OBVIOUS
  <2>1. LeaseInv  BY DEF ActivityInit, SyncInit, NoFlight, LeaseInv, Live
  <2>2. SyncShape  BY DEF ActivityInit, SyncInit, NoFlight, SyncShape, FlightIs
  <2>3. RowsInv  BY DEF ActivityInit, SyncInit, RowsInv
  <2>4. PageInv  BY FS_EmptySet DEF ActivityInit, PagingInit, NoCursor, PageInv
  <2>5. CacheInv  BY DEF ActivityInit, FeedInit, CacheInv
  <2>6. ScanInv  BY ActivityAssumption DEF ActivityInit, ScanInit, ScanInv
  <2> QED  BY <2>1, <2>2, <2>3, <2>4, <2>5, <2>6
<1>2. Inv /\ [ActivityNext]_activityVars => Inv'
  <2> SUFFICES ASSUME Inv, [ActivityNext]_activityVars PROVE Inv'  OBVIOUS
  <2>1. UNCHANGED syncVars => LeaseInv' /\ SyncShape' /\ RowsInv'
    BY DEF syncVars, LeaseInv, Live, SyncShape, FlightIs, RowsInv
  <2>2. UNCHANGED pageVars => PageInv'  BY DEF pageVars, PageInv, AfterCursor
  <2>3. UNCHANGED feedVars => CacheInv'  BY DEF feedVars, CacheInv
  <2>4. UNCHANGED scanVars => ScanInv'  BY DEF scanVars, ScanInv
  <2> QED
    BY <2>1, <2>2, <2>3, <2>4, SyncKeeps, RowsKeep, PagesKeep, CacheKeeps, ScanKeeps
    DEF ActivityNext, activityVars
<1>3. Inv => FeedIsFaithful
  <2>1. PageInv => PagesAreExact  BY DEF PageInv, PagesAreExact
  <2> QED  BY <2>1, SyncIsFaithful, FeedIsOwn, ScanIsExact DEF FeedIsFaithful
<1> QED  BY <1>1, <1>2, <1>3, PTL DEF ActivitySpec
=============================================================================
