---------------------------- MODULE PayrollScreen ----------------------------
(***************************************************************************)
(* The payroll page around useBatchPayroll.execute: the two locks in front  *)
(* of it, the task and the hashes the page shows while a run goes through   *)
(* its token groups, the polls of that task, and the success modal, whose   *)
(* dismissal clears the page under a run that may still be going on.  What  *)
(* a run does to the wallet, the storage and the intents is PayrollRun's    *)
(* subject; here a unit's submission is what the page can tell of it.       *)
(***************************************************************************)
EXTENDS Naturals, FiniteSets

CONSTANTS
    NumGroups,       \* token groups of a payroll, the source token's first
    UnitsPerGroup,   \* on-chain batches of a group
    MaxSends,        \* bound: presses of Send that start a run
    MaxSheets,       \* bound: payrolls composed on the page, one after another
    MaxPolls,        \* bound: answers of polls on their way
    MaxScreenFaults  \* bound: failing backend calls

ASSUME ScreenAssumption ==
    /\ NumGroups \in Nat \ {0} /\ UnitsPerGroup \in Nat \ {0}
    /\ MaxSends \in Nat /\ MaxSheets \in Nat \ {0}
    /\ MaxPolls \in Nat /\ MaxScreenFaults \in Nat

Groups == 1..NumGroups
Sheets == 1..MaxSheets
Sends == 1..MaxSends
TaskIds == [sheet : Sheets, group : Groups]
PageUnits == [sheet : Sheets, group : Groups, nr : 1..UnitsPerGroup]

VARIABLES
    sheet,      \* the payroll in the composer; resetComposer starts another reference
    unitRows,   \* backend: TaskUnit.status; "none" until the task is created
    unitTx,     \* the payment of each unit: none, sent, paid, reverted
    runs,       \* the execute() calls, by the press of Send that made them
    sends,      \* presses of Send that started a run
    guardHeld,  \* useActionGuard.lockRef of the composer
    locked,     \* executionLockRef
    isRunning,
    taskId, shownTask, hashes,  \* what the page shows: shownTask is an answer of the backend
    submitState, approvalState, message,
    polled,     \* answers of polls on their way
    screenFaults

server == <<unitRows, unitTx>>
runState == <<runs, sends, guardHeld, locked, isRunning>>
display == <<taskId, shownTask, hashes>>
states == <<submitState, approvalState, message>>
screenVars == <<sheet, server, runState, display, states, polled, screenFaults>>

Absent == "none"
NoTaskId == [sheet |-> 0, group |-> 0]
NoTask == [id |-> NoTaskId, status |-> <<>>]
NotStarted == [at |-> Absent, sheet |-> 1, group |-> 1, nr |-> 0, ok |-> FALSE,
               failed |-> FALSE, told |-> {}]

ScreenInit ==
    /\ sheet = 1
    /\ unitRows = [u \in PageUnits |-> Absent]
    /\ unitTx = [u \in PageUnits |-> Absent]
    /\ runs = [r \in Sends |-> NotStarted]
    /\ sends = 0
    /\ guardHeld = FALSE /\ locked = FALSE /\ isRunning = FALSE
    /\ taskId = NoTaskId /\ shownTask = NoTask /\ hashes = {}
    /\ submitState = "idle" /\ approvalState = "idle" /\ message = Absent
    /\ polled = {} /\ screenFaults = 0

-----------------------------------------------------------------------------
(* What the page reads and shows *)

Unit(t, n) == [sheet |-> t.sheet, group |-> t.group, nr |-> n]
UnitsOf(t) == {u \in PageUnits : u.sheet = t.sheet /\ u.group = t.group}

(* GET /tasks/:id; a task's status follows its units (recomputeTaskStatus). *)
TaskAnswer(t) == [id |-> t, status |-> [u \in UnitsOf(t) |-> unitRows[u]]]
Executed(a) == \A u \in UnitsOf(a.id) : a.status[u] = "SUCCESS"
InReview(a) == \E u \in UnitsOf(a.id) : a.status[u] = "FAILED"
IsTaskTerminal(a) == a # NoTask /\ (Executed(a) \/ InReview(a))

(* mergeSuccessfulSubmissionHashes: a unit stands for its hash. *)
MergeSuccessful(current, a) == current \cup {u \in UnitsOf(a.id) : a.status[u] = "SUCCESS"}

Show(a) == shownTask' = a /\ hashes' = MergeSuccessful(hashes, a)

(* refreshTask: a failed call shows nothing new. *)
RefreshTask(t) ==
    \/ Show(TaskAnswer(t)) /\ UNCHANGED screenFaults
    \/ /\ screenFaults < MaxScreenFaults
       /\ screenFaults' = screenFaults + 1
       /\ UNCHANGED <<shownTask, hashes>>

(* The modal is open exactly while the shown task is executed, and covers   *)
(* the page.                                                                *)
ModalOpen == shownTask # NoTask /\ Executed(shownTask)

IsBusy ==
    \/ isRunning
    \/ approvalState = "signing"
    \/ submitState \in {"simulating", "wallet"}

SendEnabledUnguarded == ~IsBusy /\ ~ModalOpen   \* variant: no action guard

SendEnabled == ~IsBusy /\ ~ModalOpen /\ ~guardHeld

(* batchPayroll.reset and the composer's reset: a new sheet, and the        *)
(* execution lock released whoever holds it.                                *)
ClearPage ==
    /\ sheet < MaxSheets
    /\ sheet' = sheet + 1
    /\ locked' = FALSE /\ isRunning' = FALSE
    /\ taskId' = NoTaskId /\ shownTask' = NoTask /\ hashes' = {}
    /\ submitState' = "idle" /\ approvalState' = "idle" /\ message' = Absent
    /\ runs' = [r \in Sends |-> [runs[r] EXCEPT !.told = {}]]
    /\ UNCHANGED <<server, sends, guardHeld, polled, screenFaults>>

DismissSuccessModal == ModalOpen /\ ClearPage
ResetComposer == ~ModalOpen /\ ~IsBusy /\ ClearPage

-----------------------------------------------------------------------------
(* execute() *)

Running(r) == runs[r].at \notin {Absent, "done"}
TaskOf(r) == [sheet |-> runs[r].sheet, group |-> runs[r].group]
UnitAt(r) == Unit(TaskOf(r), runs[r].nr)

Goes(r, at) == runs' = [runs EXCEPT ![r].at = at]

(* The end of execute(), then of the guarded action. *)
FinishRun(r, says) ==
    /\ Goes(r, "done")
    /\ locked' = FALSE /\ isRunning' = FALSE /\ guardHeld' = FALSE
    /\ message' = IF says = Absent THEN message ELSE says

(* A call of the run that throws. *)
Throws(r) ==
    /\ screenFaults < MaxScreenFaults
    /\ screenFaults' = screenFaults + 1
    /\ FinishRun(r, "error")

(* guardSend, submitPayroll, execute: a press that meets the execution lock *)
(* returns at once.                                                         *)
GuardedSend ==
    /\ SendEnabled
    /\ ~locked
    /\ sends < MaxSends
    /\ sends' = sends + 1
    /\ guardHeld' = TRUE /\ locked' = TRUE /\ isRunning' = TRUE
    /\ runs' = [runs EXCEPT ![sends + 1] = [NotStarted EXCEPT !.at = "init", !.sheet = sheet]]
    /\ taskId' = NoTaskId /\ shownTask' = NoTask /\ hashes' = {} /\ message' = Absent
    /\ UNCHANGED <<sheet, server, submitState, approvalState, polled, screenFaults>>

(* The init call creates the group's task, or settles the units whose hash  *)
(* the backend has (reconcilePayrollIntents).                               *)
Settlements(u) ==
    IF unitRows[u] # "PENDING" THEN {unitRows[u]}
    ELSE CASE unitTx[u] = "paid" -> {"SUCCESS", "FAILED", "PENDING"}
           [] unitTx[u] = "reverted" -> {"FAILED", "PENDING"}
           [] OTHER -> {"PENDING"}

InitGroup(r) ==
    /\ runs[r].at = "init"
    /\ \/ /\ \E next \in [UnitsOf(TaskOf(r)) -> {"PENDING", "SUCCESS", "FAILED"}] :
                /\ \A u \in UnitsOf(TaskOf(r)) :
                     next[u] \in IF unitRows[u] = Absent THEN {"PENDING"} ELSE Settlements(u)
                /\ unitRows' = [u \in PageUnits |-> IF u \in UnitsOf(TaskOf(r)) THEN next[u] ELSE unitRows[u]]
          /\ taskId' = TaskOf(r)
          /\ Goes(r, "opened")
          /\ UNCHANGED <<guardHeld, locked, isRunning, message, screenFaults>>
       \/ Throws(r) /\ UNCHANGED <<unitRows, taskId>>
    /\ UNCHANGED <<sheet, unitTx, sends, shownTask, hashes, submitState, approvalState, polled>>

(* resumablePayrollUnit: the first pending unit, unless its payment is out. *)
NextPending(t, statuses) ==
    LET open == {n \in 1..UnitsPerGroup : statuses[Unit(t, n)] = "PENDING"}
        first == {n \in open : \A m \in open : n <= m}
    IN  IF first = {} THEN 0 ELSE CHOOSE n \in first : TRUE

Resumable(t) ==
    LET n == NextPending(t, unitRows)
    IN  IF n # 0 /\ unitTx[Unit(t, n)] = Absent THEN n ELSE 0

ToUnit(r, n) == [runs[r] EXCEPT !.at = IF n = 0 THEN "close" ELSE "submit", !.nr = n, !.ok = FALSE]

(* The first refresh; then the group's approval when it needs one. *)
OpenTask(r) ==
    /\ runs[r].at = "opened"
    /\ RefreshTask(TaskOf(r))
    /\ \/ /\ runs' = [runs EXCEPT ![r] = ToUnit(r, Resumable(TaskOf(r)))]
          /\ UNCHANGED approvalState
       \/ /\ runs[r].group = 1
          /\ runs' = [runs EXCEPT ![r].at = "approve", ![r].nr = Resumable(TaskOf(r))]
          /\ approvalState' = "signing"
    /\ UNCHANGED <<sheet, server, sends, guardHeld, locked, isRunning, taskId, submitState,
                   message, polled>>

RequestApproval(r) ==
    /\ runs[r].at = "approve"
    /\ \/ /\ approvalState' = "confirmed"
          /\ runs' = [runs EXCEPT ![r] = ToUnit(r, runs[r].nr)]
          /\ UNCHANGED message
       \/ /\ approvalState' = "idle"
          /\ message' = "error"
          /\ Goes(r, "leave")
    /\ UNCHANGED <<sheet, server, sends, guardHeld, locked, isRunning, display, submitState, polled, screenFaults>>

(* After a refused approval: one more refresh, and the run is over. *)
LeaveRun(r) ==
    /\ runs[r].at = "leave"
    /\ RefreshTask(TaskOf(r))
    /\ FinishRun(r, Absent)
    /\ UNCHANGED <<sheet, server, sends, taskId, submitState, approvalState, polled>>

-----------------------------------------------------------------------------
(* handleSubmit, as far as the page's states go *)

SubmissionFails(r) == runs' = [runs EXCEPT ![r].at = "report", ![r].ok = FALSE]

StartSubmit(r) ==
    /\ runs[r].at = "submit"
    /\ \/ Goes(r, "simulate") /\ submitState' = "simulating" /\ message' = Absent
       \/ SubmissionFails(r) /\ message' = "error" /\ UNCHANGED submitState
    /\ UNCHANGED <<sheet, server, sends, guardHeld, locked, isRunning, display, approvalState, polled, screenFaults>>

(* The quote, the balance, the allowance: a refusal returns and leaves      *)
(* `simulating'; an exception goes through the catch clause.                *)
SimulateSubmit(r) ==
    /\ runs[r].at = "simulate"
    /\ \/ Goes(r, "wallet") /\ submitState' = "wallet" /\ UNCHANGED message
       \/ SubmissionFails(r) /\ message' = "error" /\ UNCHANGED submitState
       \/ SubmissionFails(r) /\ message' = "error" /\ submitState' = "idle"
    /\ UNCHANGED <<sheet, server, sends, guardHeld, locked, isRunning, display, approvalState, polled, screenFaults>>

(* The wallet signs and the hash is bound; or the wallet refuses; or the    *)
(* bind fails with the payment on its way.                                  *)
SignSubmit(r) ==
    LET u == UnitAt(r) IN
    /\ runs[r].at = "wallet"
    /\ \/ /\ unitTx' = [unitTx EXCEPT ![u] = "sent"]
          /\ submitState' = "confirmed"
          /\ Goes(r, "record")
          /\ UNCHANGED <<message, screenFaults>>
       \/ /\ SubmissionFails(r)
          /\ submitState' = "idle" /\ message' = "error"
          /\ UNCHANGED <<unitTx, screenFaults>>
       \/ /\ screenFaults < MaxScreenFaults
          /\ screenFaults' = screenFaults + 1
          /\ unitTx' = [unitTx EXCEPT ![u] = "sent"]
          /\ SubmissionFails(r)
          /\ submitState' = "idle" /\ message' = "error"
    /\ UNCHANGED <<sheet, unitRows, sends, guardHeld, locked, isRunning, display, approvalState, polled>>

MineUnit(u) ==
    /\ unitTx[u] = "sent"
    /\ \E end \in {"paid", "reverted"} : unitTx' = [unitTx EXCEPT ![u] = end]
    /\ UNCHANGED <<sheet, unitRows, runState, display, states, polled, screenFaults>>

(* recordPayrollBatchConfirmation: a reverted batch throws. *)
RecordConfirmation(r) ==
    LET u == UnitAt(r) IN
    /\ runs[r].at = "record"
    /\ \/ /\ unitTx[u] = "paid"
          /\ runs' = [runs EXCEPT ![r].at = "report", ![r].ok = TRUE]
          /\ UNCHANGED <<guardHeld, locked, isRunning, message>>
       \/ unitTx[u] = "reverted" /\ FinishRun(r, "error")
    /\ UNCHANGED <<sheet, server, sends, display, submitState, approvalState, polled,
                   screenFaults>>

(* The report's answer is shown and names the next unit. *)
ReportOutcome(r) ==
    LET u == UnitAt(r)
        t == TaskOf(r)
        outcome == IF runs[r].ok THEN "SUCCESS" ELSE "FAILED"
    IN
    /\ runs[r].at = "report"
    /\ \/ /\ unitRows' = [unitRows EXCEPT ![u] = IF @ = "PENDING" THEN outcome ELSE @]
          /\ Show([id |-> t, status |-> [v \in UnitsOf(t) |-> unitRows'[v]]])
          /\ runs' = [runs EXCEPT ![r] =
                [ToUnit(r, NextPending(t, unitRows')) EXCEPT
                    !.failed = @ \/ ~runs[r].ok,
                    !.told = IF runs[r].ok THEN @ \cup {u} ELSE @]]
          /\ UNCHANGED <<guardHeld, locked, isRunning, message, screenFaults>>
       \/ Throws(r) /\ UNCHANGED <<unitRows, shownTask, hashes>>
    /\ UNCHANGED <<sheet, unitTx, sends, taskId, submitState, approvalState, polled>>

(* The last refresh of a group, then the next group or the end. *)
CloseGroup(r) ==
    /\ runs[r].at = "close"
    /\ RefreshTask(TaskOf(r))
    /\ IF runs[r].group < NumGroups
       THEN /\ runs' = [runs EXCEPT ![r].at = "init", ![r].group = @ + 1, ![r].nr = 0]
            /\ UNCHANGED <<guardHeld, locked, isRunning, message>>
       ELSE FinishRun(r, IF runs[r].failed THEN "retry" ELSE Absent)
    /\ UNCHANGED <<sheet, server, sends, taskId, submitState, approvalState, polled>>

(* The interval asks for the task in taskId every 2.5 s until the shown one *)
(* is terminal; an answer is applied when it comes, whatever is shown then. *)
Poll ==
    /\ taskId # NoTaskId /\ ~IsTaskTerminal(shownTask)
    /\ Cardinality(polled) < MaxPolls
    /\ polled' = polled \cup {TaskAnswer(taskId)}
    /\ UNCHANGED <<sheet, server, runState, display, states, screenFaults>>

PollAnswers(a) ==
    /\ a \in polled
    /\ polled' = polled \ {a}
    /\ Show(a)
    /\ UNCHANGED <<sheet, server, runState, taskId, states, screenFaults>>

PageRunStep(r) ==
    \/ InitGroup(r) \/ OpenTask(r) \/ RequestApproval(r) \/ LeaveRun(r) \/ StartSubmit(r)
    \/ SimulateSubmit(r) \/ SignSubmit(r) \/ RecordConfirmation(r) \/ ReportOutcome(r) \/ CloseGroup(r)

ScreenNext ==
    \/ GuardedSend \/ DismissSuccessModal \/ ResetComposer
    \/ \E r \in Sends : PageRunStep(r)
    \/ \E u \in PageUnits : MineUnit(u)
    \/ Poll \/ \E a \in polled : PollAnswers(a)

ScreenSpec == ScreenInit /\ [][ScreenNext]_screenVars

-----------------------------------------------------------------------------
(* Properties *)

(* One execute() at a time, though dismissing the modal after the first     *)
(* group releases the execution lock under the run: the composer's guard    *)
(* holds until the run's promise settles.                                   *)
OneRunPerPage == \A r, s \in Sends : Running(r) /\ Running(s) => r = s

(* Whatever poll arrives late, the hashes shown belong to batches the       *)
(* backend has confirmed, and none of this run's is missing from the list.  *)
HashesAreConfirmed ==
    /\ \A u \in hashes : unitRows[u] = "SUCCESS" /\ unitTx[u] = "paid"
    /\ \A r \in Sends : Running(r) => runs[r].told \subseteq hashes

(* The modal announces a task only when all its batches are paid. *)
SuccessIsTrue == ModalOpen => \A u \in UnitsOf(shownTask.id) : unitRows[u] = "SUCCESS" /\ unitTx[u] = "paid"

ScreenIsTruthful == OneRunPerPage /\ HashesAreConfirmed /\ SuccessIsTrue
=============================================================================
