----------------------------- MODULE PayrollRun -----------------------------
(***************************************************************************)
(* useBatchPayroll.execute with the hooks it drives: the browser's side of  *)
(* one payroll group.  A click creates the task or reconciles it, approves  *)
(* the group's funding when the allowance it captured is too small, and     *)
(* submits the units one by one: recovery from local storage, the wallet,   *)
(* the transaction hash bound to the unit's execution intent, the receipt,  *)
(* the report.  Two tabs share the wallet, the backend and the storage, not *)
(* the execution lock.  The backend's handlers run in one step here: their  *)
(* interleaving is PayrollSettlement's subject.                             *)
(***************************************************************************)
EXTENDS Naturals, Sequences, FiniteSets, FiniteSetsExt

CONSTANTS
    Tabs,            \* browser tabs of the payer that run this payroll
    BatchAmounts,    \* the total of each unit, in order
    RunFeeBps, RunBpsUnit,   \* payroll fee and its scale (10_000 in the code)
    GrossQuotes,     \* inputs the cross-token quote may ask for
    StartAllowances, \* allowances the payer may have left from earlier runs
    MaxClicks,       \* bound: presses of Send
    MaxRunFaults     \* bound: reloads, failing calls, slow signatures, reverts

ASSUME RunAssumption ==
    /\ BatchAmounts \in Seq(Nat)
    /\ RunFeeBps \in Nat /\ RunBpsUnit \in Nat \ {0}
    /\ GrossQuotes \subseteq Nat /\ StartAllowances \subseteq Nat

Batches == DOMAIN BatchAmounts

VARIABLES
    route,       \* "same" when the group pays the source token, else "cross"
    taskMade,    \* the Task row exists
    unitRow,     \* TaskUnit: status and payload.executionIntentStatus
    unitIntent,  \* the PAYROLL intent of each unit
    approvals,   \* status of the TOKEN_APPROVAL intents, by reference
    payments,    \* the payroll transactions broadcast, in order
    approving,   \* approve transactions broadcast and not yet mined
    granted,     \* allowance of the payroll contract on chain
    storage,     \* localStorage, by the unit's reference
    run,         \* what each tab's execute() is doing
    clicks, runFaults

runVars == <<route, taskMade, unitRow, unitIntent, approvals, payments,
             approving, granted, storage, run, clicks, runFaults>>
runRows == <<taskMade, unitRow, unitIntent>>

(* What execute() holds: the allowance its closure captured, the     *)
(* unit, the funding, the hash, and what it awaits; `shown' is the message  *)
(* a run leaves on the screen.                                              *)
NoRun == [at |-> "idle", captured |-> 0, unit |-> 0, funding |-> 0,
          hash |-> 0, ok |-> FALSE, shown |-> "none"]

NoPaymentHash == 0
Steps == {"idle", "init", "approve", "approveSign", "approveBind", "approveWait",
          "recover", "submit", "prepare", "sign", "bind", "bindAgain", "record", "report"}
IntentStatuses == {"CREATED", "AWAITING_WALLET_SIGNATURE", "SUBMITTED", "VERIFYING",
                   "COMPLETED", "FAILED_FINAL"}

(* The reference of an approval intent: the group's, or with the unit and   *)
(* the quoted input for a cross-token batch.                                *)
ApprovalRefs == [unit : Batches \cup {0}, amount : GrossQuotes \cup {0}]
ApprovalReference(r) ==
    IF route = "same" THEN [unit |-> 0, amount |-> 0]
                      ELSE [unit |-> r.unit, amount |-> r.funding]

RunInit ==
    /\ route \in {"same", "cross"}
    /\ taskMade = FALSE
    /\ unitRow = [u \in Batches |-> [status |-> "PENDING", seen |-> "none"]]
    /\ unitIntent = [u \in Batches |-> [status |-> "CREATED", lease |-> "none", hash |-> NoPaymentHash]]
    /\ approvals = [a \in ApprovalRefs |-> "CREATED"]
    /\ payments = <<>>
    /\ approving = {}
    /\ granted \in StartAllowances
    /\ storage = [u \in Batches |-> [status |-> "none", hash |-> NoPaymentHash]]
    /\ run = [t \in Tabs |-> NoRun]
    /\ clicks = 0
    /\ runFaults = 0

RunStep(t, at) == run' = [run EXCEPT ![t].at = at]
EndRun(t, message) == run' = [run EXCEPT ![t] = [NoRun EXCEPT !.shown = message]]
Failing == runFaults < MaxRunFaults /\ runFaults' = runFaults + 1

-----------------------------------------------------------------------------
(* Amounts *)

(* sameTokenFunding: what the contract pulls for one batch. *)
SameTokenFunding(u) == BatchAmounts[u] + (BatchAmounts[u] * RunFeeBps) \div RunBpsUnit

(* groupFeeInclusiveAmount over the whole group: it is never below the      *)
(* backend's approvalAmount, whose fee rate is the same or zero.            *)
RequiredApproval == FoldSet(LAMBDA u, s : s + SameTokenFunding(u), 0, Batches)

-----------------------------------------------------------------------------
(* Backend calls *)

(* The receipt verifier: a mined transaction may still lack confirmations. *)
RunVerdicts(h) ==
    CASE payments[h].status = "pending" -> {"unconfirmed"}
      [] payments[h].status = "success" -> {"verified", "unconfirmed"}
      [] OTHER -> {"rejected", "unconfirmed"}

(* createPayrollTask on an existing task: reconcilePayrollIntents settles   *)
(* every intent that has a hash and copies the intents' statuses into the   *)
(* units.                                                                   *)
Reconciled(i, verdict) ==
    IF i.status \notin {"SUBMITTED", "VERIFYING"} THEN i.status
    ELSE CASE verdict = "verified" -> "COMPLETED"
           [] verdict = "rejected" -> "FAILED_FINAL"
           [] OTHER -> "VERIFYING"

UnitStatusAfter(old, seen) ==
    IF old # "PENDING" THEN old
    ELSE CASE seen = "COMPLETED" -> "SUCCESS"
           [] seen = "FAILED_FINAL" -> "FAILED"
           [] OTHER -> "PENDING"

InitTask(verdict) ==
    /\ taskMade' = TRUE
    /\ IF ~taskMade THEN UNCHANGED <<unitRow, unitIntent>>
       ELSE LET after == [u \in Batches |-> Reconciled(unitIntent[u], verdict[u])] IN
            /\ unitIntent' = [u \in Batches |-> [unitIntent[u] EXCEPT !.status = after[u]]]
            /\ unitRow' = [u \in Batches |->
                  [status |-> UnitStatusAfter(unitRow[u].status, after[u]), seen |-> after[u]]]

(* prepareWalletSignature *)
PrepareAgain(s) ==   \* variant: an unresolved wallet prompt is opened again
    s \in {"CREATED", "FAILED_RETRYABLE", "AWAITING_WALLET_SIGNATURE"}

PrepareAccepted(s) == s \in {"CREATED", "FAILED_RETRYABLE"}

(* bindTransactionHash: a lease is needed only while the wallet's answer is *)
(* awaited.                                                                 *)
BindAccepted(i, h, lease) ==
    \/ i.hash = h
    \/ i.hash = NoPaymentHash /\ (i.status = "AWAITING_WALLET_SIGNATURE" => i.lease = lease)

BoundIntent(i, h) ==
    IF i.hash = h THEN i ELSE [status |-> "SUBMITTED", lease |-> "none", hash |-> h]

(* findNextPendingUnit, whatever the unit's intent says *)
NextAmong(rows, statuses) ==
    LET open == {u \in Batches : rows[u].status \in statuses}
    IN  IF open = {} THEN 0 ELSE Min(open)

NextUnfinished(rows) ==   \* variant: failed units come round again
    NextAmong(rows, {"PENDING", "FAILED"})

FindNextPendingUnit(rows) == NextAmong(rows, {"PENDING"})

-----------------------------------------------------------------------------
(* execute() up to the first unit *)

(* The lock is a ref of this tab; the closure keeps the allowance of the    *)
(* render it was made in.  A press that the route's gates turn away changes *)
(* nothing.                                                                 *)
PressSend(t) ==
    /\ run[t].at = "idle"
    /\ clicks < MaxClicks
    /\ clicks' = clicks + 1
    /\ run' = [run EXCEPT ![t] = [NoRun EXCEPT !.at = "init", !.captured = granted]]
    /\ UNCHANGED <<route, runRows, approvals, payments, approving, granted, storage, runFaults>>

(* resumablePayrollUnit reads the plan that the init call returned. *)
ResumablePayrollUnit(rows) ==
    LET u == FindNextPendingUnit(rows)
    IN  IF u # 0 /\ rows[u].seen \in {"none", "CREATED", "FAILED_RETRYABLE"} THEN u ELSE 0

StartUnit(t, r, u) ==
    run' = [run EXCEPT ![t] = IF u = 0 THEN [NoRun EXCEPT !.shown = r.shown]
                              ELSE [r EXCEPT !.at = "recover", !.unit = u]]

InitPlan(t) ==
    /\ run[t].at = "init"
    /\ \E verdict \in [Batches -> {"verified", "rejected", "unconfirmed"}] :
         /\ \A u \in Batches : IF unitIntent[u].hash = NoPaymentHash THEN verdict[u] = "unconfirmed"
                               ELSE verdict[u] \in RunVerdicts(unitIntent[u].hash)
         /\ InitTask(verdict)
    /\ IF route = "same" /\ run[t].captured < RequiredApproval
       THEN run' = [run EXCEPT ![t].at = "approve", ![t].funding = RequiredApproval,
                               ![t].unit = ResumablePayrollUnit(unitRow')]
       ELSE StartUnit(t, run[t], ResumablePayrollUnit(unitRow'))
    /\ UNCHANGED <<route, approvals, payments, approving, granted, storage, clicks, runFaults>>

(* Approvals: acquireExecutionIntent and prepareWallet, the wallet, the     *)
(* hash bound, the allowance read until it suffices.  A refused or rejected *)
(* approval ends a same-token run and fails a cross-token unit.             *)
ApprovalFailed(t, r) ==
    IF route = "same" THEN EndRun(t, r)
    ELSE run' = [run EXCEPT ![t].at = "bindAgain", ![t].ok = FALSE]

PrepareApproval(t) ==
    LET a == ApprovalReference(run[t]) IN
    /\ run[t].at = "approve"
    /\ IF PrepareAccepted(approvals[a])
       THEN /\ approvals' = [approvals EXCEPT ![a] = "AWAITING_WALLET_SIGNATURE"]
            /\ RunStep(t, "approveSign")
       ELSE ApprovalFailed(t, "refused") /\ UNCHANGED approvals
    /\ UNCHANGED <<route, runRows, payments, approving, granted, storage, clicks, runFaults>>

SignApproval(t) ==
    /\ run[t].at = "approveSign"
    /\ \/ approving' = approving \cup {run[t].funding} /\ RunStep(t, "approveBind")
       \/ ApprovalFailed(t, "rejected") /\ UNCHANGED approving
    /\ UNCHANGED <<route, runRows, approvals, payments, granted, storage, clicks, runFaults>>

BindApproval(t) ==
    /\ run[t].at = "approveBind"
    /\ \/ /\ approvals' = [approvals EXCEPT ![ApprovalReference(run[t])] = "SUBMITTED"]
          /\ RunStep(t, "approveWait")
          /\ UNCHANGED runFaults
       \/ ApprovalFailed(t, "failed") /\ Failing /\ UNCHANGED approvals
    /\ UNCHANGED <<route, runRows, payments, approving, granted, storage, clicks>>

WaitForAllowanceUpdate(t) ==
    /\ run[t].at = "approveWait"
    /\ granted >= run[t].funding
    /\ IF route = "same" THEN StartUnit(t, run[t], run[t].unit)
       ELSE run' = [run EXCEPT ![t].at = "prepare"]
    /\ UNCHANGED <<route, runRows, approvals, payments, approving, granted, storage, clicks, runFaults>>

(* The polls run out: another tab spent the allowance, or the approval is   *)
(* still not mined.                                                         *)
AllowanceTimeout(t) ==
    /\ run[t].at = "approveWait"
    /\ granted < run[t].funding
    /\ IF run[t].funding \in approving THEN Failing ELSE UNCHANGED runFaults
    /\ ApprovalFailed(t, "failed")
    /\ UNCHANGED <<route, runRows, approvals, payments, approving, granted, storage, clicks>>

-----------------------------------------------------------------------------
(* One unit *)

(* getRecoveredPayrollBatch, then beginPayrollBatchSubmission.  A stored    *)
(* hash whose receipt is not there yet makes getTransactionReceipt throw.   *)
Recovered(u) ==
    /\ storage[u].hash # NoPaymentHash
    /\ payments[storage[u].hash].status = "success"

Stored(u, status) == [storage EXCEPT ![u] = [status |-> status, hash |-> NoPaymentHash]]

RecoverUnit(t) ==
    LET u == run[t].unit IN
    /\ run[t].at = "recover"
    /\ IF Recovered(u)
       THEN /\ run' = [run EXCEPT ![t].at = "bindAgain", ![t].ok = TRUE, ![t].hash = storage[u].hash]
            /\ UNCHANGED storage
       ELSE /\ RunStep(t, "submit")
            /\ storage' = IF storage[u].status = "none" THEN Stored(u, "submitted") ELSE storage
    /\ UNCHANGED <<route, runRows, approvals, payments, approving, granted, clicks, runFaults>>

(* handleSubmit up to the wallet, same-token: the allowance is read again   *)
(* only when the captured one is below the batch total without its fee.     *)
LatestAllowance(r) == IF r.captured < BatchAmounts[r.unit] THEN granted ELSE r.captured

SubmitSameToken(t) ==
    LET r == run[t]
        f == SameTokenFunding(r.unit)
    IN
    /\ r.at = "submit"
    /\ route = "same"
    /\ run' = [run EXCEPT ![t] =
          IF LatestAllowance(r) >= f
          THEN [r EXCEPT !.at = "prepare", !.funding = f]
          ELSE [r EXCEPT !.at = "bindAgain", !.ok = FALSE]]
    /\ UNCHANGED <<route, runRows, approvals, payments, approving, granted, storage, clicks, runFaults>>

(* Cross-token: the quote's gross input is the funding, the allowance is    *)
(* read from the chain and topped up under a reference that names it.       *)
SubmitCrossToken(t) ==
    /\ run[t].at = "submit"
    /\ route = "cross"
    /\ \/ \E q \in GrossQuotes :
            /\ run' = [run EXCEPT ![t].funding = q,
                                  ![t].at = IF granted < q THEN "approve" ELSE "prepare"]
            /\ UNCHANGED runFaults
       \/ Failing /\ run' = [run EXCEPT ![t].at = "bindAgain", ![t].ok = FALSE]   \* no quote
    /\ UNCHANGED <<route, runRows, approvals, payments, approving, granted, storage, clicks>>

(* executeWithViem: prepareWalletExecutionIntent, then the wallet. *)
PrepareUnit(t) ==
    LET u == run[t].unit IN
    /\ run[t].at = "prepare"
    /\ IF PrepareAccepted(unitIntent[u].status)
       THEN /\ unitIntent' = [unitIntent EXCEPT ![u].status = "AWAITING_WALLET_SIGNATURE",
                                                ![u].lease = t]
            /\ RunStep(t, "sign")
       ELSE /\ run' = [run EXCEPT ![t].at = "bindAgain", ![t].ok = FALSE]
            /\ UNCHANGED unitIntent
    /\ UNCHANGED <<route, taskMade, unitRow, approvals, payments, approving, granted, storage, clicks, runFaults>>

SignUnit(t) ==
    /\ run[t].at = "sign"
    /\ \/ /\ payments' = Append(payments, [unit |-> run[t].unit, funding |-> run[t].funding,
                                           status |-> "pending"])
          /\ run' = [run EXCEPT ![t].at = "bind", ![t].hash = Len(payments) + 1]
       \/ /\ run' = [run EXCEPT ![t].at = "bindAgain", ![t].ok = FALSE]
          /\ UNCHANGED payments
    /\ UNCHANGED <<route, runRows, approvals, approving, granted, storage, clicks, runFaults>>

(* The signature came later than the five minutes of the lease. *)
UnitLeaseExpires(u) ==
    /\ unitIntent[u].lease # "none"
    /\ Failing
    /\ unitIntent' = [unitIntent EXCEPT ![u].lease = "none"]
    /\ UNCHANGED <<route, taskMade, unitRow, approvals, payments, approving, granted, storage, run, clicks>>

(* The bind inside handleSubmit: its failure is the submission's failure,   *)
(* though the transaction is out.                                           *)
BindUnit(t) ==
    LET u == run[t].unit IN
    /\ run[t].at = "bind"
    /\ \/ /\ BindAccepted(unitIntent[u], run[t].hash, t)
          /\ unitIntent' = [unitIntent EXCEPT ![u] = BoundIntent(@, run[t].hash)]
          /\ run' = [run EXCEPT ![t].at = "bindAgain", ![t].ok = TRUE]
          /\ UNCHANGED runFaults
       \/ /\ IF BindAccepted(unitIntent[u], run[t].hash, t) THEN Failing ELSE UNCHANGED runFaults
          /\ run' = [run EXCEPT ![t].at = "bindAgain", ![t].ok = FALSE]
          /\ UNCHANGED unitIntent
    /\ UNCHANGED <<route, taskMade, unitRow, approvals, payments, approving, granted, storage, clicks>>

(* Back in the loop: the hash is bound once more, without a lease; a failed *)
(* submission removes the storage entry.                                    *)
BindAgain(t) ==
    LET u == run[t].unit
        recovered == storage[u].hash = run[t].hash
    IN
    /\ run[t].at = "bindAgain"
    /\ IF run[t].ok
       THEN \/ /\ BindAccepted(unitIntent[u], run[t].hash, "none")
               /\ unitIntent' = [unitIntent EXCEPT ![u] = BoundIntent(@, run[t].hash)]
               /\ RunStep(t, IF recovered THEN "report" ELSE "record")
               /\ UNCHANGED storage
            \/ /\ ~BindAccepted(unitIntent[u], run[t].hash, "none")
               /\ EndRun(t, "failed")
               /\ UNCHANGED <<unitIntent, storage>>
       ELSE /\ storage' = Stored(u, "none")
            /\ RunStep(t, "report")
            /\ UNCHANGED unitIntent
    /\ UNCHANGED <<route, taskMade, unitRow, approvals, payments, approving, granted, clicks, runFaults>>

ReceiptSucceeded(s) == s = "success"

RecordPayrollBatchConfirmation(t) ==
    LET u == run[t].unit IN
    /\ run[t].at = "record"
    /\ payments[run[t].hash].status # "pending"
    /\ IF ReceiptSucceeded(payments[run[t].hash].status)
       THEN /\ storage' = [storage EXCEPT ![u] = [status |-> "confirmed", hash |-> run[t].hash]]
            /\ RunStep(t, "report")
       ELSE EndRun(t, "failed") /\ UNCHANGED storage
    /\ UNCHANGED <<route, runRows, approvals, payments, approving, granted, clicks, runFaults>>

(* reportTaskUnit.  A success is verified first, and an unverified one is   *)
(* an error of the call; a failure is taken as it is.                       *)
ReportUnit(t) ==
    LET u == run[t].unit
        i == unitIntent[u]
        Report(outcome) ==
            /\ unitRow' = [unitRow EXCEPT ![u].status = IF @ = "PENDING" THEN outcome ELSE @]
            /\ StartUnit(t, [run[t] EXCEPT !.hash = NoPaymentHash, !.ok = FALSE],
                         FindNextPendingUnit(unitRow'))
    IN
    /\ run[t].at = "report"
    /\ IF ~run[t].ok THEN Report("FAILED") /\ UNCHANGED unitIntent
       ELSE \E verdict \in RunVerdicts(run[t].hash) :
              IF verdict = "verified" /\ i.status # "FAILED_FINAL"
              THEN /\ unitIntent' = [unitIntent EXCEPT ![u].status = "COMPLETED"]
                   /\ Report("SUCCESS")
              ELSE /\ unitIntent' = [unitIntent EXCEPT ![u].status =
                                        IF @ = "SUBMITTED" THEN "VERIFYING" ELSE @]
                   /\ EndRun(t, "failed")
                   /\ UNCHANGED unitRow
    /\ UNCHANGED <<route, taskMade, approvals, payments, approving, granted, storage, clicks, runFaults>>

(* The tab is reloaded: what execute() held is gone, the storage stays. *)
Reload(t) ==
    /\ run[t].at # "idle"
    /\ Failing
    /\ run' = [run EXCEPT ![t] = NoRun]
    /\ UNCHANGED <<route, runRows, approvals, payments, approving, granted, storage, clicks>>

-----------------------------------------------------------------------------
(* The chain: approve sets the allowance; a payment pulls its funding and   *)
(* its reference pays once.                                                 *)
MineApproval(a) ==
    /\ a \in approving
    /\ approving' = approving \ {a}
    /\ granted' = a
    /\ UNCHANGED <<route, runRows, approvals, payments, storage, run, clicks, runFaults>>

MinePayment(h) ==
    LET p == payments[h]
        pays == /\ granted >= p.funding
                /\ ~\E k \in DOMAIN payments : payments[k].unit = p.unit /\ payments[k].status = "success"
    IN
    /\ p.status = "pending"
    /\ \/ /\ pays
          /\ payments' = [payments EXCEPT ![h].status = "success"]
          /\ granted' = granted - p.funding
          /\ UNCHANGED runFaults
       \/ /\ IF pays THEN Failing ELSE UNCHANGED runFaults
          /\ payments' = [payments EXCEPT ![h].status = "reverted"]
          /\ UNCHANGED granted
    /\ UNCHANGED <<route, runRows, approvals, approving, storage, run, clicks>>

TabStep(t) ==
    \/ InitPlan(t) \/ PrepareApproval(t) \/ SignApproval(t) \/ BindApproval(t)
    \/ WaitForAllowanceUpdate(t) \/ AllowanceTimeout(t) \/ RecoverUnit(t) \/ SubmitSameToken(t)
    \/ SubmitCrossToken(t) \/ PrepareUnit(t) \/ SignUnit(t) \/ BindUnit(t)
    \/ BindAgain(t) \/ RecordPayrollBatchConfirmation(t) \/ ReportUnit(t)

ChainStep == (\E a \in approving : MineApproval(a)) \/ (\E h \in DOMAIN payments : MinePayment(h))

RunNext ==
    \/ \E t \in Tabs : PressSend(t) \/ TabStep(t) \/ Reload(t)
    \/ \E u \in Batches : UnitLeaseExpires(u)
    \/ ChainStep

(* The code of a tab and the chain go on; nobody has to press Send. *)
RunFairness == (\A t \in Tabs : WF_runVars(TabStep(t))) /\ WF_runVars(ChainStep)

RunSpec == RunInit /\ [][RunNext]_runVars /\ RunFairness

-----------------------------------------------------------------------------
(* Properties *)

(* The variables range over the values the code gives them. *)
RunTypeOK ==
    /\ unitRow \in [Batches -> [status : {"PENDING", "SUCCESS", "FAILED"},
                                seen : IntentStatuses \cup {"none"}]]
    /\ unitIntent \in [Batches -> [status : IntentStatuses, lease : Tabs \cup {"none"}, hash : Nat]]
    /\ approvals \in [ApprovalRefs -> IntentStatuses]
    /\ \A t \in Tabs : run[t].at \in Steps /\ run[t].unit \in Batches \cup {0}
    /\ granted \in Nat

(* However tabs, reloads, slow signatures and failing calls interleave, the *)
(* wallet is asked to broadcast a unit of the run at most once: "a          *)
(* confirmed batch cannot be submitted twice" (hooks/wizpay/index.ts).      *)
UnitBroadcastOnce ==
    \A h, k \in DOMAIN payments : payments[h].unit = payments[k].unit => h = k

(* Local storage calls a batch confirmed only if its transaction succeeded, *)
(* so a later run never reports an unpaid batch from it.                    *)
StoredIsConfirmed ==
    \A u \in Batches : storage[u].status = "confirmed" =>
        payments[storage[u].hash].status = "success" /\ payments[storage[u].hash].unit = u

(* execute() always comes back: no run reports one unit for ever, so the    *)
(* lock is released.                                                        *)
RunEnds == \A t \in Tabs : run[t].at # "idle" ~> run[t].at = "idle"

(* What the batches still PENDING need. *)
OpenFunding ==
    FoldSet(LAMBDA u, s : s + SameTokenFunding(u), 0, {u \in Batches : unitRow[u].status = "PENDING"})

(* "retry this run to resume only unconfirmed batches": once a batch is     *)
(* confirmed, a retry is not turned away at the approval when the allowance *)
(* on chain already funds every batch that is left.                         *)
RetryResumes == [][
    \A t \in Tabs :
        run[t].at = "approve" /\ run'[t].shown = "refused" /\ (\E u \in Batches : unitRow[u].status = "SUCCESS")
        => granted < OpenFunding]_runVars

(* A unit of the run is paid once and known to be paid only when it is:     *)
(* types, one broadcast per unit, and confirmations that are receipts.      *)
UnitsArePaidOnce == RunTypeOK /\ UnitBroadcastOnce /\ StoredIsConfirmed
=============================================================================
