------------------------- MODULE PayrollSettlement -------------------------
(***************************************************************************)
(* A payroll run: the Task with one TaskUnit per batch, the execution       *)
(* intent of every unit, and the handlers that join them:                   *)
(*   POST tasks/payroll/init   TaskService.createPayrollTask, which on a    *)
(*                             repeated init reconciles every unit with its *)
(*                             intent (reconcilePayrollIntents);            *)
(*   POST units/:id/report     TaskController.reportTaskUnit.               *)
(* Both end in the transaction of TaskUnitService.reportUnit (TaskUnits).   *)
(*                                                                          *)
(* The units are numbered as the batches are: unit k is paid through the    *)
(* intent with logical key k.  Requests to /execution-intents (the wallet's *)
(* prepare, bind, cancel, verify) appear as the store statements they       *)
(* issue.  Those cannot complete a payroll intent.                          *)
(***************************************************************************)
EXTENDS IntentStore, TaskUnits

CONSTANTS
    Due         \* Due[k]: the transfers batch k must make

ASSUME UnitsAssumption == /\ Keys = Units
                          /\ Due \in [Keys -> Payloads]

VARIABLES
    attached,        \* the intents whose taskId column is set
    pc,              \* the next await of each request
    local            \* what it was called with and has read

taskVars == <<rowVars, attached>>
handlerVars == <<pc, local>>
vars == <<storeVars, taskVars, tx, handlerVars>>

Labels == {"idle", "initAcquire", "initFind", "initCreate", "initAttach",
           "reportRead", "bindRead", "bindWrite",
           "reconcileRead", "beginRead", "beginWrite", "beginReread",
           "receipt", "completeRead", "completeWrite", "failWrite",
           "reporting"}

Locals == [flow : {"none", "init", "reconcile", "report"},
           unit : 0..NumUnits,
           hash : Hashes \cup {NoHash},
           seen : Statuses \cup {"ABSENT"}]      \* status of the intent as last read

NewLocal(flow, k, h) == [flow |-> flow, unit |-> k, hash |-> h, seen |-> "ABSENT"]

IdleLocal == NewLocal("none", 0, NoHash)

Init ==
    /\ StoreInit
    /\ UnitInit
    /\ attached = {}
    /\ pc = [p \in Handlers |-> "idle"]
    /\ local = [p \in Handlers |-> IdleLocal]

Goto(p, label) == pc' = [pc EXCEPT ![p] = label] /\ UNCHANGED tx
Jump(p, label) == Goto(p, label) /\ UNCHANGED local
Become(p, label, r) == Goto(p, label) /\ local' = [local EXCEPT ![p] = r]
Return(p) == Become(p, "idle", IdleLocal)

NextUnit(p) ==
    IF local[p].flow = "reconcile" /\ local[p].unit < NumUnits
      THEN Become(p, "reconcileRead", NewLocal("reconcile", local[p].unit + 1, NoHash))
      ELSE Return(p)

ReportUnit(p, result) ==
    /\ pc' = [pc EXCEPT ![p] = "reporting"]
    /\ BeginReport(p, local[p].unit, result)
    /\ UNCHANGED local

(* An exception that is not marked retryable.  In the report handler it is  *)
(* the answer.  In the reconcile loop's catch block the local copy of the   *)
(* intent decides whether the intent fails before the unit does.            *)
Throw(p) ==
    \/ local[p].flow = "report" /\ Return(p)
    \/ local[p].flow = "reconcile" /\ local[p].seen = "VERIFYING" /\ Jump(p, "failWrite")
    \/ local[p].flow = "reconcile" /\ local[p].seen # "VERIFYING" /\ ReportUnit(p, "FAILED")

-----------------------------------------------------------------------------
(* createPayrollTask *)
InitRequest(p) ==
    /\ pc[p] = "idle"
    /\ Become(p, "initAcquire", NewLocal("init", 0, NoHash))
    /\ UNCHANGED <<storeVars, taskVars>>

InitAcquire(p) ==
    /\ pc[p] = "initAcquire"
    /\ \/ \E k \in Keys : AcquireCreate(k, Due[k]) /\ UNCHANGED <<handlerVars, tx>>
       \/ (\A k \in Keys : Exists(k)) /\ Jump(p, "initFind") /\ UNCHANGED storeVars
    /\ UNCHANGED taskVars

InitFind(p) ==
    /\ pc[p] = "initFind"
    /\ \/ /\ taskStatus # "absent"
          /\ Become(p, "initAttach", NewLocal("reconcile", 0, NoHash))
       \/ taskStatus = "absent" /\ Jump(p, "initCreate")
    /\ UNCHANGED <<storeVars, taskVars>>

(* The task's id is the first intent's: a concurrent creation is a primary  *)
(* key conflict, and its row is used.                                       *)
InitCreate(p) ==
    /\ pc[p] = "initCreate"
    /\ \/ CreateTask
       \/ taskStatus # "absent" /\ UNCHANGED rowVars
    /\ Jump(p, "initAttach")
    /\ UNCHANGED <<storeVars, attached>>

InitAttach(p) ==
    /\ pc[p] = "initAttach"
    /\ \/ /\ \E k \in Keys \ attached : attached' = attached \cup {k}
          /\ UNCHANGED <<handlerVars, tx>>
       \/ Keys = attached /\ NextUnit(p) /\ UNCHANGED attached
    /\ UNCHANGED <<storeVars, rowVars>>

-----------------------------------------------------------------------------
(* reportTaskUnit: a FAILED body goes straight to reportUnit; a SUCCESS     *)
(* body binds the hash, verifies it and completes the intent first.         *)
ReportRequest(p) ==
    /\ pc[p] = "idle"
    /\ taskStatus # "absent"
    /\ \E k \in Keys :
        \/ /\ pc' = [pc EXCEPT ![p] = "reporting"]
           /\ local' = [local EXCEPT ![p] = NewLocal("report", k, NoHash)]
           /\ BeginReport(p, k, "FAILED")
        \/ \E h \in Hashes : Become(p, "reportRead", NewLocal("report", k, h))
    /\ UNCHANGED <<storeVars, taskVars>>

ReportRead(p) ==
    /\ pc[p] = "reportRead"
    /\ \/ local[p].unit \in attached /\ Jump(p, "bindRead")
       \/ local[p].unit \notin attached /\ Return(p)
    /\ UNCHANGED <<storeVars, taskVars>>

(* bindTransactionHash without a lease owner *)
BindRead(p) ==
    LET k == local[p].unit IN
    /\ pc[p] = "bindRead"
    /\ \/ transactionHash[k] = local[p].hash /\ Jump(p, "beginRead")
       \/ /\ transactionHash[k] = NoHash /\ status[k] # "AWAITING_WALLET_SIGNATURE"
          /\ Jump(p, "bindWrite")
       \/ /\ \/ transactionHash[k] \notin {NoHash, local[p].hash}
             \/ transactionHash[k] = NoHash /\ status[k] = "AWAITING_WALLET_SIGNATURE"
          /\ Return(p)
    /\ UNCHANGED <<storeVars, taskVars>>

BindUpdate(p) ==
    LET k == local[p].unit IN
    /\ pc[p] = "bindWrite"
    /\ \/ BindWrite(k, local[p].hash) /\ Jump(p, "beginRead")
       \/ transactionHash[k] # NoHash /\ Jump(p, "bindRead") /\ UNCHANGED storeVars
       \/ transactionHash[k] = NoHash /\ ~HashFree(local[p].hash) /\ Return(p) /\ UNCHANGED storeVars
    /\ UNCHANGED taskVars

-----------------------------------------------------------------------------
(* reconcilePayrollIntents, one unit *)
ReconcileRead(p) ==
    LET k == local[p].unit
        open == transactionHash[k] # NoHash /\ status[k] \in {"SUBMITTED", "VERIFYING"} IN
    /\ pc[p] = "reconcileRead"
    /\ \/ status[k] = "COMPLETED" /\ ReportUnit(p, "SUCCESS")
       \/ status[k] \in Terminal \ {"COMPLETED"} /\ ReportUnit(p, "FAILED")
       \/ status[k] \notin Terminal /\ ~open /\ NextUnit(p)
       \/ /\ open
          /\ Become(p, IF status[k] = "SUBMITTED" THEN "beginRead" ELSE "receipt",
                    [local[p] EXCEPT !.hash = transactionHash[k], !.seen = status[k]])
    /\ UNCHANGED <<storeVars, taskVars>>

(* beginVerification of an intent whose hash is bound: SUBMITTED is moved   *)
(* on, any other status is returned as read.                                *)
BeginRead(p) ==
    LET k == local[p].unit IN
    /\ pc[p] = "beginRead"
    /\ \/ status[k] = "SUBMITTED" /\ Jump(p, "beginWrite")
       \/ status[k] # "SUBMITTED" /\ Become(p, "receipt", [local[p] EXCEPT !.seen = status[k]])
    /\ UNCHANGED <<storeVars, taskVars>>

BeginWrite(p) ==
    LET k == local[p].unit IN
    /\ pc[p] = "beginWrite"
    /\ \/ AdvanceWrite(k, "SUBMITTED") /\ Jump(p, "beginReread")
       \/ status[k] # "SUBMITTED" /\ Throw(p) /\ UNCHANGED storeVars
    /\ UNCHANGED taskVars

BeginReread(p) ==
    /\ pc[p] = "beginReread"
    /\ Become(p, "receipt", [local[p] EXCEPT !.seen = status[local[p].unit]])
    /\ UNCHANGED <<storeVars, taskVars>>

(* verifyMainnetCall and the events: the transaction pays the batch. *)
PaysBatch(h, k) == ReceiptMatches(h, payload[k])

(* A receipt that is there may be refused: it is a mismatch, or the chain   *)
(* head the node reports is behind it (finishMainnetReceipt).               *)
Refusable(h) == chain[h] # "unseen"

(* PayrollReceiptVerifierService.verify.  A receipt that is missing or not  *)
(* yet confirmed, or an RPC failure, is retryable; a reverted or different  *)
(* transaction is refused; so is an exact one when the node that reports    *)
(* the head of the chain is behind the block of the receipt.                *)
AnyReceipt(p) ==   \* variant: the receipt is there, but nothing compares it
    /\ pc[p] = "receipt"
    /\ chain[local[p].hash] # "unseen"
    /\ Jump(p, "completeRead")
    /\ UNCHANGED <<storeVars, taskVars>>

Receipt(p) ==
    LET h == local[p].hash IN
    /\ pc[p] = "receipt"
    /\ \/ PaysBatch(h, local[p].unit) /\ Jump(p, "completeRead")
       \/ Refusable(h) /\ Throw(p)
       \/ NextUnit(p)
    /\ UNCHANGED <<storeVars, taskVars>>

(* completeWithVerifiedReceipt *)
CompleteRead(p) ==
    LET k == local[p].unit
        same == transactionHash[k] = local[p].hash IN
    /\ pc[p] = "completeRead"
    /\ \/ same /\ status[k] = "COMPLETED" /\ ReportUnit(p, "SUCCESS")
       \/ same /\ status[k] = "VERIFYING" /\ Jump(p, "completeWrite")
       \/ (~same \/ status[k] \notin {"COMPLETED", "VERIFYING"}) /\ Throw(p)
    /\ UNCHANGED <<storeVars, taskVars>>

CompleteUpdate(p) ==
    LET k == local[p].unit IN
    /\ pc[p] = "completeWrite"
    /\ \/ CompleteWrite(k) /\ ReportUnit(p, "SUCCESS")
       \/ status[k] # "VERIFYING" /\ Throw(p) /\ UNCHANGED storeVars
    /\ UNCHANGED taskVars

FailUpdate(p) ==
    LET k == local[p].unit IN
    /\ pc[p] = "failWrite"
    /\ \/ FailWrite(k) /\ ReportUnit(p, "FAILED")
       \/ status[k] # "VERIFYING" /\ Return(p) /\ UNCHANGED storeVars
    /\ UNCHANGED taskVars

-----------------------------------------------------------------------------
(* reportUnit runs as a transaction of TaskUnits; its caller then goes on.  *)
Reporting(p) ==
    /\ pc[p] = "reporting"
    /\ \/ TxStep(p) /\ UNCHANGED <<storeVars, attached, handlerVars>>
       \/ Idle(p) /\ NextUnit(p) /\ UNCHANGED <<storeVars, taskVars>>

(* The transaction fails while the backend lives (a lost connection, the    *)
(* transaction timeout).  Only the SUCCESS report that follows a completion *)
(* is inside the reconcile loop's try block.                                *)
ReportFails(p) ==
    LET caught == /\ local[p].flow = "reconcile" /\ local[p].hash # NoHash
                  /\ tx[p].result = "SUCCESS" IN
    /\ pc[p] = "reporting" /\ ~Idle(p)
    /\ \/ /\ caught /\ local[p].seen # "VERIFYING"
          /\ tx' = [tx EXCEPT ![p] = Transaction("unitRead", local[p].unit, "FAILED")]
          /\ UNCHANGED handlerVars
       \/ /\ caught /\ local[p].seen = "VERIFYING"
          /\ pc' = [pc EXCEPT ![p] = "failWrite"]
          /\ EndReport(p)
          /\ UNCHANGED local
       \/ /\ ~caught
          /\ pc' = [pc EXCEPT ![p] = "idle"]
          /\ local' = [local EXCEPT ![p] = IdleLocal]
          /\ EndReport(p)
    /\ UNCHANGED <<storeVars, taskVars>>

-----------------------------------------------------------------------------
(* A restart of the backend rolls an open transaction back. *)
Crash(p) ==
    /\ pc[p] # "idle"
    /\ pc' = [pc EXCEPT ![p] = "idle"]
    /\ local' = [local EXCEPT ![p] = IdleLocal]
    /\ EndReport(p)
    /\ UNCHANGED <<storeVars, taskVars>>

(* The statements other requests issue on payroll intents. *)
OtherRequests ==
    /\ \E k \in Keys :
        /\ Exists(k)
        /\ \/ \E s \in Statuses : PrepareWrite(k, s) \/ AdvanceWrite(k, s)
           \/ \E h \in Hashes : BindWrite(k, h)
           \/ CancelWrite(k)
    /\ UNCHANGED <<taskVars, tx, handlerVars>>

Chain == /\ \E h \in Hashes : \E outcome \in {"success", "reverted"} : Mine(h, outcome)
         /\ UNCHANGED <<taskVars, tx, handlerVars>>

Step(p) ==
    \/ InitAcquire(p) \/ InitFind(p) \/ InitCreate(p) \/ InitAttach(p)
    \/ ReportRead(p) \/ BindRead(p) \/ BindUpdate(p)
    \/ ReconcileRead(p) \/ BeginRead(p) \/ BeginWrite(p) \/ BeginReread(p)
    \/ Receipt(p) \/ CompleteRead(p) \/ CompleteUpdate(p) \/ FailUpdate(p)
    \/ Reporting(p)

Next ==
    \/ \E p \in Handlers : \/ InitRequest(p) \/ ReportRequest(p)
                          \/ Step(p) \/ ReportFails(p) \/ Crash(p)
    \/ OtherRequests
    \/ Chain

Spec == Init /\ [][Next]_vars

-----------------------------------------------------------------------------
TypeOK ==
    /\ StoreTypeOK
    /\ UnitTypeOK
    /\ attached \subseteq Keys
    /\ pc \in [Handlers -> Labels]
    /\ local \in [Handlers -> Locals]

(* A unit is recorded as paid only after its own intent was completed by a  *)
(* verified receipt, whichever of the two handlers reports it and however   *)
(* reports of the same unit overlap (reportTaskUnit, reconcilePayrollIntents). *)
SuccessIsVerified ==
    \A k \in Keys : unitStatus[k] = "SUCCESS" =>
        status[k] = "COMPLETED" /\ ReceiptMatches(transactionHash[k], Due[k])

(* A missing receipt is never taken as a failure: an intent is given up for *)
(* good only when its transaction has been mined (verify's retryable flag). *)
PendingIsNotFailure ==
    \A k \in Keys : status[k] = "FAILED_FINAL" => chain[transactionHash[k]] # "unseen"

(* What is recorded of a unit and its intent is what the chain has shown:   *)
(* types, no success without the verified payment, no final failure without *)
(* a mined transaction.                                                     *)
OutcomesFollowChain == TypeOK /\ SuccessIsVerified /\ PendingIsNotFailure

(* An intent fails for good only when its transaction is not the payment:   *)
(* confirmations the node has not reported yet stay retryable (verify).     *)
FinalFailureIsMismatch ==
    \A k \in Keys : status[k] = "FAILED_FINAL" =>
        ~ReceiptMatches(transactionHash[k], payload[k])

(* The reconcile loop reports a unit as failed for good only when its       *)
(* intent has ended without a payment: "Payroll receipt verification failed *)
(* permanently." is never said of an intent that is still being verified or *)
(* is COMPLETED.                                                            *)
ReconcileAgrees ==
    [][\A p \in Handlers :
         /\ local[p].flow = "reconcile" /\ pc[p] # "reporting" /\ pc'[p] = "reporting"
         /\ tx'[p].result = "FAILED"
         => status'[local[p].unit] \in Terminal \ {"COMPLETED"}]_vars
=============================================================================
