------------------------------ MODULE TxPoller ------------------------------
(***************************************************************************)
(* TransactionPollerService: one asynchronous task whose transfers are      *)
(* confirmed by jobs of the tx_poll queue.  A job polls one transaction     *)
(* once: it reads the receipt, updates the TaskTransaction row and either   *)
(* enqueues the next attempt or looks whether the task can be finalised.    *)
(* Every await of poll() is a step of its own, and the worker runs several  *)
(* jobs at a time (concurrency 10).                                         *)
(*                                                                         *)
(* No code of the repository enqueues a first poll any more (the payroll    *)
(* agent refuses backend submission); Submit and CompleteSubmissions model  *)
(* the caller the orchestrator's comments describe, as external.            *)
(***************************************************************************)
EXTENDS Naturals, FiniteSets

CONSTANTS
    Txs,               \* the transactions of the task
    PollWorkers,       \* the jobs the worker may run at the same time
    MaxPollAttempts,   \* MAX_POLL_ATTEMPTS (180 in the code)
    MaxPollFaults      \* bound: failing calls and stalled jobs of a behaviour

ASSUME PollAssumption ==
    /\ MaxPollAttempts \in Nat \ {0}
    /\ MaxPollFaults \in Nat
    /\ IsFiniteSet(Txs)

VARIABLES
    receipt,       \* what the chain holds for each transaction
    txStatus,      \* TaskTransaction.status, "absent" before the row exists
    submissionsComplete,  \* the log step task.submissions_complete exists
    runStatus,     \* Task.status
    pollQueue,     \* jobs waiting: a job is a transaction and its attempt
    pollJobIds,    \* job ids BullMQ knows, whether waiting, active or done
    poller,        \* the job each worker slot runs and the call it makes next
    delayHolds,    \* the 2 s delay of a job outlasts the enqueuer's next write
    pollFaults     \* faults so far

pollRows == <<receipt, txStatus, submissionsComplete, runStatus>>
pollVars == <<pollRows, pollQueue, pollJobIds, poller, delayHolds, pollFaults>>

TxStatuses == {"pending", "completed", "failed"}
Jobs == [tx : Txs, attempt : 0..MaxPollAttempts]
Calls == {"idle", "readReceipt", "setPending", "enqueue", "enqueueFirst",
          "setPendingLate", "setFinal", "hasLogStep", "aggregate", "readTask",
          "writeTask"}

(* What a job holds between two awaits: the receipt's verdict and then the  *)
(* status the aggregation calls for.                                        *)
Verdicts == {"none", "completed", "failed", "executed", "partial"}

NoJob == [at |-> "idle", tx |-> CHOOSE t \in Txs : TRUE, attempt |-> 0, verdict |-> "none"]

PollInit ==
    /\ receipt = [t \in Txs |-> "none"]
    /\ txStatus = [t \in Txs |-> "absent"]
    /\ submissionsComplete = FALSE
    /\ runStatus = "in_progress"
    /\ pollQueue = {}
    /\ pollJobIds = {}
    /\ poller = [w \in PollWorkers |-> NoJob]
    /\ delayHolds \in BOOLEAN
    /\ pollFaults = 0

-----------------------------------------------------------------------------
(* QueueService.enqueueTransactionPoll: the job id is made of task,         *)
(* transaction and attempt, and BullMQ ignores an id it already has.        *)
EnqueuePoll(t, a) ==
    LET job == [tx |-> t, attempt |-> a] IN
    /\ pollQueue' = IF job \in pollJobIds THEN pollQueue ELSE pollQueue \cup {job}
    /\ pollJobIds' = pollJobIds \cup {job}

(* TaskService.appendTransaction and the first poll of the transaction.     *)
Submit(t) ==
    /\ txStatus[t] = "absent"
    /\ ~submissionsComplete
    /\ txStatus' = [txStatus EXCEPT ![t] = "pending"]
    /\ EnqueuePoll(t, 0)
    /\ UNCHANGED <<receipt, submissionsComplete, runStatus, poller, delayHolds, pollFaults>>

(* The asynchronous branch of OrchestratorService.executeTask, once the     *)
(* agent has submitted every transfer.                                      *)
CompleteSubmissions ==
    /\ \A t \in Txs : txStatus[t] # "absent"
    /\ ~submissionsComplete
    /\ submissionsComplete' = TRUE
    /\ UNCHANGED <<receipt, txStatus, runStatus, pollQueue, pollJobIds, poller,
                   delayHolds, pollFaults>>

(* The chain mines a submitted transaction, or never does. *)
Mine(t) ==
    /\ txStatus[t] # "absent"
    /\ receipt[t] = "none"
    /\ \E r \in {"success", "reverted"} : receipt' = [receipt EXCEPT ![t] = r]
    /\ UNCHANGED <<txStatus, submissionsComplete, runStatus, pollQueue, pollJobIds,
                   poller, delayHolds, pollFaults>>

-----------------------------------------------------------------------------
At(w, call) == poller[w].at = call
Goto(w, call) == poller' = [poller EXCEPT ![w].at = call]
Finish(w) == poller' = [poller EXCEPT ![w] = NoJob]
Queues == <<pollQueue, pollJobIds>>
Settings == <<delayHolds, pollFaults>>

(* The worker takes a job; poll() gives up at the last attempt and asks the *)
(* chain otherwise.                                                         *)
StartPoll(w) ==
    \E job \in pollQueue :
        /\ At(w, "idle")
        /\ delayHolds => \A v \in PollWorkers :
                            ~(At(v, "setPendingLate") /\ poller[v].tx = job.tx)
        /\ pollQueue' = pollQueue \ {job}
        /\ LET timedOut == job.attempt >= MaxPollAttempts IN
           poller' = [poller EXCEPT ![w] =
              [at |-> IF timedOut THEN "setFinal" ELSE "readReceipt",
               tx |-> job.tx, attempt |-> job.attempt,
               verdict |-> IF timedOut THEN "failed" ELSE "none"]]
        /\ UNCHANGED <<pollRows, pollJobIds, Settings>>

(* getTransactionReceiptOnChain answers ... *)
ReadPollReceipt(w) ==
    /\ At(w, "readReceipt")
    /\ poller' = [poller EXCEPT
          ![w].at = IF receipt[poller[w].tx] = "none" THEN "setPending" ELSE "setFinal",
          ![w].verdict = CASE receipt[poller[w].tx] = "none" -> "none"
                           [] receipt[poller[w].tx] = "success" -> "completed"
                           [] receipt[poller[w].tx] = "reverted" -> "failed"]
    /\ UNCHANGED <<pollRows, Queues, Settings>>

(* ... or throws, which is treated as transient. *)
ReceiptUnavailable(w) ==
    /\ At(w, "readReceipt")
    /\ Goto(w, "enqueueFirst")
    /\ UNCHANGED <<pollRows, Queues, Settings>>

(* updateTransaction with status 'pending', before or after the next job is *)
(* enqueued.                                                                *)
SetPending(w) ==
    /\ poller[w].at \in {"setPending", "setPendingLate"}
    /\ txStatus' = [txStatus EXCEPT ![poller[w].tx] = "pending"]
    /\ IF At(w, "setPending") THEN Goto(w, "enqueue") ELSE Finish(w)
    /\ UNCHANGED <<receipt, submissionsComplete, runStatus, Queues, Settings>>

SameAttempt(w) ==   \* variant: the next job keeps the attempt and so its id
    /\ poller[w].at \in {"enqueue", "enqueueFirst"}
    /\ EnqueuePoll(poller[w].tx, poller[w].attempt)
    /\ IF At(w, "enqueueFirst") THEN Goto(w, "setPendingLate") ELSE Finish(w)
    /\ UNCHANGED <<pollRows, Settings>>
EnqueueNext(w) ==
    /\ poller[w].at \in {"enqueue", "enqueueFirst"}
    /\ EnqueuePoll(poller[w].tx, poller[w].attempt + 1)
    /\ IF At(w, "enqueueFirst") THEN Goto(w, "setPendingLate") ELSE Finish(w)
    /\ UNCHANGED <<pollRows, Settings>>

(* updateTransaction with a terminal status. *)
SetFinal(w) ==
    /\ At(w, "setFinal")
    /\ txStatus' = [txStatus EXCEPT ![poller[w].tx] = poller[w].verdict]
    /\ Goto(w, "hasLogStep")
    /\ UNCHANGED <<receipt, submissionsComplete, runStatus, Queues, Settings>>

(* checkAndFinalizeTask: nothing is decided while transfers are submitted. *)
SkipHasLogStep(w) ==   \* variant: finalise whatever rows there are
    /\ At(w, "hasLogStep")
    /\ Goto(w, "aggregate")
    /\ UNCHANGED <<pollRows, Queues, Settings>>
HasLogStep(w) ==
    /\ At(w, "hasLogStep")
    /\ IF submissionsComplete THEN Goto(w, "aggregate") ELSE Finish(w)
    /\ UNCHANGED <<pollRows, Queues, Settings>>

(* getTransactionAggregation over the rows that exist. *)
Present == {t \in Txs : txStatus[t] # "absent"}
With(s) == {t \in Present : txStatus[t] = s}
AllTerminal == Present # {} /\ With("pending") = {}
FinalStatus ==
    IF With("failed") = {} THEN "executed"
    ELSE IF With("completed") = {} THEN "failed" ELSE "partial"

Aggregate(w) ==
    /\ At(w, "aggregate")
    /\ IF AllTerminal
       THEN poller' = [poller EXCEPT ![w].at = "readTask", ![w].verdict = FinalStatus]
       ELSE Finish(w)
    /\ UNCHANGED <<pollRows, Queues, Settings>>

(* updateStatus reads the task, checks the transition (the terminal states  *)
(* have none) and writes in a statement of its own.                         *)
ReadTask(w) ==
    /\ At(w, "readTask")
    /\ IF runStatus = "in_progress" THEN Goto(w, "writeTask") ELSE Finish(w)
    /\ UNCHANGED <<pollRows, Queues, Settings>>

WriteTask(w) ==
    /\ At(w, "writeTask")
    /\ runStatus' = poller[w].verdict
    /\ Finish(w)
    /\ UNCHANGED <<receipt, txStatus, submissionsComplete, Queues, Settings>>

(* A database or Redis call throws: TxPollProcessor.process swallows the    *)
(* error, so the job ends there, enqueued again or not.                     *)
CallThrows(w) ==
    /\ pollFaults < MaxPollFaults
    /\ poller[w].at \notin {"idle", "readReceipt"}
    /\ Finish(w)
    /\ pollFaults' = pollFaults + 1
    /\ UNCHANGED <<pollRows, Queues, delayHolds>>

(* BullMQ takes a job whose lock was not renewed for stalled and hands it   *)
(* out again, while the first worker may go on.                             *)
Redeliver(w) ==
    /\ pollFaults < MaxPollFaults
    /\ ~At(w, "idle")
    /\ pollQueue' = pollQueue \cup {[tx |-> poller[w].tx, attempt |-> poller[w].attempt]}
    /\ pollFaults' = pollFaults + 1
    /\ UNCHANGED <<pollRows, pollJobIds, poller, delayHolds>>

PollStep(w) ==
    \/ StartPoll(w) \/ ReadPollReceipt(w) \/ ReceiptUnavailable(w)
    \/ SetPending(w) \/ EnqueueNext(w) \/ SetFinal(w)
    \/ HasLogStep(w) \/ Aggregate(w) \/ ReadTask(w) \/ WriteTask(w)

PollNext ==
    \/ CompleteSubmissions
    \/ \E t \in Txs : Submit(t) \/ Mine(t)
    \/ \E w \in PollWorkers : PollStep(w) \/ CallThrows(w) \/ Redeliver(w)

(* The caller submits every transfer and the worker keeps taking jobs and   *)
(* running them; nothing makes the chain mine.                              *)
PollFairness ==
    /\ WF_pollVars(CompleteSubmissions \/ \E t \in Txs : Submit(t))
    /\ \A w \in PollWorkers : WF_pollVars(PollStep(w))

PollSpec == PollInit /\ [][PollNext]_pollVars
FairPollSpec == PollSpec /\ PollFairness

-----------------------------------------------------------------------------

(* checkAndFinalizeTask reports a task executed only when every transfer of *)
(* the task is on chain and succeeded, however polls, redelivered jobs,     *)
(* lost jobs and the submissions still going on interleave.                 *)
ExecutedIsMined ==
    runStatus = "executed" => \A t \in Txs : receipt[t] = "success"

(* When submissions are complete while a transfer is still pending, the    *)
(* task is finalised, provided no call fails: of two polls that finish      *)
(* together at least one sees all transactions terminal, and a transaction  *)
(* that is never mined is given up after MAX_POLL_ATTEMPTS.  (When every    *)
(* poll has finished before task.submissions_complete is logged, no job is  *)
(* left to finalise the task.)                                              *)
RunFinalises ==
    [](delayHolds /\ pollFaults = 0) =>
        ((submissionsComplete /\ \E t \in Txs : txStatus[t] = "pending")
            ~> runStatus # "in_progress")

=============================================================================
