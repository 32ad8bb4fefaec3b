----------------------------- MODULE TaskQueue -----------------------------
(***************************************************************************)
(* A task on its way through the orchestrator: handleTask creates the row   *)
(* and enqueues a job, BullMQ hands the job to a worker up to JobAttempts   *)
(* times, the processor calls executeTask, and the execution router and the *)
(* agent decide.  On Arc Mainnet every agent refuses (payroll and swaps are *)
(* signed by the external wallet), so executeTask's success branches are    *)
(* not reached; what remains is how the refusal and its retries leave the   *)
(* row.  updateStatus reads the row, checks ALLOWED_TRANSITIONS and writes  *)
(* in a second statement.                                                   *)
(***************************************************************************)
EXTENDS Naturals, FiniteSets

CONSTANTS
    Executors,        \* jobs that may be processed at the same time
    JobAttempts,      \* the job's attempts option (3)
    MaxQueueFaults    \* bound: failing calls and stalled jobs of a behaviour

ASSUME QueueAssumption == JobAttempts \in Nat \ {0} /\ MaxQueueFaults \in Nat

VARIABLES
    request,      \* the task asked for
    caller,       \* the call handleTask makes next
    row,          \* Task.status, "absent" before it is created
    job,          \* the BullMQ job: copies waiting and attempts that failed
    executor,     \* the call each executeTask makes next
    agentRuns,    \* how often an agent was called
    queueFaults,  \* faults so far
    redelivered   \* how often BullMQ took the job for stalled

queueVars == <<request, caller, row, job, executor, agentRuns, queueFaults, redelivered>>

Types == {"payroll", "swap", "bridge", "liquidity", "fx"}

(* A request: its type, whether the capability it needs is on, and what the *)
(* routers look at (a recipient in another currency, the wallet mode, the   *)
(* validation of the payroll).                                              *)
TaskRequests == [type : Types, capable : BOOLEAN,
                 shape : {"plain", "crossCurrency", "otherWalletMode", "invalid"}]

Statuses == {"created", "assigned", "in_progress", "review", "approved", "executed",
             "partial", "failed"}

(* ALLOWED_TRANSITIONS *)
AllowedTransitions ==
    [created |-> {"assigned", "failed"},
     assigned |-> {"in_progress", "failed"},
     in_progress |-> {"review", "executed", "partial", "failed"},
     review |-> {"approved", "failed"},
     approved |-> {"executed", "failed"},
     executed |-> {}, partial |-> {}, failed |-> {}]

QueueInit ==
    /\ request \in TaskRequests
    /\ caller = "start"
    /\ row = "absent"
    /\ job = [waiting |-> 0, failures |-> 0]
    /\ executor = [e \in Executors |-> "idle"]
    /\ agentRuns = 0
    /\ queueFaults = 0
    /\ redelivered = 0

-----------------------------------------------------------------------------
(* assertTaskCapability and TASK_QUEUE_MAP: liquidity is not configurable   *)
(* and fx is retired, so both are refused like bridge.                      *)
IsRouted(r) == r.capable /\ r.type \in {"payroll", "swap"}

(* handleTask up to createTask: the row and its first log entry. *)
HandleTask ==
    /\ caller = "start"
    /\ IF IsRouted(request)
       THEN row' = "created" /\ caller' = "readForAssign"
       ELSE caller' = "refused" /\ UNCHANGED row
    /\ UNCHANGED <<request, job, executor, agentRuns, queueFaults, redelivered>>

(* updateStatus: read the row and continue at "same", at the write or at    *)
(* the error.                                                               *)
AfterRead(target, same, write, error) ==
    IF row = target THEN same
    ELSE IF target \in AllowedTransitions[row] THEN write ELSE error

ReadForAssign ==
    /\ caller = "readForAssign"
    /\ caller' = AfterRead("assigned", "enqueue", "assign", "readForFail")
    /\ UNCHANGED <<request, row, job, executor, agentRuns, queueFaults, redelivered>>

Assign ==
    /\ caller = "assign"
    /\ row' = "assigned"
    /\ caller' = "enqueue"
    /\ UNCHANGED <<request, job, executor, agentRuns, queueFaults, redelivered>>

(* enqueueTask: the job is in Redis before its log entry is written. *)
Enqueue ==
    /\ caller = "enqueue"
    /\ job' = [job EXCEPT !.waiting = 1]
    /\ caller' = "logEnqueued"
    /\ UNCHANGED <<request, row, executor, agentRuns, queueFaults, redelivered>>

LogEnqueued ==
    /\ caller = "logEnqueued"
    /\ caller' = "done"
    /\ UNCHANGED <<request, row, job, executor, agentRuns, queueFaults, redelivered>>

(* The catch of handleTask. *)
CallFails ==
    /\ queueFaults < MaxQueueFaults
    /\ caller \in {"readForAssign", "assign", "enqueue", "logEnqueued"}
    /\ caller' = "readForFail"
    /\ queueFaults' = queueFaults + 1
    /\ UNCHANGED <<request, row, job, executor, agentRuns, redelivered>>

ReadForFail ==
    /\ caller = "readForFail"
    /\ caller' = AfterRead("failed", "rejected", "fail", "rejected")
    /\ UNCHANGED <<request, row, job, executor, agentRuns, queueFaults, redelivered>>

Fail ==
    /\ caller = "fail"
    /\ row' = "failed"
    /\ caller' = "rejected"
    /\ UNCHANGED <<request, job, executor, agentRuns, queueFaults, redelivered>>

-----------------------------------------------------------------------------
(* The worker and executeTask. *)

Now(e, call) == executor' = [executor EXCEPT ![e] = call]

(* The job ends: a failed attempt is retried while attempts remain. *)
JobFails(e) ==
    /\ Now(e, "idle")
    /\ job' = [waiting |-> IF job.failures + 1 < JobAttempts THEN job.waiting + 1 ELSE job.waiting,
               failures |-> job.failures + 1]

TakeJob(e) ==
    /\ executor[e] = "idle"
    /\ job.waiting > 0
    /\ job' = [job EXCEPT !.waiting = @ - 1]
    /\ Now(e, "readTask")
    /\ UNCHANGED <<request, caller, row, agentRuns, queueFaults, redelivered>>

ExecuteTask(e) ==
    /\ executor[e] = "readTask"
    /\ IF row = "assigned" THEN Now(e, "readForProgress") ELSE Now(e, "idle")
    /\ UNCHANGED <<request, caller, row, job, agentRuns, queueFaults, redelivered>>

ReadForProgress(e) ==
    /\ executor[e] = "readForProgress"
    /\ LET next == AfterRead("in_progress", "routeToAgent", "progress", "throw") IN
       IF next = "throw" THEN JobFails(e) ELSE Now(e, next) /\ UNCHANGED job
    /\ UNCHANGED <<request, caller, row, agentRuns, queueFaults, redelivered>>

Progress(e) ==
    /\ executor[e] = "progress"
    /\ row' = "in_progress"
    /\ Now(e, "routeToAgent")
    /\ UNCHANGED <<request, caller, job, agentRuns, queueFaults, redelivered>>

(* ExecutionRouterService.execute refuses an unknown wallet mode. *)
WalletModeKnown(r) == r.shape # "otherWalletMode"

(* AgentRouterService.execute refuses a payroll that mixes currencies before *)
(* any agent runs.                                                          *)
ReachesAgent(r) ==
    WalletModeKnown(r) /\ ~(r.type = "payroll" /\ r.shape = "crossCurrency")

(* The agent: PayrollAgent validates, and like SwapAgent it then refuses. *)
RouteToAgent(e) ==
    /\ executor[e] = "routeToAgent"
    /\ agentRuns' = IF ReachesAgent(request) THEN agentRuns + 1 ELSE agentRuns
    /\ Now(e, "readForFailed")
    /\ UNCHANGED <<request, caller, row, job, queueFaults, redelivered>>

(* The catch of executeTask: mark failed as well as it can, then rethrow. *)
KeepInProgress(e) ==  \* variant: the catch rethrows without marking the task
    /\ executor[e] = "readForFailed"
    /\ JobFails(e)
    /\ UNCHANGED <<request, caller, row, agentRuns, queueFaults, redelivered>>
ReadForFailed(e) ==
    /\ executor[e] = "readForFailed"
    /\ LET next == AfterRead("failed", "throw", "markFailed", "throw") IN
       IF next = "throw" THEN JobFails(e) ELSE Now(e, next) /\ UNCHANGED job
    /\ UNCHANGED <<request, caller, row, agentRuns, queueFaults, redelivered>>

MarkFailed(e) ==
    /\ executor[e] = "markFailed"
    /\ row' = "failed"
    /\ JobFails(e)
    /\ UNCHANGED <<request, caller, agentRuns, queueFaults, redelivered>>

(* A call of executeTask throws, or the worker dies with it. *)
ExecutorFails(e) ==
    /\ queueFaults < MaxQueueFaults
    /\ executor[e] # "idle"
    /\ queueFaults' = queueFaults + 1
    /\ IF executor[e] = "routeToAgent"
       THEN Now(e, "readForFailed") /\ UNCHANGED job ELSE JobFails(e)
    /\ UNCHANGED <<request, caller, row, agentRuns, redelivered>>

(* BullMQ takes the active job for stalled and hands out another copy. *)
Stall(e) ==
    /\ queueFaults < MaxQueueFaults
    /\ executor[e] # "idle"
    /\ queueFaults' = queueFaults + 1
    /\ redelivered' = redelivered + 1
    /\ job' = [job EXCEPT !.waiting = @ + 1]
    /\ UNCHANGED <<request, caller, row, executor, agentRuns>>

ExecutorStep(e) ==
    \/ TakeJob(e) \/ ExecuteTask(e) \/ ReadForProgress(e) \/ Progress(e)
    \/ RouteToAgent(e) \/ ReadForFailed(e) \/ MarkFailed(e)
CallerStep ==
    \/ HandleTask \/ ReadForAssign \/ Assign \/ Enqueue \/ LogEnqueued
    \/ ReadForFail \/ Fail

QueueNext ==
    \/ CallerStep \/ CallFails
    \/ \E e \in Executors : ExecutorStep(e) \/ ExecutorFails(e) \/ Stall(e)

(* The HTTP handler and the worker run; nothing else is assumed. *)
QueueFairness ==
    /\ WF_queueVars(CallerStep)
    /\ \A e \in Executors : WF_queueVars(ExecutorStep(e))

QueueSpec == QueueInit /\ [][QueueNext]_queueVars
FairQueueSpec == QueueSpec /\ QueueFairness

-----------------------------------------------------------------------------

(* The agent is called once, whatever the job's retries: a second call      *)
(* takes a redelivery of a job that is still running.  ("This makes worker  *)
(* retries safe", executeTask.)                                             *)
RetriesDoNotRepeat == agentRuns <= 1 + redelivered

(* A task that was created ends failed, through the worker or through       *)
(* handleTask's catch, when no call fails: no retry leaves it in progress   *)
(* and none is lost between the row and the queue.                          *)
TaskSettles ==
    [](queueFaults = 0) => (row # "absent" ~> row = "failed")

(* A task comes to an end, and only once to the agent. *)
TaskEndsOnce == TaskSettles /\ []RetriesDoNotRepeat
=============================================================================
