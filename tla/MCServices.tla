----------------------------- MODULE MCServices -----------------------------
(* The services behind a task: the job queue, the transaction poller, the   *)
(* FX settlement with the liquidity pool's wind-down, and the activity      *)
(* feed.  They do not interact here: a behaviour is one of a single         *)
(* component, the others stay where they start.                             *)
EXTENDS TaskQueue, TxPoller, FxSettlement, ActivityFeed

VARIABLE focus

servicesVars == <<queueVars, pollVars, fxVars, activityVars>>

MCSharesOf == [d \in Depositors |-> IF d = "d1" THEN 1 ELSE 2]

(* A send, and two batches of one run that share its reference.             *)
Record(i, kind, own, run, base, token) ==
    [id |-> i, kind |-> kind, own |-> own, run |-> run, base |-> base, token |-> token]
MCSources == {Record(1, "send", FALSE, "", "", ""),
              Record(2, "payroll", TRUE, "R", "R", "USDC"),
              Record(3, "payroll", TRUE, "R", "R", "EURC")}

MCInit ==
    /\ focus \in {"queue", "poll", "guard", "settle", "wind",
                  "sync", "paging", "feed", "scan"}
    /\ QueueInit /\ PollInit /\ FxInit /\ ActivityInit
    /\ focus # "queue" => request = CHOOSE r \in TaskRequests : TRUE
    /\ focus # "poll" => delayHolds

MCNext ==
    /\ UNCHANGED focus
    /\ IF focus = "queue" THEN QueueNext ELSE UNCHANGED queueVars
    /\ IF focus = "poll" THEN PollNext ELSE UNCHANGED pollVars
    /\ \/ focus = "guard" /\ GuardNext
       \/ focus = "settle" /\ SettleNext
       \/ focus = "wind" /\ WindNext
       \/ focus \notin {"guard", "settle", "wind"} /\ UNCHANGED fxVars
    /\ IF focus = "sync" THEN SyncNext ELSE UNCHANGED syncVars
    /\ IF focus = "paging" THEN PagingNext ELSE UNCHANGED pageVars
    /\ IF focus = "feed" THEN FeedNext ELSE UNCHANGED feedVars
    /\ IF focus = "scan" THEN ScanNext ELSE UNCHANGED scanVars

(* The fairness of the components, each of them while it is the one that    *)
(* runs: QueueFairness, PollFairness, FxSpec, and the backend and the page  *)
(* that keep answering (ActivityFeed).                                      *)
MCFairness ==
    /\ WF_queueVars(focus = "queue" /\ CallerStep)
    /\ \A e \in Executors : WF_queueVars(focus = "queue" /\ ExecutorStep(e))
    /\ WF_pollVars(focus = "poll" /\ (CompleteSubmissions \/ \E t \in Txs : Submit(t)))
    /\ \A w \in PollWorkers : WF_pollVars(focus = "poll" /\ PollStep(w))
    /\ WF_fxVars(focus = "settle" /\ (PollTurn \/ PollTimeout))
    /\ \A p \in Replicas : WF_syncVars(focus = "sync" /\ SyncStep(p))
    /\ WF_feedVars(focus = "feed" /\ FeedStep)

MCSpec == MCInit /\ [][MCNext]_<<servicesVars, focus>> /\ MCFairness

(* A task comes to its end: one handed to an agent is marked failed, once,  *)
(* and one whose transfers were submitted is finalised by its polls         *)
(* (TaskQueue, TxPoller).                                                   *)
TasksFinish == TaskEndsOnce /\ RunFinalises

(* What asks others for news comes to an end: the poll of an FX provider,   *)
(* the projection of the records into the activity rows, and the loading of *)
(* the feed (FxSettlement, ActivityFeed).                                   *)
ProviderAndFeedSettle == PollEnds /\ HistoryConverges /\ FeedSettles
=============================================================================
