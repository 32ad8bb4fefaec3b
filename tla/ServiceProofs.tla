---------------------------- MODULE ServiceProofs ----------------------------
(***************************************************************************)
(* The services and the platform beneath the payments.                     *)
(*                                                                         *)
(* The transaction poller: a job that has seen every row terminal knows    *)
(* that every transfer was submitted and mined.                            *)
(*                                                                         *)
(* The name service: which call reaches which node and token.              *)
(*                                                                         *)
(* The release scripts: what a verification and a pool record have seen of *)
(* the chain.                                                              *)
(*                                                                         *)
(* The settlement contracts: a consumed reference and its one receipt; how *)
(* the events, the gifts and the withdrawals explain every balance.        *)
(*                                                                         *)
(* Cross-token payroll funding: what the quote service found meets, unit   *)
(* by unit, every check of the contract that is paid with it.              *)
(*                                                                         *)
(* The page shell: the install event on offer and the stored profile.      *)
(***************************************************************************)
EXTENDS PayrollFunding, SettlementContracts, DeploymentRelease, NameService, TxPoller, PageShell,
        TLAPS, FiniteSetTheorems, WellFoundedInduction

-----------------------------------------------------------------------------
(* The poller.  A row is completed only when its receipt succeeded, and a   *)
(* job that has seen every row terminal knows that all were submitted.      *)

PollerRecords == [at : Calls, tx : Txs \cup {NoJob.tx}, attempt : Nat, verdict : Verdicts]

AllMined == \A t \in Txs : receipt[t] = "success"

PollTypeOK ==
    /\ receipt \in [Txs -> {"none", "success", "reverted"}]
    /\ txStatus \in [Txs -> TxStatuses \cup {"absent"}]
    /\ submissionsComplete \in BOOLEAN
    /\ poller \in [PollWorkers -> PollerRecords]
    /\ pollQueue \subseteq [tx : Txs, attempt : Nat]

JobOK(j) ==
    /\ j.at # "idle" => j.tx \in Txs
    /\ j.at = "setFinal" /\ j.verdict = "completed" => receipt[j.tx] = "success"
    /\ j.at = "setFinal" => j.verdict \in {"completed", "failed"}
    /\ j.at \in {"aggregate", "readTask", "writeTask"} => submissionsComplete
    /\ j.at \in {"readTask", "writeTask"} /\ j.verdict = "executed" => AllMined

RowsOK ==
    /\ \A t \in Txs : txStatus[t] = "completed" => receipt[t] = "success"
    /\ submissionsComplete => \A t \in Txs : txStatus[t] # "absent"

PollInv ==
    PollTypeOK /\ RowsOK /\ (\A w \in PollWorkers : JobOK(poller[w])) /\ ExecutedIsMined

LEMMA PollStarts == PollInit => PollInv
<1> SUFFICES ASSUME PollInit PROVE PollInv  OBVIOUS
<1>1. NoJob \in PollerRecords /\ NoJob.at = "idle"
  <2>1. NoJob.tx \in Txs \cup {NoJob.tx} /\ 0 \in Nat  OBVIOUS
  <2> DEFINE t == CHOOSE t \in Txs : TRUE
  <2>2. NoJob = [at |-> "idle", tx |-> t, attempt |-> 0, verdict |-> "none"]  BY DEF NoJob
  <2> HIDE DEF t
  <2>3. NoJob.tx = t /\ NoJob.at = "idle"  BY <2>2
  <2> QED BY <2>2, <2>3 DEF PollerRecords, Calls, Verdicts
<1>2. PollTypeOK  BY <1>1 DEF PollInit, PollTypeOK, TxStatuses
<1> QED BY <1>1, <1>2 DEF PollInit, PollInv, RowsOK, JobOK, ExecutedIsMined

(* The chain keeps what it mined and the rows only follow it, so what a job *)
(* knows stays true.                                                        *)
LEMMA KnowledgeStays ==
    ASSUME PollInv, NEW j, JobOK(j), submissionsComplete => submissionsComplete',
           \A t \in Txs : receipt[t] = "success" => receipt'[t] = "success"
    PROVE  JobOK(j)'
BY DEF JobOK, AllMined, PollInv

(* A worker moves on to the next call. *)
LEMMA WorkerMoves ==
    ASSUME PollInv, NEW w \in PollWorkers, NEW j \in PollerRecords, JobOK(j)',
           poller' = [poller EXCEPT ![w] = j],
           submissionsComplete => submissionsComplete',
           \A t \in Txs : receipt[t] = "success" => receipt'[t] = "success"
    PROVE  /\ \A v \in PollWorkers : JobOK(poller[v])'
           /\ poller' \in [PollWorkers -> PollerRecords]
<1>1. poller \in [PollWorkers -> PollerRecords] /\ \A v \in PollWorkers : JobOK(poller[v])
  BY DEF PollInv, PollTypeOK
<1>2. ASSUME NEW v \in PollWorkers PROVE JobOK(poller[v])'
  <2>1. CASE v = w  BY <1>1, <2>1 DEF JobOK, AllMined
  <2>2. CASE v # w
    <3>1. poller'[v] = poller[v]  BY <1>1, <2>2
    <3>2. JobOK(poller[v])  BY <1>1
    <3> QED BY <3>1, <3>2 DEF JobOK, AllMined
  <2> QED BY <2>1, <2>2
<1> QED BY <1>1, <1>2

(* The chain and the rows stay; one worker moves. *)
LEMMA MoveKeeps ==
    ASSUME PollInv, UNCHANGED pollRows, NEW w \in PollWorkers,
           NEW j \in PollerRecords, JobOK(j), poller' = [poller EXCEPT ![w] = j],
           pollQueue' \subseteq [tx : Txs, attempt : Nat]
    PROVE  PollInv'
<1>1. JobOK(j)'  BY KnowledgeStays DEF pollRows
<1>2. /\ \A v \in PollWorkers : JobOK(poller[v])'
      /\ poller' \in [PollWorkers -> PollerRecords]
  BY <1>1, WorkerMoves DEF pollRows
<1>3. PollTypeOK'  BY <1>2 DEF PollInv, PollTypeOK, pollRows
<1>4. RowsOK' /\ ExecutedIsMined'  BY DEF PollInv, RowsOK, ExecutedIsMined, pollRows
<1> QED BY <1>2, <1>3, <1>4 DEF PollInv

LEMMA IdleIsOK == NoJob \in PollerRecords /\ NoJob.at = "idle" /\ JobOK(NoJob)
<1>1. NoJob \in PollerRecords /\ NoJob.at = "idle"
  <2> DEFINE t == CHOOSE t \in Txs : TRUE
  <2>2. NoJob = [at |-> "idle", tx |-> t, attempt |-> 0, verdict |-> "none"]  BY DEF NoJob
  <2> HIDE DEF t
  <2>3. NoJob.tx = t /\ NoJob.at = "idle"  BY <2>2
  <2> QED BY <2>2, <2>3 DEF PollerRecords, Calls, Verdicts
<1> QED BY <1>1 DEF JobOK

(* What the worker holds. *)
LEMMA JobIs ==
    ASSUME PollInv, NEW w \in PollWorkers
    PROVE  /\ poller[w] \in PollerRecords /\ JobOK(poller[w])
           /\ poller[w].at # "idle" => poller[w].tx \in Txs
           /\ pollQueue \subseteq [tx : Txs, attempt : Nat]
BY DEF PollInv, PollTypeOK, JobOK

LEMMA FinishKeepsPoll ==
    ASSUME PollInv, UNCHANGED pollRows, NEW w \in PollWorkers, Finish(w), UNCHANGED pollQueue
    PROVE  PollInv'
BY IdleIsOK, JobIs, MoveKeeps DEF Finish

LEMMA GotoKeeps ==
    ASSUME PollInv, UNCHANGED pollRows, NEW w \in PollWorkers,
           NEW call \in Calls, Goto(w, call),
           poller[w].at # "idle",
           call \notin {"setFinal", "readTask"},
           call = "aggregate" => submissionsComplete,
           call = "writeTask" => poller[w].at = "readTask",
           pollQueue' \subseteq [tx : Txs, attempt : Nat]
    PROVE  PollInv'
<1> DEFINE j == [poller[w] EXCEPT !.at = call]
<1>1. j \in PollerRecords /\ j.at = call /\ j.tx = poller[w].tx /\ j.verdict = poller[w].verdict
  BY JobIs DEF PollerRecords
<1>2. poller' = [poller EXCEPT ![w] = j]  BY DEF Goto
<1> HIDE DEF j
<1>3. JobOK(j)  BY <1>1, JobIs DEF JobOK
<1> QED BY <1>1, <1>2, <1>3, MoveKeeps

LEMMA StartKeeps ==
    ASSUME PollInv, NEW w \in PollWorkers, StartPoll(w)
    PROVE  PollInv'
<1>1. PICK job \in pollQueue :
        /\ pollQueue' = pollQueue \ {job}
        /\ poller' = [poller EXCEPT ![w] =
              [at |-> IF job.attempt >= MaxPollAttempts THEN "setFinal" ELSE "readReceipt",
               tx |-> job.tx, attempt |-> job.attempt,
               verdict |-> IF job.attempt >= MaxPollAttempts THEN "failed" ELSE "none"]]
        /\ UNCHANGED pollRows
  BY DEF StartPoll
<1>2. job.tx \in Txs /\ job.attempt \in Nat  BY JobIs
<1> DEFINE j == [at |-> IF job.attempt >= MaxPollAttempts THEN "setFinal" ELSE "readReceipt",
                 tx |-> job.tx, attempt |-> job.attempt,
                 verdict |-> IF job.attempt >= MaxPollAttempts THEN "failed" ELSE "none"]
<1>3. /\ j \in PollerRecords /\ j.tx = job.tx
      /\ \/ j.at = "setFinal" /\ j.verdict = "failed"
         \/ j.at = "readReceipt"
  BY <1>2 DEF PollerRecords, Calls, Verdicts
<1>4. poller' = [poller EXCEPT ![w] = j]  BY <1>1
<1> HIDE DEF j
<1>5. JobOK(j)  BY <1>2, <1>3 DEF JobOK
<1> QED BY <1>1, <1>3, <1>4, <1>5, JobIs, MoveKeeps

LEMMA ReadKeeps ==
    ASSUME PollInv, NEW w \in PollWorkers, ReadPollReceipt(w)
    PROVE  PollInv'
<1> DEFINE r == receipt[poller[w].tx]
           at == IF r = "none" THEN "setPending" ELSE "setFinal"
           verdict == CASE r = "none" -> "none" [] r = "success" -> "completed"
                        [] r = "reverted" -> "failed"
           j == [poller[w] EXCEPT !.at = at, !.verdict = verdict]
<1>1. /\ poller[w].tx \in Txs /\ poller[w] \in PollerRecords
      /\ r \in {"none", "success", "reverted"}
  BY JobIs DEF ReadPollReceipt, At, PollInv, PollTypeOK
<1>2. poller' = [poller EXCEPT ![w] = j] /\ UNCHANGED pollRows /\ UNCHANGED pollQueue
  <2>1. poller' = [poller EXCEPT ![w].at = at, ![w].verdict = verdict]
        /\ UNCHANGED pollRows /\ UNCHANGED pollQueue
    BY DEF ReadPollReceipt, Queues
  <2>2. poller \in [PollWorkers -> PollerRecords]  BY DEF PollInv, PollTypeOK
  <2> HIDE DEF at, verdict
  <2> QED BY <2>1, <2>2
<1>3. /\ at \in Calls /\ verdict \in Verdicts
      /\ \/ at = "setPending"
         \/ at = "setFinal" /\ verdict = "completed" /\ r = "success"
         \/ at = "setFinal" /\ verdict = "failed"
  BY <1>1 DEF Calls, Verdicts
<1> HIDE DEF at, verdict
<1>4. j \in PollerRecords /\ j.at = at /\ j.verdict = verdict /\ j.tx = poller[w].tx
  BY <1>1, <1>3 DEF PollerRecords
<1> HIDE DEF j
<1>5. JobOK(j)  BY <1>1, <1>3, <1>4 DEF JobOK
<1> QED BY <1>2, <1>4, <1>5, JobIs, MoveKeeps

(* Every row there is completed, and every row is there. *)
LEMMA AggregateKeeps ==
    ASSUME PollInv, NEW w \in PollWorkers, Aggregate(w)
    PROVE  PollInv'
<1>0. /\ UNCHANGED pollRows /\ UNCHANGED pollQueue /\ poller[w].at = "aggregate"
      /\ poller[w].tx \in Txs /\ poller[w] \in PollerRecords /\ submissionsComplete
  BY JobIs DEF Aggregate, At, Queues, JobOK
<1>1. CASE AllTerminal
  <2> DEFINE j == [poller[w] EXCEPT !.at = "readTask", !.verdict = FinalStatus]
  <2>1. poller' = [poller EXCEPT ![w] = j]  BY <1>1 DEF Aggregate
  <2>2. FinalStatus \in Verdicts  BY DEF FinalStatus, Verdicts
  <2>3. FinalStatus = "executed" => AllMined
    <3> SUFFICES ASSUME With("failed") = {}, NEW t \in Txs PROVE receipt[t] = "success"
      BY DEF FinalStatus, AllMined
    <3>1. txStatus[t] \in {"pending", "completed", "failed"} /\ t \in Present
      BY <1>0 DEF PollInv, PollTypeOK, RowsOK, TxStatuses, Present
    <3>2. txStatus[t] = "completed"  BY <1>1, <3>1 DEF AllTerminal, With
    <3> QED BY <3>2 DEF PollInv, RowsOK
  <2>4. j \in PollerRecords /\ j.at = "readTask" /\ j.verdict = FinalStatus /\ j.tx \in Txs
    BY <1>0, <2>2 DEF PollerRecords, Calls
  <2> HIDE DEF j
  <2>5. JobOK(j)  BY <1>0, <2>3, <2>4 DEF JobOK
  <2> QED BY <1>0, <2>1, <2>4, <2>5, JobIs, MoveKeeps
<1>2. CASE ~AllTerminal  BY <1>0, <1>2, FinishKeepsPoll DEF Aggregate
<1> QED BY <1>1, <1>2

(* The steps that write a row. *)
LEMMA RowKeeps ==
    ASSUME PollInv, UNCHANGED <<receipt, submissionsComplete, runStatus, pollQueue>>,
           NEW w \in PollWorkers, poller[w].at # "idle",
           NEW s \in TxStatuses, s = "completed" => receipt[poller[w].tx] = "success",
           txStatus' = [txStatus EXCEPT ![poller[w].tx] = s],
           NEW call \in {"enqueue", "hasLogStep"}, Goto(w, call) \/ Finish(w)
    PROVE  PollInv'
<1>0. poller[w].tx \in Txs /\ poller[w] \in PollerRecords /\ NoJob \in PollerRecords /\ JobOK(NoJob)
  BY JobIs, IdleIsOK
<1>a. PICK j : j = [poller[w] EXCEPT !.at = call]  OBVIOUS
<1>1. j \in PollerRecords /\ j.at = call /\ j.tx = poller[w].tx
  BY <1>0, <1>a DEF PollerRecords, Calls
<1>2. poller' = [poller EXCEPT ![w] = j] \/ poller' = [poller EXCEPT ![w] = NoJob]
  BY <1>a DEF Goto, Finish
<1>3. JobOK(j)  BY <1>0, <1>1 DEF JobOK
<1>4. JobOK(j)' /\ JobOK(NoJob)'  BY <1>0, <1>3, KnowledgeStays
<1>5. /\ \A v \in PollWorkers : JobOK(poller[v])'
      /\ poller' \in [PollWorkers -> PollerRecords]
  BY <1>0, <1>1, <1>2, <1>4, WorkerMoves
<1>6. /\ txStatus' \in [Txs -> TxStatuses \cup {"absent"}]
      /\ \A t \in Txs : txStatus'[t] = IF t = poller[w].tx THEN s ELSE txStatus[t]
  BY <1>0 DEF PollInv, PollTypeOK
<1>7. PollTypeOK'  BY <1>5, <1>6 DEF PollInv, PollTypeOK
<1>8. RowsOK' /\ ExecutedIsMined'
  BY <1>6 DEF PollInv, RowsOK, ExecutedIsMined, TxStatuses
<1> QED BY <1>5, <1>7, <1>8 DEF PollInv

LEMMA PollStepKeeps ==
    ASSUME PollInv, NEW w \in PollWorkers, PollStep(w)
    PROVE  PollInv'
<1>1. CASE ReceiptUnavailable(w)
  BY <1>1, JobIs, GotoKeeps DEF ReceiptUnavailable, At, Queues, Calls
<1>2. CASE SetPending(w)
  BY <1>2, RowKeeps DEF SetPending, Queues, TxStatuses
<1>3. CASE EnqueueNext(w)
  <2> DEFINE job == [tx |-> poller[w].tx, attempt |-> poller[w].attempt + 1]
  <2>1. poller[w].at # "idle" /\ poller[w].tx \in Txs /\ poller[w].attempt \in Nat
    BY <1>3, JobIs DEF EnqueueNext, PollerRecords
  <2>2. job \in [tx : Txs, attempt : Nat]  BY <2>1
  <2>3. pollQueue' \subseteq [tx : Txs, attempt : Nat]
    BY <1>3, <2>2, JobIs DEF EnqueueNext, EnqueuePoll
  <2>4. CASE Goto(w, "setPendingLate")
    BY <1>3, <2>1, <2>3, <2>4, GotoKeeps DEF EnqueueNext, Calls
  <2>5. CASE Finish(w)
    BY <1>3, <2>3, <2>5, IdleIsOK, MoveKeeps DEF EnqueueNext, Finish
  <2> QED BY <1>3, <2>4, <2>5 DEF EnqueueNext
<1>4. CASE SetFinal(w)
  <2>1. poller[w].verdict \in {"completed", "failed"} /\ poller[w].at = "setFinal"
        /\ (poller[w].verdict = "completed" => receipt[poller[w].tx] = "success")
    BY <1>4, JobIs DEF SetFinal, At, JobOK
  <2> QED BY <1>4, <2>1, RowKeeps DEF SetFinal, Queues, TxStatuses
<1>5. CASE HasLogStep(w)
  BY <1>5, JobIs, GotoKeeps, FinishKeepsPoll DEF HasLogStep, At, Queues, Calls
<1>6. CASE ReadTask(w)
  BY <1>6, JobIs, GotoKeeps, FinishKeepsPoll DEF ReadTask, At, Queues, Calls
<1>7. CASE WriteTask(w)
  <2>1. poller[w].verdict = "executed" => AllMined
    BY <1>7, JobIs DEF WriteTask, At, JobOK
  <2>2. /\ \A v \in PollWorkers : JobOK(poller[v])'
        /\ poller' \in [PollWorkers -> PollerRecords]
    <3>1. JobOK(NoJob)'  BY <1>7, IdleIsOK, KnowledgeStays DEF WriteTask
    <3> QED BY <1>7, <3>1, IdleIsOK, WorkerMoves DEF WriteTask, Finish
  <2>3. PollTypeOK' /\ RowsOK'  BY <1>7, <2>2 DEF WriteTask, PollInv, PollTypeOK, RowsOK, Queues
  <2>4. ExecutedIsMined'  BY <1>7, <2>1 DEF WriteTask, ExecutedIsMined, AllMined
  <2> QED BY <2>2, <2>3, <2>4 DEF PollInv
<1> QED BY <1>1, <1>2, <1>3, <1>4, <1>5, <1>6, <1>7, StartKeeps, ReadKeeps, AggregateKeeps
       DEF PollStep

(* The caller and the chain. *)
LEMMA OutsideKeeps ==
    ASSUME PollInv, UNCHANGED poller, NEW t \in Txs,
           CompleteSubmissions \/ Submit(t) \/ Mine(t)
    PROVE  PollInv'
<1>0. /\ receipt \in [Txs -> {"none", "success", "reverted"}]
      /\ txStatus \in [Txs -> TxStatuses \cup {"absent"}]
  BY DEF PollInv, PollTypeOK
<1>1. /\ submissionsComplete => submissionsComplete'
      /\ \A u \in Txs : receipt[u] = "success" => receipt'[u] = "success"
  BY <1>0 DEF CompleteSubmissions, Submit, Mine
<1>2. \A w \in PollWorkers : JobOK(poller[w])'
  <2> SUFFICES ASSUME NEW w \in PollWorkers PROVE JobOK(poller[w])'  OBVIOUS
  <2>1. JobOK(poller[w])  BY DEF PollInv
  <2> QED BY <1>1, <2>1 DEF JobOK, AllMined
<1>3. pollQueue' \subseteq [tx : Txs, attempt : Nat]
  BY DEF PollInv, PollTypeOK, CompleteSubmissions, Submit, Mine, EnqueuePoll
<1>4. PollTypeOK'
  BY <1>0, <1>3 DEF PollInv, PollTypeOK, CompleteSubmissions, Submit, Mine, TxStatuses
<1>5. RowsOK'
  BY <1>0 DEF PollInv, RowsOK, CompleteSubmissions, Submit, Mine
<1>6. ExecutedIsMined'
  BY <1>0, <1>1 DEF PollInv, ExecutedIsMined, CompleteSubmissions, Submit, Mine
<1> QED BY <1>2, <1>4, <1>5, <1>6 DEF PollInv

LEMMA PollNextKeeps ==
    ASSUME PollInv, [PollNext]_pollVars
    PROVE  PollInv'
<1>1. ASSUME NEW w \in PollWorkers, CallThrows(w) PROVE PollInv'
  BY <1>1, FinishKeepsPoll DEF CallThrows, Queues
<1>2. ASSUME NEW w \in PollWorkers, Redeliver(w) PROVE PollInv'
  <2>1. poller[w].tx \in Txs /\ poller[w].attempt \in Nat
    BY <1>2, JobIs DEF Redeliver, At, PollerRecords
  <2> DEFINE job == [tx |-> poller[w].tx, attempt |-> poller[w].attempt]
  <2>2. job \in [tx : Txs, attempt : Nat]  BY <2>1
  <2>3. pollQueue' \subseteq [tx : Txs, attempt : Nat]
    BY <1>2, <2>2 DEF Redeliver, PollInv, PollTypeOK
  <2> QED BY <1>2, <2>3 DEF Redeliver, PollInv, PollTypeOK, RowsOK, JobOK, AllMined,
                            ExecutedIsMined, pollRows
<1>3. CASE UNCHANGED pollVars
  BY <1>3 DEF PollInv, PollTypeOK, RowsOK, JobOK, AllMined, ExecutedIsMined, pollVars, pollRows
<1>4. CASE CompleteSubmissions /\ Txs = {}
  BY <1>4 DEF CompleteSubmissions, PollInv, PollTypeOK, RowsOK, JobOK, AllMined, ExecutedIsMined
<1>5. CASE CompleteSubmissions /\ Txs # {}
  BY <1>5, OutsideKeeps DEF CompleteSubmissions
<1>6. ASSUME NEW t \in Txs, Submit(t) \/ Mine(t) PROVE PollInv'
  BY <1>6, OutsideKeeps DEF Submit, Mine
<1> QED BY <1>1, <1>2, <1>3, <1>4, <1>5, <1>6, PollStepKeeps DEF PollNext

(* Whatever the number of transfers, workers, attempts and faults, and      *)
(* however polls, redelivered jobs and the submissions still going on       *)
(* interleave: a task is reported executed only when every one of its       *)
(* transfers is on chain and succeeded.                                     *)
THEOREM ExecutedTaskIsMined == PollSpec => []ExecutedIsMined
<1>1. PollInv => ExecutedIsMined  BY DEF PollInv
<1> QED BY <1>1, PollStarts, PollNextKeeps, PTL DEF PollSpec

-----------------------------------------------------------------------------
(* The name service.  A registrar owns a namespace's node from the moment   *)
(* the namespace is opened; who may take it away is read off each step.     *)

Owners == People \cup {NoOne} \cup {Registrar(ns) : ns \in Namespaces}
Resolvers == {"unset", "defaultResolver", "otherResolver"}
NodeRecords == [owner : Owners, resolver : Resolvers]
TokenRecords == [holder : People \cup {NoOne}, expiry : Nat]

ApprovalRecords == [to : People \cup {NoOne}, tenure : Nat]

(* A name that is held has an expiry, which is what Available looks at, and *)
(* an approval is one given since the token last changed hands.             *)
NameInv ==
    /\ nodes \in [NodeSet -> NodeRecords]
    /\ tokens \in [Names -> TokenRecords]
    /\ approvals \in [Names -> ApprovalRecords] /\ tenures \in [Names -> Nat]
    /\ clock \in Nat
    /\ \A n \in Names : tokens[n].holder # NoOne => tokens[n].expiry # 0
    /\ \A n \in Names : approvals[n].to # NoOne => approvals[n].tenure = tenures[n]

\* The kinds of node and of account differ.
LEMMA NodesDiffer ==
    /\ \A ns \in Namespaces : SpaceNode(ns) \in NodeSet /\ SpaceNode(ns) # Root
    /\ \A ns, other \in Namespaces : SpaceNode(ns) = SpaceNode(other) => ns = other
    /\ \A ns \in Namespaces, n \in Names : SpaceNode(ns) # n
    /\ Root \in NodeSet /\ Names \subseteq NodeSet /\ Root \notin Names
<1>1. \A ns \in Namespaces : SpaceNode(ns) # Root  BY DEF SpaceNode, Root
<1>2. \A ns, other \in Namespaces : SpaceNode(ns) = SpaceNode(other) => ns = other
  BY DEF SpaceNode
<1>3. \A ns \in Namespaces, n \in Names : SpaceNode(ns) # n
  <2> SUFFICES ASSUME NEW ns \in Namespaces, NEW m \in Namespaces, NEW l \in Labels,
                      SpaceNode(ns) = <<m, l>>
               PROVE FALSE
    BY DEF Names
  <2> QED BY DEF SpaceNode
<1>4. \A n \in Names : n # Root
  <2> SUFFICES ASSUME NEW m \in Namespaces, NEW l \in Labels, <<>> = <<m, l>>
               PROVE FALSE
    BY DEF Names, Root
  <2> QED OBVIOUS
<1> QED BY <1>1, <1>2, <1>3, <1>4 DEF NodeSet

LEMMA AccountsDiffer ==
    /\ \A p \in People, ns \in Namespaces : p # Registrar(ns)
    /\ \A p \in People : p # NoOne
BY DEF People, Governor, Registrar, NoOne

(* What every step of one name's token and of its node keeps. *)
NodesKept == nodes' \in [NodeSet -> NodeRecords]
SpacesKept == \A ns \in Namespaces : nodes'[SpaceNode(ns)] = nodes[SpaceNode(ns)]
HoldersKept ==
    /\ tokens' \in [Names -> TokenRecords]
    /\ \A n \in Names : tokens'[n].holder # NoOne => tokens'[n].expiry # 0
ApprovalsKept ==
    /\ approvals' \in [Names -> ApprovalRecords] /\ tenures' \in [Names -> Nat]
    /\ \A n \in Names : approvals'[n].to # NoOne => approvals'[n].tenure = tenures'[n]
TokensKept == HoldersKept /\ ApprovalsKept

LEMMA NameNodeWritten ==
    ASSUME NameInv, NEW n \in Names, NEW owner \in Owners, NEW r \in Resolvers,
           nodes' = [nodes EXCEPT ![n] = [owner |-> owner, resolver |-> r]]
    PROVE  NodesKept /\ SpacesKept
<1> DEFINE entry == [owner |-> owner, resolver |-> r]
<1>1. entry \in NodeRecords  BY DEF NodeRecords
<1> HIDE DEF entry
<1>2. /\ nodes \in [NodeSet -> NodeRecords] /\ nodes' = [nodes EXCEPT ![n] = entry]
      /\ n \in NodeSet
  BY NodesDiffer DEF NameInv, entry
<1>3. nodes' \in [NodeSet -> NodeRecords] /\ \A m \in NodeSet : m # n => nodes'[m] = nodes[m]
  BY <1>1, <1>2
<1> QED BY <1>3, NodesDiffer DEF NodesKept, SpacesKept

LEMMA NameOwnerWritten ==
    ASSUME NameInv, NEW n \in Names, NEW owner \in Owners,
           nodes' = [nodes EXCEPT ![n].owner = owner]
    PROVE  NodesKept /\ SpacesKept
<1>1. nodes[n] \in NodeRecords  BY NodesDiffer DEF NameInv
<1>2. [nodes[n] EXCEPT !.owner = owner] = [owner |-> owner, resolver |-> nodes[n].resolver]
      /\ nodes[n].resolver \in Resolvers
  BY <1>1 DEF NodeRecords
<1>3. PICK r \in Resolvers : r = nodes[n].resolver  BY <1>2
<1>4. nodes' = [nodes EXCEPT ![n] = [owner |-> owner, resolver |-> r]]
  BY <1>2, <1>3
<1> QED BY ONLY NameInv, n \in Names, owner \in Owners, r \in Resolvers, <1>4, NameNodeWritten

LEMMA TokenWritten ==
    ASSUME NameInv, NEW n \in Names, NEW holder \in People \cup {NoOne}, NEW expiry \in Nat,
           holder # NoOne => expiry # 0,
           tokens' = [tokens EXCEPT ![n] = [holder |-> holder, expiry |-> expiry]]
    PROVE  /\ HoldersKept /\ \A m \in Names : m # n => tokens'[m] = tokens[m]
           /\ tokens'[n].holder = holder
<1> DEFINE t == [holder |-> holder, expiry |-> expiry]
<1>1. t \in TokenRecords /\ t.holder = holder /\ t.expiry = expiry  BY DEF TokenRecords
<1> HIDE DEF t
<1>2. tokens \in [Names -> TokenRecords] /\ tokens' = [tokens EXCEPT ![n] = t]
  BY DEF NameInv, t
<1>3. /\ tokens' \in [Names -> TokenRecords] /\ tokens'[n] = t
      /\ \A m \in Names : m # n => tokens'[m] = tokens[m]
  BY <1>1, <1>2
<1> QED BY <1>1, <1>3 DEF HoldersKept, NameInv

(* A token that changes hands takes its approval with it. *)
LEMMA ApprovalCleared ==
    ASSUME NameInv, NEW n \in Names, approvals' = [approvals EXCEPT ![n] = NoApproval],
           tenures' = [tenures EXCEPT ![n] = @ + 1]
    PROVE  ApprovalsKept
<1>1. NoApproval \in ApprovalRecords /\ NoApproval.to = NoOne
  BY DEF NoApproval, ApprovalRecords
<1>2. approvals \in [Names -> ApprovalRecords] /\ tenures \in [Names -> Nat]  BY DEF NameInv
<1>3. /\ approvals' \in [Names -> ApprovalRecords] /\ approvals'[n] = NoApproval
      /\ \A m \in Names : m # n => approvals'[m] = approvals[m]
  BY <1>1, <1>2
<1>4. tenures' \in [Names -> Nat] /\ \A m \in Names : m # n => tenures'[m] = tenures[m]
  BY <1>2
<1> QED BY <1>1, <1>3, <1>4 DEF ApprovalsKept, NameInv

LEMMA ApprovalsLeft ==
    ASSUME NameInv, UNCHANGED <<approvals, tenures>>
    PROVE  ApprovalsKept
BY DEF NameInv, ApprovalsKept

(* A mint waits for the end of the grace period. *)
LEMMA Mints ==
    ASSUME NameInv, NEW n \in Names, NEW owner \in People, NEW d \in Durations,
           NEW r \in Resolvers, Mint(n, owner, d, r)
    PROVE  NodesKept /\ SpacesKept /\ TokensKept /\ \A m \in Names : HeldUntilGraceEnds(m)
<1>1. NodesKept /\ SpacesKept
  <2>1. nodes[n] \in NodeRecords /\ nodes[n].resolver \in Resolvers
    BY NodesDiffer DEF NameInv, NodeRecords
  <2>2. PICK s \in Resolvers : nodes' = [nodes EXCEPT ![n] = [owner |-> owner, resolver |-> s]]
    BY <2>1 DEF Mint
  <2> QED BY <2>2, NameNodeWritten DEF Owners
<1>2. clock + d \in Nat /\ clock + d # 0  BY NameAssumption DEF NameInv
<1>3. tokens' = [tokens EXCEPT ![n] = [holder |-> owner, expiry |-> clock + d]]
  BY DEF Mint
<1> DEFINE e == clock + d
<1>4. PICK expiry \in Nat : expiry # 0 /\
        tokens' = [tokens EXCEPT ![n] = [holder |-> owner, expiry |-> expiry]]
  BY <1>2, <1>3
<1>5. HoldersKept /\ \A m \in Names : m # n => tokens'[m] = tokens[m]
  BY <1>4, TokenWritten
<1>7. ApprovalsKept  BY ApprovalCleared DEF Mint
<1>6. tokens[n].holder # NoOne => tokens[n].expiry + Grace < clock
  BY DEF Mint, Available, NameInv
<1> QED BY <1>1, <1>5, <1>6, <1>7 DEF HeldUntilGraceEnds, TokensKept

LEMMA Renews ==
    ASSUME NameInv, NEW n \in Names, NEW d \in Durations, Renew(n, d)
    PROVE  NodesKept /\ SpacesKept /\ TokensKept /\ \A m \in Names : HeldUntilGraceEnds(m)
<1>1. tokens[n] \in TokenRecords  BY DEF NameInv
<1>2. tokens[n].expiry \in Nat /\ tokens[n].holder \in People \cup {NoOne} /\ d \in Nat /\ d # 0
  BY <1>1, NameAssumption DEF TokenRecords
<1>3. PICK e \in Nat : e = tokens[n].expiry + d /\ e # 0  BY <1>2
<1>4. tokens' = [tokens EXCEPT ![n].expiry = e]  BY <1>3 DEF Renew
<1>5. [tokens[n] EXCEPT !.expiry = e] = [holder |-> tokens[n].holder, expiry |-> e]
  BY <1>1 DEF TokenRecords
<1>6. PICK h \in People \cup {NoOne} : h = tokens[n].holder  BY <1>2
<1>7. tokens' = [tokens EXCEPT ![n] = [holder |-> h, expiry |-> e]]  BY <1>4, <1>5, <1>6
<1>8. /\ HoldersKept /\ \A m \in Names : m # n => tokens'[m] = tokens[m]
      /\ tokens'[n].holder = h
  BY <1>3, <1>7, TokenWritten
<1>10. ApprovalsKept  BY ApprovalsLeft DEF Renew, approvalVars
<1>9. NodesKept /\ SpacesKept  BY DEF Renew, NodesKept, SpacesKept, NameInv
<1> QED BY <1>6, <1>8, <1>9, <1>10 DEF HeldUntilGraceEnds, TokensKept

(* A transfer by whoever is authorised, which the invariant says of the     *)
(* present holder.                                                          *)
LEMMA Transfers ==
    ASSUME NameInv, NEW n \in Names, NEW a \in People, NEW to \in People,
           TransferName(a, n, to), sender' = a
    PROVE  NodesKept /\ SpacesKept /\ TokensKept /\ \A m \in Names : HeldUntilGraceEnds(m)
<1>1. tokens[n] \in TokenRecords /\ clock \in Nat  BY DEF NameInv
<1>2. Live(n) /\ IsAuthorized(a, n) /\ a # NoOne  BY AccountsDiffer DEF TransferName
<1>3. PICK e \in Nat : e = tokens[n].expiry /\ e # 0
  BY <1>1, <1>2 DEF TokenRecords, Live
<1>4. tokens' = [tokens EXCEPT ![n].holder = to] /\ nodes' = [nodes EXCEPT ![n].owner = to]
  BY DEF TransferName
<1>5. [tokens[n] EXCEPT !.holder = to] = [holder |-> to, expiry |-> e]
  BY <1>1, <1>3 DEF TokenRecords
<1>6. tokens' = [tokens EXCEPT ![n] = [holder |-> to, expiry |-> e]]  BY <1>4, <1>5
<1>7. HoldersKept /\ \A m \in Names : m # n => tokens'[m] = tokens[m]
  <2>1. to \in People \cup {NoOne}  OBVIOUS
  <2> QED BY <1>3, <1>6, <2>1, TokenWritten
<1>8. ApprovalsKept  BY ApprovalCleared DEF TransferName
<1>9. NodesKept /\ SpacesKept  BY <1>4, NameOwnerWritten DEF Owners
<1>10. Appointed(a, n) \/ approvals[n] = [to |-> a, tenure |-> tenures[n]]
  <2>1. CASE approvals[n].to = a
    <3>1. approvals[n] \in ApprovalRecords /\ approvals[n].tenure = tenures[n]
      BY <1>2, <2>1 DEF NameInv
    <3>2. approvals[n] = [to |-> approvals[n].to, tenure |-> approvals[n].tenure]
      BY <3>1 DEF ApprovalRecords
    <3> QED BY <2>1, <3>1, <3>2
  <2> QED BY <1>2, <2>1 DEF IsAuthorized
<1> QED BY <1>2, <1>7, <1>8, <1>9, <1>10 DEF HeldUntilGraceEnds, TokensKept

LEMMA Approves ==
    ASSUME NameInv, NEW n \in Names, NEW a, NEW to \in People \cup {NoOne},
           ApproveToken(a, n, to)
    PROVE  TokensKept /\ \A m \in Names : HeldUntilGraceEnds(m)
<1> DEFINE given == [to |-> to, tenure |-> tenures[n]]
<1>1. approvals \in [Names -> ApprovalRecords] /\ tenures[n] \in Nat  BY DEF NameInv
<1>2. given \in ApprovalRecords /\ given.tenure = tenures[n]
  BY <1>1 DEF ApprovalRecords
<1>3. approvals' = [approvals EXCEPT ![n] = given] /\ UNCHANGED <<tokens, tenures>>
  BY DEF ApproveToken
<1> HIDE DEF given
<1>4. /\ approvals' \in [Names -> ApprovalRecords] /\ approvals'[n] = given
      /\ \A m \in Names : m # n => approvals'[m] = approvals[m]
  BY <1>1, <1>2, <1>3
<1>5. ApprovalsKept  BY <1>2, <1>3, <1>4 DEF ApprovalsKept, NameInv
<1> QED BY <1>3, <1>5 DEF TokensKept, HoldersKept, HeldUntilGraceEnds, NameInv

(* The steps that leave the tokens alone. *)
LEMMA TokensLeft ==
    ASSUME NameInv, UNCHANGED <<tokens, approvals, tenures>>
    PROVE  TokensKept /\ \A n \in Names : HeldUntilGraceEnds(n)
BY DEF NameInv, TokensKept, HoldersKept, ApprovalsKept, HeldUntilGraceEnds

LEMMA Opens ==
    ASSUME NameInv, NEW ns \in Namespaces, NEW a, NEW owner, NEW pricing, NEW promo,
           OpenNamespace(a, ns, owner, pricing, promo)
    PROVE  NodesKept /\ \A other \in Namespaces : NamespaceIsIsolated(other)
<1> DEFINE entry == [owner |-> Registrar(ns), resolver |-> "defaultResolver"]
<1>1. entry \in NodeRecords /\ entry.owner = Registrar(ns)
  BY DEF NodeRecords, Resolvers, Owners
<1>2. nodes' = [nodes EXCEPT ![SpaceNode(ns)] = entry] /\ nodes \in [NodeSet -> NodeRecords]
  BY DEF OpenNamespace, NameInv
<1> HIDE DEF entry
<1>3. /\ nodes' \in [NodeSet -> NodeRecords] /\ nodes'[SpaceNode(ns)] = entry
      /\ \A m \in NodeSet : m # SpaceNode(ns) => nodes'[m] = nodes[m]
  BY <1>1, <1>2, NodesDiffer
<1> QED BY <1>1, <1>3, NodesDiffer DEF NodesKept, NamespaceIsIsolated

LEMMA RootWrites ==
    ASSUME NameInv, NEW ns \in Namespaces, NEW a \in People, NEW owner \in People,
           SetRootSubnode(a, ns, owner), sender' = a
    PROVE  NodesKept /\ \A other \in Namespaces : NamespaceIsIsolated(other)
<1> DEFINE entry == [nodes[SpaceNode(ns)] EXCEPT !.owner = owner]
<1>1. nodes[SpaceNode(ns)] \in NodeRecords /\ nodes \in [NodeSet -> NodeRecords]
  BY NodesDiffer DEF NameInv
<1>2. entry \in NodeRecords  BY <1>1 DEF NodeRecords, Owners
<1>3. nodes' = [nodes EXCEPT ![SpaceNode(ns)] = entry]  BY DEF SetRootSubnode
<1> HIDE DEF entry
<1>4. nodes' \in [NodeSet -> NodeRecords]  BY <1>1, <1>2, <1>3
<1>5. sender' = nodes[Root].owner \/ <<nodes[Root].owner, sender'>> \in operators
  BY DEF SetRootSubnode, Authorised
<1> QED BY <1>4, <1>5 DEF NodesKept, NamespaceIsIsolated

LEMMA SpacesAreIsolated ==
    ASSUME SpacesKept
    PROVE  \A ns \in Namespaces : NamespaceIsIsolated(ns)
BY DEF SpacesKept, NamespaceIsIsolated

StaysTheirs ==
    /\ \A n \in Names : HeldUntilGraceEnds(n)
    /\ \A ns \in Namespaces : NamespaceIsIsolated(ns)

LEMMA TransactKeeps ==
    ASSUME NameInv, Transact
    PROVE  NodesKept /\ TokensKept /\ UNCHANGED clock /\ StaysTheirs
<1> USE DEF StaysTheirs, approvalVars
<1>0. UNCHANGED nodes => NodesKept /\ SpacesKept  BY DEF NodesKept, SpacesKept, NameInv
<1>1. ASSUME NEW a \in People, NEW owner \in People, NEW ns \in Namespaces,
             NEW pricing \in PriceTables, NEW promo \in Promos,
             OpenNamespace(a, ns, owner, pricing, promo) \/ SetTerms(a, ns, pricing, promo)
      PROVE  NodesKept /\ TokensKept /\ UNCHANGED clock /\ StaysTheirs
  <2>1. CASE OpenNamespace(a, ns, owner, pricing, promo)
    BY <2>1, Opens, TokensLeft DEF OpenNamespace
  <2>2. CASE SetTerms(a, ns, pricing, promo)
    BY <1>0, <2>2, TokensLeft, SpacesAreIsolated DEF SetTerms
  <2> QED BY <1>1, <2>1, <2>2
<1>2. ASSUME NEW a \in People, NEW b \in People, NEW approved \in BOOLEAN,
             SetApprovalForAll(a, b, approved)
      PROVE  NodesKept /\ TokensKept /\ UNCHANGED clock /\ StaysTheirs
  BY <1>0, <1>2, TokensLeft, SpacesAreIsolated DEF SetApprovalForAll
<1>3. ASSUME NEW ns \in Namespaces, NEW active \in BOOLEAN, NEW black \in BOOLEAN,
             SetStanding(ns, active, black)
      PROVE  NodesKept /\ TokensKept /\ UNCHANGED clock /\ StaysTheirs
  BY <1>0, <1>3, TokensLeft, SpacesAreIsolated DEF SetStanding
<1>4. ASSUME NEW a \in People, NEW b \in People, NEW name \in Names, SetAddr(a, name, b)
      PROVE  NodesKept /\ TokensKept /\ UNCHANGED clock /\ StaysTheirs
  BY <1>0, <1>4, TokensLeft, SpacesAreIsolated DEF SetAddr
<1>5. ASSUME NEW name \in Names, NEW owner \in People, NEW d \in Durations,
             \/ RegisterCustom(name, owner, d)
             \/ Renew(name, d)
             \/ \E r \in {"unset", "otherResolver"}, address \in {NoOne, owner} :
                  Register(name, owner, d, r, address)
      PROVE  NodesKept /\ TokensKept /\ UNCHANGED clock /\ StaysTheirs
  <2>1. CASE RegisterCustom(name, owner, d)
    BY <2>1, Mints, SpacesAreIsolated DEF RegisterCustom, Resolvers
  <2>2. CASE Renew(name, d)
    BY <2>2, Renews, SpacesAreIsolated DEF Renew
  <2>3. ASSUME NEW r \in {"unset", "otherResolver"}, NEW address \in {NoOne, owner},
               Register(name, owner, d, r, address)
        PROVE  NodesKept /\ TokensKept /\ UNCHANGED clock /\ StaysTheirs
    <3>1. PICK s \in Resolvers : Mint(name, owner, d, s)  BY <2>3 DEF Register, Resolvers
    <3>2. UNCHANGED clock  BY <2>3 DEF Register
    <3> QED BY <3>1, <3>2, Mints, SpacesAreIsolated
  <2> QED BY <1>5, <2>1, <2>2, <2>3
<1>6. ASSUME NEW a \in People, NEW ns \in Namespaces,
             NEW set \in SUBSET {Controller(ns), CustomController}, SetControllers(a, ns, set)
      PROVE  NodesKept /\ TokensKept /\ UNCHANGED clock /\ StaysTheirs
  BY <1>0, <1>6, TokensLeft, SpacesAreIsolated DEF SetControllers
<1> QED BY <1>1, <1>2, <1>3, <1>4, <1>5, <1>6 DEF Transact

LEMMA RegistryWriteKeeps ==
    ASSUME NameInv, NEW a \in People, RegistryWrite(a), sender' = a
    PROVE  NodesKept /\ TokensKept /\ UNCHANGED clock /\ StaysTheirs
<1> USE DEF StaysTheirs, approvalVars
<1>1. ASSUME NEW node \in Names, NEW owner \in People, NEW r \in {"unset", "otherResolver"},
             SetRecord(a, node, owner, r)
      PROVE  NodesKept /\ TokensKept /\ UNCHANGED clock /\ StaysTheirs
  BY <1>1, NameNodeWritten, TokensLeft, SpacesAreIsolated DEF SetRecord, Owners, Resolvers
<1>2. ASSUME NEW ns \in Namespaces, NEW owner \in People, SetRootSubnode(a, ns, owner)
      PROVE  NodesKept /\ TokensKept /\ UNCHANGED clock /\ StaysTheirs
  BY <1>2, RootWrites, TokensLeft DEF SetRootSubnode
<1> QED BY <1>1, <1>2 DEF RegistryWrite

LEMMA TokenCallKeeps ==
    ASSUME NameInv, NEW a \in People, TokenCall(a), sender' = a
    PROVE  NodesKept /\ TokensKept /\ UNCHANGED clock /\ StaysTheirs
<1> USE DEF StaysTheirs, approvalVars
<1>0. UNCHANGED nodes => NodesKept /\ SpacesKept  BY DEF NodesKept, SpacesKept, NameInv
<1>1. ASSUME NEW name \in Names, NEW to \in People, TransferName(a, name, to)
      PROVE  NodesKept /\ TokensKept /\ UNCHANGED clock /\ StaysTheirs
  <2>1. UNCHANGED clock  BY <1>1 DEF TransferName
  <2> QED BY <1>1, <2>1, Transfers, SpacesAreIsolated
<1>2. ASSUME NEW name \in Names, NEW to \in People, Reclaim(a, name, to)
      PROVE  NodesKept /\ TokensKept /\ UNCHANGED clock /\ StaysTheirs
  BY <1>2, NameOwnerWritten, TokensLeft, SpacesAreIsolated DEF Reclaim, Owners
<1>3. ASSUME NEW name \in Names, NEW to \in People \cup {NoOne}, ApproveToken(a, name, to)
      PROVE  NodesKept /\ TokensKept /\ UNCHANGED clock /\ StaysTheirs
  <2>1. UNCHANGED <<nodes, clock>>  BY <1>3 DEF ApproveToken
  <2> QED BY <1>0, <1>3, <2>1, Approves, SpacesAreIsolated
<1>4. ASSUME NEW ns \in Namespaces, NEW b \in People, NEW approved \in BOOLEAN,
             SetTokenOperator(a, ns, b, approved)
      PROVE  NodesKept /\ TokensKept /\ UNCHANGED clock /\ StaysTheirs
  BY <1>0, <1>4, TokensLeft, SpacesAreIsolated DEF SetTokenOperator
<1> QED BY <1>1, <1>2, <1>3, <1>4 DEF TokenCall

LEMMA NameStep ==
    ASSUME NameInv, [NameNext]_nameVars
    PROVE  NameInv' /\ StaysTheirs
<1> USE DEF NodesKept, TokensKept, HoldersKept, ApprovalsKept
<1>1. CASE Transact  BY <1>1, TransactKeeps DEF NameInv
<1>2. ASSUME NEW a \in People, RegistryWrite(a) \/ TokenCall(a), sender' = a
      PROVE  NameInv' /\ StaysTheirs
  BY <1>2, RegistryWriteKeeps, TokenCallKeeps DEF NameInv
<1>3. CASE Tick \/ UNCHANGED nameVars
  <2>1. UNCHANGED <<nodes, tokens, approvals, tenures>> /\ clock' \in Nat
    BY <1>3 DEF Tick, nameVars, approvalVars, NameInv
  <2>2. SpacesKept  BY <2>1 DEF SpacesKept
  <2> QED BY <2>1, <2>2, TokensLeft, SpacesAreIsolated DEF NameInv, StaysTheirs
<1> QED BY <1>1, <1>2, <1>3 DEF NameNext

LEMMA NamesStart == NameInit => NameInv
<1> SUFFICES ASSUME NameInit PROVE NameInv  OBVIOUS
<1>1. nodes \in [NodeSet -> NodeRecords]
  <2>1. Governor \in Owners /\ NoOne \in Owners  BY DEF Owners, People
  <2> QED BY <2>1 DEF NameInit, NodeRecords, Resolvers
<1>2. NoToken \in TokenRecords /\ NoToken.holder = NoOne  BY DEF NoToken, TokenRecords
<1>3. NoApproval \in ApprovalRecords /\ NoApproval.to = NoOne
  BY DEF NoApproval, ApprovalRecords
<1> QED BY <1>1, <1>2, <1>3 DEF NameInit, NameInv

(* For any people, namespaces, labels, prices and grace period, whoever     *)
(* calls what and however time passes: a name leaves its holder only while  *)
(* it is live, by the hand of the holder, of an operator the holder         *)
(* appointed or of the account approved for it since it last changed hands, *)
(* or after its grace period; and a namespace's node leaves its registrar only by    *)
(* the hand of the root's owner or operator.                                *)
THEOREM HeldNamesStay == NameSpec => NamesStayTheirs
<1>1. NameInv /\ [NameNext]_nameVars =>
        [/\ \A n \in Names : HeldUntilGraceEnds(n)
         /\ \A ns \in Namespaces : NamespaceIsIsolated(ns)]_nameVars
  BY NameStep DEF StaysTheirs
<1> QED BY <1>1, NamesStart, NameStep, PTL DEF NameSpec, NamesStayTheirs

-----------------------------------------------------------------------------
(* The pool's evidence.  Of a record that was not edited the pinned block   *)
(* and the counts of the scan are those of the collection.                  *)

ScanRecords ==
    [honest : ScanEndpoints, pin : Nat, seen : [ScanEndpoints -> BlockHashes],
     done : [ScanEndpoints -> Nat], found : SUBSET PoolKeys, swapped : SUBSET PoolDirections]

Keys(body) == {c.key : c \in body.candidates}

(* The honest endpoint's share of a collection. *)
BodyOK(body) ==
    /\ body.ranges \in Nat /\ body.ranges <= Len(poolChain)
    /\ body.seen[scan.honest] = "canonical"
    /\ body.done[scan.honest] = body.ranges => InitializedUpTo(body.ranges) \subseteq Keys(body)

ScanOK ==
    /\ scan \in ScanRecords
    /\ scan.pin <= Len(poolChain)
    /\ \A e \in ScanEndpoints : scan.done[e] <= scan.pin
    /\ scan.pin > 0 => scan.seen[scan.honest] = "canonical"
    /\ InitializedUpTo(scan.done[scan.honest]) \subseteq scan.found

FileOK ==
    \/ evidenceFile = None
    \/ /\ evidenceFile # None /\ evidenceFile.edits \in Nat
       /\ evidenceFile.edits = 0 => BodyOK(evidenceFile.body)

(* What validation adds. *)
AcceptedOK ==
    \/ accepted = None
    \/ /\ accepted # None /\ ConclusionsFailClosed(accepted.body)
       /\ \A c \in accepted.body.candidates : c.id = c.key
       /\ accepted.edits = 0 =>
            /\ BodyOK(accepted.body) /\ accepted.body.hash = "canonical"
            /\ accepted.body.unique => accepted.body.done[scan.honest] = accepted.body.ranges

PoolInv == poolChain \in Seq(SUBSET PoolKeys) /\ ScanOK /\ FileOK /\ AcceptedOK

LEMMA PoolStarts == PoolInit => PoolInv
<1> SUFFICES ASSUME PoolInit PROVE PoolInv  OBVIOUS
<1>1. PICK honest \in ScanEndpoints :
        scan = [honest |-> honest, pin |-> 0, seen |-> [e \in ScanEndpoints |-> "canonical"],
                done |-> [e \in ScanEndpoints |-> 0], found |-> {}, swapped |-> {}]
  BY DEF PoolInit
<1>2. InitializedUpTo(0) = {}  BY DEF InitializedUpTo
<1>3. scan \in ScanRecords  BY <1>1 DEF ScanRecords, BlockHashes
<1>4. ScanOK
  <2>1. Len(poolChain) = 0  BY DEF PoolInit
  <2> QED BY <1>1, <1>2, <1>3, <2>1 DEF ScanOK
<1> QED BY <1>4 DEF PoolInit, PoolInv, FileOK, AcceptedOK

(* New ranges come after those that were scanned. *)
RangesGrow ==
    /\ Len(poolChain) \in Nat /\ Len(poolChain') \in Nat /\ Len(poolChain) <= Len(poolChain')
    /\ \A r \in 1 .. Len(poolChain) : poolChain'[r] = poolChain[r]

LEMMA RangesStay ==
    ASSUME PoolInv, MineRange \/ UNCHANGED poolChain
    PROVE  poolChain' \in Seq(SUBSET PoolKeys) /\ RangesGrow
<1>1. CASE MineRange
  <2>1. PICK pools \in SUBSET PoolKeys : poolChain' = Append(poolChain, pools)
    BY <1>1 DEF MineRange
  <2> QED BY <2>1 DEF PoolInv, RangesGrow
<1>2. CASE UNCHANGED poolChain  BY <1>2 DEF PoolInv, RangesGrow
<1> QED BY <1>1, <1>2

LEMMA ScannedStays ==
    ASSUME RangesGrow, NEW n \in Nat, n <= Len(poolChain)
    PROVE  InitializedUpTo(n)' = InitializedUpTo(n)
<1>1. \A r \in 1 .. n : poolChain'[r] = poolChain[r]  BY DEF RangesGrow
<1> QED BY <1>1 DEF InitializedUpTo

LEMMA BodyStays ==
    ASSUME RangesGrow, scan'.honest = scan.honest, NEW b, BodyOK(b)
    PROVE  BodyOK(b)'
<1>1. b.ranges \in Nat /\ b.ranges <= Len(poolChain)  BY DEF BodyOK
<1>2. InitializedUpTo(b.ranges)' = InitializedUpTo(b.ranges)  BY <1>1, ScannedStays
<1> QED BY <1>1, <1>2 DEF BodyOK, Keys, RangesGrow

(* A file or an accepted record that is left alone. *)
LEMMA RecordsStay ==
    ASSUME PoolInv, RangesGrow, scan'.honest = scan.honest
    PROVE  /\ UNCHANGED evidenceFile => FileOK'
           /\ UNCHANGED accepted => AcceptedOK'
<1>1. ASSUME UNCHANGED evidenceFile, evidenceFile # None, evidenceFile.edits = 0
      PROVE  BodyOK(evidenceFile.body)'
  <2>1. PICK b : b = evidenceFile.body  OBVIOUS
  <2>2. BodyOK(b)  BY <1>1, <2>1 DEF PoolInv, FileOK
  <2>3. BodyOK(b)'  BY <2>2, BodyStays
  <2> QED BY <1>1, <2>1, <2>3 DEF BodyOK, Keys
<1>2. ASSUME UNCHANGED accepted, accepted # None, accepted.edits = 0
      PROVE  BodyOK(accepted.body)'
  <2>1. PICK b : b = accepted.body  OBVIOUS
  <2>2. BodyOK(b)  BY <1>2, <2>1 DEF PoolInv, AcceptedOK
  <2>3. BodyOK(b)'  BY <2>2, BodyStays
  <2> QED BY <1>2, <2>1, <2>3 DEF BodyOK, Keys
<1> QED BY <1>1, <1>2 DEF FileOK, AcceptedOK, PoolInv, ConclusionsFailClosed

LEMMA MineRangeKeeps ==
    ASSUME PoolInv, MineRange
    PROVE  PoolInv'
<1>0. UNCHANGED <<scan, evidenceFile, accepted>> /\ RangesGrow
  BY RangesStay DEF MineRange
<1>1. ScanOK'
  <2>1. scan.pin \in Nat /\ scan.done[scan.honest] \in Nat /\ scan.honest \in ScanEndpoints
    BY DEF PoolInv, ScanOK, ScanRecords
  <2>2. scan.done[scan.honest] <= scan.pin /\ scan.pin <= Len(poolChain)
        /\ scan.done[scan.honest] <= Len(poolChain)
    BY <1>0, <2>1 DEF PoolInv, ScanOK, RangesGrow
  <2>3. ASSUME NEW n \in Nat, n <= Len(poolChain) PROVE InitializedUpTo(n)' = InitializedUpTo(n)
    BY <1>0, <2>3, ScannedStays
  <2>4. PICK pin \in Nat, done \in Nat : pin = scan.pin /\ done = scan.done[scan.honest]
    BY <2>1
  <2>5. InitializedUpTo(pin)' = InitializedUpTo(pin) /\ InitializedUpTo(done)' = InitializedUpTo(done)
    BY <2>2, <2>3, <2>4
  <2>6. /\ UNION {poolChain'[r] : r \in 1 .. pin} = InitializedUpTo(pin)
        /\ UNION {poolChain'[r] : r \in 1 .. done} = InitializedUpTo(done)
    BY <2>5 DEF InitializedUpTo
  <2> QED BY <1>0, <2>1, <2>2, <2>4, <2>6 DEF PoolInv, ScanOK, RangesGrow, InitializedUpTo
<1> QED BY <1>0, <1>1, RangesStay, RecordsStay DEF PoolInv

(* The steps of a collection. *)
LEMMA ScanStepKeeps ==
    ASSUME PoolInv, UNCHANGED <<poolChain, evidenceFile, accepted>>, ScanOK',
           scan'.honest = scan.honest
    PROVE  PoolInv'
BY RangesStay, RecordsStay DEF PoolInv

LEMMA PinKeeps ==
    ASSUME PoolInv, PinBlock
    PROVE  PoolInv'
<1>1. PICK seen \in [ScanEndpoints -> BlockHashes] :
        seen[scan.honest] = "canonical" /\ scan' = [scan EXCEPT !.pin = Len(poolChain), !.seen = seen]
  BY DEF PinBlock
<1>2. scan \in ScanRecords /\ scan.pin = 0 /\ Len(poolChain) \in Nat /\ UNCHANGED poolChain
  BY DEF PoolInv, ScanOK, PinBlock
<1>3. /\ scan' \in ScanRecords /\ scan'.honest = scan.honest /\ scan'.pin = Len(poolChain)
      /\ scan'.seen = seen /\ scan'.done = scan.done /\ scan'.found = scan.found
  BY <1>1, <1>2 DEF ScanRecords
<1>6. \A e \in ScanEndpoints : scan.done[e] <= Len(poolChain)
  BY <1>2 DEF PoolInv, ScanOK, ScanRecords
<1>7. InitializedUpTo(scan.done[scan.honest]) \subseteq scan.found  BY DEF PoolInv, ScanOK
<1>8. ScanOK'  BY <1>1, <1>2, <1>3, <1>6, <1>7 DEF ScanOK, InitializedUpTo
<1> QED BY <1>3, <1>8, ScanStepKeeps DEF PinBlock

LEMMA OneMoreRange ==
    ASSUME poolChain \in Seq(SUBSET PoolKeys), NEW n \in Nat
    PROVE  InitializedUpTo(n + 1) = InitializedUpTo(n) \cup poolChain[n + 1]
<1>1. 1 .. n + 1 = (1 .. n) \cup {n + 1}  OBVIOUS
<1> QED BY <1>1 DEF InitializedUpTo

LEMMA ScanRangeKeeps ==
    ASSUME PoolInv, NEW e \in ScanEndpoints, ScanRange(e)
    PROVE  PoolInv'
<1>1. PICK logs \in SUBSET PoolKeys :
        /\ e = scan.honest => logs = poolChain[scan.done[e] + 1]
        /\ scan' = [scan EXCEPT !.done[e] = @ + 1, !.found = @ \cup logs]
  BY DEF ScanRange
<1> DEFINE n == scan.done[e]
           done == [scan.done EXCEPT ![e] = n + 1]
           found == scan.found \cup logs
<1>2. /\ scan \in ScanRecords /\ n \in Nat /\ n < scan.pin /\ UNCHANGED poolChain
      /\ scan.pin \in Nat /\ scan.pin <= Len(poolChain) /\ Len(poolChain) \in Nat
      /\ poolChain \in Seq(SUBSET PoolKeys) /\ scan.found \in SUBSET PoolKeys
      /\ scan.done \in [ScanEndpoints -> Nat]
  BY DEF PoolInv, ScanOK, ScanRange, ScanRecords
<1>3. poolChain[n + 1] \in SUBSET PoolKeys /\ n + 1 \in Nat /\ n + 1 <= scan.pin
  <2>1. n + 1 \in 1 .. Len(poolChain)  BY <1>2
  <2> QED BY <1>2, <2>1
<1>4. scan' = [scan EXCEPT !.done = done, !.found = found]  BY <1>1, <1>2 DEF ScanRecords
<1>5. done \in [ScanEndpoints -> Nat] /\ found \in SUBSET PoolKeys  BY <1>1, <1>2, <1>3
<1>6. done[e] = n + 1 /\ \A f \in ScanEndpoints : f # e => done[f] = scan.done[f]
  BY <1>2
<1>7. InitializedUpTo(n + 1) = InitializedUpTo(n) \cup poolChain[n + 1]
  BY <1>2, OneMoreRange
<1>9. InitializedUpTo(done[scan.honest]) \subseteq found
  <2>0. InitializedUpTo(scan.done[scan.honest]) \subseteq scan.found /\ scan.honest \in ScanEndpoints
    BY DEF PoolInv, ScanOK, ScanRecords
  <2>1. CASE e = scan.honest
    <3>1. done[scan.honest] = n + 1  BY <1>6, <2>1
    <3> QED BY <1>1, <1>7, <2>0, <2>1, <3>1
  <2>2. CASE e # scan.honest
    <3>1. done[scan.honest] = scan.done[scan.honest]  BY <1>6, <2>0, <2>2
    <3> QED BY <2>0, <3>1
  <2> QED BY <2>1, <2>2
<1>10. \A f \in ScanEndpoints : done[f] <= scan.pin  BY <1>3, <1>6 DEF PoolInv, ScanOK
<1> HIDE DEF done, found, n
<1>11. /\ scan' \in ScanRecords /\ scan'.honest = scan.honest /\ scan'.pin = scan.pin
       /\ scan'.seen = scan.seen /\ scan'.done = done /\ scan'.found = found
  BY <1>2, <1>4, <1>5 DEF ScanRecords
<1>12. ScanOK'
  BY <1>2, <1>9, <1>10, <1>11 DEF PoolInv, ScanOK, InitializedUpTo
<1> QED BY <1>11, <1>12, ScanStepKeeps DEF ScanRange

LEMMA SwapSeenKeeps ==
    ASSUME PoolInv, NEW d \in PoolDirections, DirectSwap(d)
    PROVE  PoolInv'
<1>1. scan \in ScanRecords /\ UNCHANGED poolChain  BY DEF PoolInv, ScanOK, DirectSwap
<1> DEFINE swapped == scan.swapped \cup {d}
<1>2. swapped \in SUBSET PoolDirections  BY <1>1 DEF ScanRecords
<1>3. scan' = [scan EXCEPT !.swapped = swapped]  BY DEF DirectSwap
<1> HIDE DEF swapped
<1>4. /\ scan' \in ScanRecords /\ scan'.honest = scan.honest /\ scan'.pin = scan.pin
      /\ scan'.seen = scan.seen /\ scan'.done = scan.done /\ scan'.found = scan.found
  BY <1>1, <1>2, <1>3 DEF ScanRecords
<1>5. ScanOK'  BY <1>1, <1>4 DEF PoolInv, ScanOK, InitializedUpTo
<1> QED BY <1>4, <1>5, ScanStepKeeps DEF DirectSwap

(* The record says what was collected, whatever it concludes. *)
LEMMA RecordKeeps ==
    ASSUME PoolInv, RecordEvidence
    PROVE  PoolInv'
<1>1. PICK unique \in BOOLEAN, hash \in {scan.seen[e] : e \in ScanEndpoints} :
        LET body == [hash |-> hash, seen |-> scan.seen, ranges |-> scan.pin, done |-> scan.done,
                     unique |-> unique, candidates |-> {[key |-> k, id |-> k] : k \in scan.found},
                     swaps |-> scan.swapped, conclusions |-> CandidateOnly]
        IN  evidenceFile' = [body |-> body, digest |-> body, edits |-> 0]
  BY DEF RecordEvidence
<1>2. /\ scan \in ScanRecords /\ scan.pin > 0 /\ UNCHANGED <<poolChain, scan>>
      /\ accepted' = None
  BY DEF PoolInv, ScanOK, RecordEvidence
<1> DEFINE candidates == {[key |-> k, id |-> k] : k \in scan.found}
           body == [hash |-> hash, seen |-> scan.seen, ranges |-> scan.pin, done |-> scan.done,
                    unique |-> unique, candidates |-> candidates,
                    swaps |-> scan.swapped, conclusions |-> CandidateOnly]
<1>3. ASSUME NEW k \in scan.found PROVE k \in {c.key : c \in candidates}
  <2>1. PICK c \in candidates : c = [key |-> k, id |-> k]  OBVIOUS
  <2> QED BY <2>1
<1> HIDE DEF candidates
<1>4. /\ body.ranges = scan.pin /\ body.seen = scan.seen
      /\ body.done = scan.done /\ body.candidates = candidates
  OBVIOUS
<1>5. evidenceFile' = [body |-> body, digest |-> body, edits |-> 0]  BY <1>1 DEF candidates
<1> HIDE DEF body
<1>6. BodyOK(body)
  <2>1. scan.found \subseteq Keys(body)  BY <1>3, <1>4 DEF Keys
  <2> QED BY <1>2, <1>4, <2>1 DEF PoolInv, ScanOK, BodyOK, ScanRecords
<1>7. PICK b : b = body  OBVIOUS
<1>8. BodyOK(b)'  BY <1>2, <1>6, <1>7, RangesStay, BodyStays
<1>9. evidenceFile' # None /\ evidenceFile'.body = b /\ evidenceFile'.edits = 0
  BY <1>5, <1>7 DEF None
<1>10. FileOK'  BY <1>8, <1>9 DEF FileOK, BodyOK, Keys
<1> QED BY <1>2, <1>10, RangesStay DEF PoolInv, ScanOK, AcceptedOK, InitializedUpTo

(* Nothing is claimed of an edited record but what validation checks. *)
LEMMA EditKeeps ==
    ASSUME PoolInv, EditEvidence
    PROVE  PoolInv'
<1>1. PICK edited, digest :
        evidenceFile' = [body |-> edited, digest |-> digest, edits |-> evidenceFile.edits + 1]
  BY DEF EditEvidence
<1>2. /\ UNCHANGED <<poolChain, scan>> /\ accepted' = None
      /\ evidenceFile.edits \in Nat
  BY DEF PoolInv, FileOK, EditEvidence
<1>3. PICK n \in Nat : n = evidenceFile.edits + 1 /\ n # 0  BY <1>2
<1>4. evidenceFile' # None /\ evidenceFile'.edits = n  BY <1>1, <1>3 DEF None
<1>5. FileOK'  BY <1>3, <1>4 DEF FileOK
<1> QED BY <1>2, <1>5, RangesStay DEF PoolInv, ScanOK, AcceptedOK, InitializedUpTo

LEMMA ValidateKeeps ==
    ASSUME PoolInv, ValidateEvidence
    PROVE  PoolInv'
<1> DEFINE body == evidenceFile.body
<1>0. /\ UNCHANGED <<poolChain, scan, evidenceFile>> /\ accepted' = evidenceFile
      /\ scan.honest \in ScanEndpoints /\ evidenceFile # None
  BY DEF PoolInv, ScanOK, ScanRecords, ValidateEvidence
<1>1. /\ ConclusionsFailClosed(body) /\ \A c \in body.candidates : c.id = c.key
      /\ body.seen[scan.honest] = body.hash
      /\ body.unique => body.done[scan.honest] = body.ranges
  BY <1>0 DEF ValidateEvidence, RpcQuorum, CandidatesMatch, ScanAgrees
<1>2. ASSUME evidenceFile.edits = 0 PROVE BodyOK(body) /\ body.hash = "canonical"
  BY <1>0, <1>1, <1>2 DEF PoolInv, FileOK, BodyOK
<1>3. AcceptedOK'
  BY <1>0, <1>1, <1>2 DEF AcceptedOK, BodyOK, Keys, InitializedUpTo, ConclusionsFailClosed
<1> QED BY <1>0, <1>3, RangesStay, RecordsStay DEF PoolInv, ScanOK, InitializedUpTo

LEMMA PoolStepKeeps ==
    ASSUME PoolInv, PoolNext \/ UNCHANGED poolVars
    PROVE  PoolInv'
<1>1. CASE UNCHANGED poolVars
  BY <1>1, RangesStay, RecordsStay DEF PoolInv, ScanOK, InitializedUpTo, poolVars
<1> QED BY <1>1, MineRangeKeeps, PinKeeps, ScanRangeKeeps, SwapSeenKeeps, RecordKeeps, EditKeeps,
          ValidateKeeps DEF PoolNext

LEMMA AcceptedHolds == PoolInv => PoolEvidenceHolds
<1> SUFFICES ASSUME PoolInv, accepted # None PROVE PoolEvidenceHolds
  BY DEF PoolEvidenceHolds
<1>1. /\ ConclusionsFailClosed(accepted.body) /\ \A c \in accepted.body.candidates : c.id = c.key
      /\ accepted.edits = 0 =>
           /\ BodyOK(accepted.body) /\ accepted.body.hash = "canonical"
           /\ accepted.body.unique => accepted.body.done[scan.honest] = accepted.body.ranges
  BY DEF PoolInv, AcceptedOK
<1> QED BY <1>1 DEF PoolEvidenceHolds, BodyOK, Keys

-----------------------------------------------------------------------------
(* The release.  What a verification has seen agreed was on the honest      *)
(* endpoint's chain, and the chain remembers what it mined.                 *)

RepoRecords ==
    [head : Commits, code : Codes, work : Codes, record : {"untracked", "staged", "committed"}]
InputRecords == [audited : Commits, fee : FeeRates, evidence : BOOLEAN]
ChainRecords ==
    [tx : {NoTx} \cup ReleaseTransactions, contract : {NoTx} \cup ReleasedContracts,
     mined : SUBSET InitCodes, forks : 0 .. MaxForks]
VerifiedRecords == [core : Cores, tx : ReleaseTransactions]

RepoOK == repo \in RepoRecords
FilesOK ==
    /\ resources \in ResourceStates /\ input \in {None} \cup InputRecords
    /\ record \in {None} \cup Records /\ plan \in {None} \cup Plans
ClockOK == releaseClock \in 0 .. MaxClock /\ upsets \in 0 .. MaxUpsets
ChainOK ==
    /\ chain \in ChainRecords
    /\ (chain.tx = NoTx) = (chain.contract = NoTx)
    /\ chain.tx # NoTx => chain.tx.init \in chain.mined
CheckOK ==
    /\ check \in Checks
    /\ check.kind = "verify" /\ check.at # "receipt" => InitCodeOf(check.core) \in chain.mined
ResultsOK ==
    /\ results \in [preflight : {None} \cup [core : Cores, record : {"untracked", "staged", "committed"}],
                    verified : {None} \cup VerifiedRecords]
    /\ VerifiedWasDeployed

RelInv == RepoOK /\ FilesOK /\ ClockOK /\ ChainOK /\ CheckOK /\ ResultsOK

LEMMA RelStarts == RelInit => RelInv
<1> SUFFICES ASSUME RelInit PROVE RelInv  OBVIOUS
<1>1. 0 \in Commits /\ 0 \in 0 .. MaxClock /\ 0 \in 0 .. MaxUpsets /\ 0 \in 0 .. MaxForks
  BY ReleaseAssumption DEF Commits
<1>2. RepoOK  BY <1>1 DEF RelInit, RepoOK, RepoRecords
<1>3. FilesOK /\ ClockOK  BY <1>1 DEF RelInit, FilesOK, ClockOK, ResourceStates
<1>4. ChainOK  BY <1>1 DEF RelInit, ChainOK, ChainRecords
<1>5. CheckOK  BY DEF RelInit, CheckOK, Checks, NoCheckUnderWay
<1>6. ResultsOK  BY DEF RelInit, ResultsOK, VerifiedWasDeployed
<1> QED BY <1>2, <1>3, <1>4, <1>5, <1>6 DEF RelInv

(* What a step leaves alone; the chain forgets nothing. *)
LEMMA RelLeftAlone ==
    ASSUME RelInv
    PROVE  /\ UNCHANGED repo => RepoOK'
           /\ UNCHANGED <<resources, input, record, plan>> => FilesOK'
           /\ UNCHANGED releaseClock /\ Calm => ClockOK'
           /\ UNCHANGED releaseClock /\ Upset => ClockOK'
           /\ UNCHANGED chain => ChainOK'
           /\ UNCHANGED check /\ chain.mined \subseteq chain'.mined => CheckOK'
           /\ UNCHANGED results /\ chain.mined \subseteq chain'.mined => ResultsOK'
<1>1. UNCHANGED repo => RepoOK'  BY DEF RelInv, RepoOK
<1>2. UNCHANGED <<resources, input, record, plan>> => FilesOK'  BY DEF RelInv, FilesOK
<1>3. UNCHANGED releaseClock /\ Calm => ClockOK'  BY DEF RelInv, ClockOK, Calm
<1>4. UNCHANGED releaseClock /\ Upset => ClockOK'
  BY ReleaseAssumption DEF RelInv, ClockOK, Upset
<1>5. UNCHANGED chain => ChainOK'  BY DEF RelInv, ChainOK
<1>6. UNCHANGED check /\ chain.mined \subseteq chain'.mined => CheckOK'
  BY DEF RelInv, CheckOK, InitCodeOf
<1>7. UNCHANGED results /\ chain.mined \subseteq chain'.mined => ResultsOK'
  BY DEF RelInv, ResultsOK, VerifiedWasDeployed, InitCodeOf
<1> QED BY <1>1, <1>2, <1>3, <1>4, <1>5, <1>6, <1>7

(* The steps of people on the repository and its files. *)
LEMMA PeopleKeep ==
    ASSUME RelInv, RepoOK', FilesOK', Calm \/ Upset,
           UNCHANGED <<releaseClock, chain, check, results>>
    PROVE  RelInv'
BY RelLeftAlone DEF RelInv

LEMMA RepositorySteps ==
    ASSUME RelInv, (\E c \in Codes : Edit(c)) \/ Commit \/ StageRecord
    PROVE  RelInv'
<1>0. repo \in RepoRecords  BY DEF RelInv, RepoOK
<1>1. ASSUME NEW c \in Codes, Edit(c) PROVE RelInv'
  <2>1. repo' = [repo EXCEPT !.work = c]  BY <1>1 DEF Edit
  <2>2. RepoOK'  BY <1>0, <2>1 DEF RepoOK, RepoRecords
  <2> QED BY <1>1, <2>2, PeopleKeep, RelLeftAlone DEF Edit
<1>2. ASSUME Commit PROVE RelInv'
  <2> DEFINE place == IF repo.record = "staged" THEN "committed" ELSE repo.record
             head == repo.head + 1
  <2>1. place \in {"untracked", "staged", "committed"} /\ repo.work \in Codes
    BY <1>0 DEF RepoRecords
  <2>2. head \in Commits  BY <1>0, <1>2, ReleaseAssumption DEF RepoRecords, Commits, Commit
  <2>3. repo' = [repo EXCEPT !.head = head, !.code = repo.work, !.record = place]
    BY <1>2, <1>0 DEF Commit, RepoRecords
  <2> HIDE DEF place, head
  <2>4. RepoOK'  BY <1>0, <2>1, <2>2, <2>3 DEF RepoOK, RepoRecords
  <2> QED BY <1>2, <2>4, PeopleKeep, RelLeftAlone DEF Commit
<1>3. ASSUME StageRecord PROVE RelInv'
  <2>1. repo' = [repo EXCEPT !.record = "staged"]  BY <1>3 DEF StageRecord
  <2>2. RepoOK'  BY <1>0, <2>1 DEF RepoOK, RepoRecords
  <2> QED BY <1>3, <2>2, PeopleKeep, RelLeftAlone DEF StageRecord
<1> QED BY <1>1, <1>2, <1>3

(* A plan is of what is compiled now, and a record of a plan. *)
LEMMA FreshPlanIsPlan ==
    ASSUME RelInv, CanBuild
    PROVE  FreshPlan \in Plans
<1>1. /\ input \in InputRecords /\ repo \in RepoRecords
      /\ record \in {None} \cup Records /\ (input.evidence => record \in Records)
  BY DEF RelInv, FilesOK, RepoOK, CanBuild, Loadable
<1>2. FreshCore \in Cores  BY <1>1 DEF FreshCore, Cores, InputRecords, RepoRecords
<1> DEFINE a == IF input.evidence THEN record ELSE None
<1>3. a \in {None} \cup Records  BY <1>1
<1> QED BY <1>2, <1>3 DEF FreshPlan, Plans

LEMMA RewrittenIsRepo == ASSUME RelInv PROVE Rewritten \in RepoRecords
<1> DEFINE place == IF repo.record = "committed" THEN "staged" ELSE repo.record
<1>1. repo \in RepoRecords  BY DEF RelInv, RepoOK
<1>2. place \in {"untracked", "staged", "committed"}  BY <1>1 DEF RepoRecords
<1>3. Rewritten = [repo EXCEPT !.record = place]  BY <1>1 DEF Rewritten, RepoRecords
<1> HIDE DEF place
<1> QED BY <1>1, <1>2, <1>3 DEF RepoRecords

LEMMA FileSteps ==
    ASSUME RelInv,
           \/ \E s \in ResourceStates : AssertResourceTransition(s)
           \/ \E f \in FeeRates, e \in BOOLEAN : ValidateDeploymentInput(f, e)
           \/ BuildDeploymentPlan
           \/ \E e \in 0 .. MaxClock : SignRecord(e)
           \/ RebindRecord
    PROVE  RelInv'
<1>1. ASSUME NEW s \in ResourceStates, AssertResourceTransition(s) PROVE RelInv'
  <2>1. FilesOK'  BY <1>1 DEF RelInv, FilesOK, AssertResourceTransition
  <2> QED BY <1>1, <2>1, PeopleKeep, RelLeftAlone DEF AssertResourceTransition
<1>2. ASSUME NEW f \in FeeRates, NEW e \in BOOLEAN, ValidateDeploymentInput(f, e) PROVE RelInv'
  <2>1. input' \in InputRecords
    BY <1>2 DEF ValidateDeploymentInput, InputRecords, RelInv, RepoOK, RepoRecords
  <2>2. FilesOK'  BY <1>2, <2>1 DEF RelInv, FilesOK, ValidateDeploymentInput
  <2> QED BY <1>2, <2>2, PeopleKeep, RelLeftAlone DEF ValidateDeploymentInput
<1>3. ASSUME BuildDeploymentPlan PROVE RelInv'
  <2>1. FilesOK'  BY <1>3, FreshPlanIsPlan DEF RelInv, FilesOK, BuildDeploymentPlan
  <2> QED BY <1>3, <2>1, PeopleKeep, RelLeftAlone DEF BuildDeploymentPlan
<1>4. ASSUME NEW e \in 0 .. MaxClock, SignRecord(e) PROVE RelInv'
  <2>1. plan.core \in Cores  BY <1>4 DEF SignRecord, RelInv, FilesOK, Plans
  <2>2. record' \in Records  BY <1>4, <2>1 DEF SignRecord, Records
  <2>3. FilesOK' /\ RepoOK'
    BY <1>4, <2>2, RewrittenIsRepo DEF RelInv, FilesOK, SignRecord, RepoOK
  <2> QED BY <1>4, <2>3, PeopleKeep DEF SignRecord
<1>5. ASSUME RebindRecord PROVE RelInv'
  <2>1. plan.core \in Cores /\ record \in Records
    BY <1>5 DEF RebindRecord, RelInv, FilesOK, Plans
  <2>2. PICK core \in Cores : core = plan.core  BY <2>1
  <2>3. record' = [record EXCEPT !.payload = core]  BY <1>5, <2>2 DEF RebindRecord
  <2>4. record' \in Records  BY <2>1, <2>3 DEF Records
  <2>5. FilesOK' /\ RepoOK'
    BY <1>5, <2>4, RewrittenIsRepo DEF RelInv, FilesOK, RebindRecord, RepoOK
  <2> QED BY <1>5, <2>5, PeopleKeep DEF RebindRecord
<1> QED BY <1>1, <1>2, <1>3, <1>4, <1>5

-----------------------------------------------------------------------------
(* The chain and the clock *)

LEMMA ChainStepKeeps ==
    ASSUME RelInv, ChainOK', chain.mined \subseteq chain'.mined, Calm \/ Upset,
           UNCHANGED <<repo, resources, input, record, plan, releaseClock, check, results>>
    PROVE  RelInv'
BY RelLeftAlone DEF RelInv

LEMMA SendKeeps ==
    ASSUME RelInv, NEW init \in InitCodes, SendDeployment(init)
    PROVE  RelInv'
<1> DEFINE tx == [init |-> init, block |-> chain.forks]
           contract == [init |-> init, paused |-> FALSE, fee |-> init.fee]
           mined == chain.mined \cup {init}
<1>0. chain \in ChainRecords  BY DEF RelInv, ChainOK
<1>1. tx \in ReleaseTransactions /\ tx.init = init /\ tx # NoTx
  BY <1>0 DEF ChainRecords, ReleaseTransactions, NoTx
<1>2. contract \in ReleasedContracts /\ contract # NoTx
  BY DEF ReleasedContracts, InitCodes, NoTx
<1>3. mined \in SUBSET InitCodes /\ init \in mined /\ chain.mined \subseteq mined
  BY <1>0 DEF ChainRecords
<1>4. chain' = [chain EXCEPT !.tx = tx, !.contract = contract, !.mined = mined]
  BY <1>0 DEF SendDeployment, ChainRecords
<1> HIDE DEF tx, contract, mined
<1>5. /\ chain' \in ChainRecords /\ chain'.tx = tx /\ chain'.contract = contract
      /\ chain'.mined = mined
  BY <1>0, <1>1, <1>2, <1>3, <1>4 DEF ChainRecords
<1>6. ChainOK'  BY <1>1, <1>2, <1>3, <1>5 DEF ChainOK
<1> QED BY <1>3, <1>5, <1>6, ChainStepKeeps DEF SendDeployment

LEMMA ReorganiseKeeps ==
    ASSUME RelInv, Reorganise
    PROVE  RelInv'
<1>0. chain \in ChainRecords /\ chain.tx \in ReleaseTransactions /\ chain.tx # NoTx
      /\ chain.contract # NoTx /\ chain.tx.init \in chain.mined
  BY DEF RelInv, ChainOK, Reorganise, ChainRecords
<1> DEFINE forks == chain.forks + 1
<1>1. forks \in 0 .. MaxForks  BY <1>0, ReleaseAssumption DEF ChainRecords, Reorganise
<1>2. CASE chain' = [chain EXCEPT !.forks = forks, !.tx = NoTx, !.contract = NoTx]
  <2> HIDE DEF forks
  <2>1. /\ chain' \in ChainRecords /\ chain'.tx = NoTx /\ chain'.contract = NoTx
        /\ chain'.mined = chain.mined
    BY <1>0, <1>1, <1>2 DEF ChainRecords
  <2>2. ChainOK'  BY <2>1 DEF ChainOK
  <2> QED BY <2>1, <2>2, ChainStepKeeps DEF Reorganise
<1>3. CASE chain' = [chain EXCEPT !.forks = forks, !.tx.block = forks]
  <2> DEFINE tx == [chain.tx EXCEPT !.block = forks]
  <2>1. tx \in ReleaseTransactions /\ tx.init = chain.tx.init /\ tx # NoTx
    BY <1>0, <1>1 DEF ReleaseTransactions, NoTx
  <2>2. chain' = [chain EXCEPT !.forks = forks, !.tx = tx]
    BY <1>0, <1>3 DEF ChainRecords
  <2> HIDE DEF forks, tx
  <2>3. /\ chain' \in ChainRecords /\ chain'.tx = tx /\ chain'.contract = chain.contract
        /\ chain'.mined = chain.mined
    BY <1>0, <1>1, <2>1, <2>2 DEF ChainRecords
  <2>4. ChainOK'  BY <1>0, <2>1, <2>3 DEF ChainOK
  <2> QED BY <2>3, <2>4, ChainStepKeeps DEF Reorganise
<1>4. \/ chain' = [chain EXCEPT !.forks = forks, !.tx = NoTx, !.contract = NoTx]
      \/ chain' = [chain EXCEPT !.forks = forks, !.tx.block = forks]
  BY <1>0 DEF Reorganise, ChainRecords
<1> QED BY <1>2, <1>3, <1>4

LEMMA OwnerKeeps ==
    ASSUME RelInv, NEW p \in BOOLEAN, NEW fee \in FeeRates, OwnerActs(p, fee)
    PROVE  RelInv'
<1>0. chain \in ChainRecords /\ chain.contract \in ReleasedContracts /\ chain.contract # NoTx
      /\ chain.tx # NoTx /\ chain.tx.init \in chain.mined
  BY DEF RelInv, ChainOK, OwnerActs, ChainRecords
<1> DEFINE c == [chain.contract EXCEPT !.paused = p, !.fee = fee]
<1>1. c \in ReleasedContracts /\ c # NoTx  BY <1>0 DEF ReleasedContracts, NoTx
<1>2. chain' = [chain EXCEPT !.contract = c]  BY <1>0 DEF OwnerActs, ChainRecords
<1> HIDE DEF c
<1>3. /\ chain' \in ChainRecords /\ chain'.tx = chain.tx /\ chain'.contract = c
      /\ chain'.mined = chain.mined
  BY <1>0, <1>1, <1>2 DEF ChainRecords
<1>4. ChainOK'  BY <1>0, <1>1, <1>3 DEF ChainOK
<1> QED BY <1>3, <1>4, ChainStepKeeps DEF OwnerActs

LEMMA TimeKeeps == ASSUME RelInv, PassTime PROVE RelInv'
<1>1. ClockOK'  BY ReleaseAssumption DEF RelInv, ClockOK, PassTime, Upset
<1> QED BY <1>1, RelLeftAlone DEF RelInv, PassTime

-----------------------------------------------------------------------------
(* The checks *)

LEMMA CheckStepKeeps ==
    ASSUME RelInv, CheckOK', ResultsOK', Calm,
           UNCHANGED <<repo, resources, input, record, plan, releaseClock, chain>>
    PROVE  RelInv'
BY RelLeftAlone DEF RelInv

LEMMA IdleIsFine == NoCheckUnderWay \in Checks /\ NoCheckUnderWay.kind = "idle"
BY DEF NoCheckUnderWay, Checks

LEMMA CheckEnds ==
    ASSUME RelInv, ResultsOK', Calm, check' = NoCheckUnderWay,
           UNCHANGED <<repo, resources, input, record, plan, releaseClock, chain>>
    PROVE  RelInv'
<1>1. CheckOK'  BY IdleIsFine DEF CheckOK
<1> QED BY <1>1, CheckStepKeeps

LEMMA ChecksBegin ==
    ASSUME RelInv, PreflightInputs \/ VerifyInputs
    PROVE  RelInv'
<1>1. plan.core \in Cores
  BY DEF RelInv, FilesOK, Plans, PreflightInputs, VerifyInputs, InputsHold
<1>2. CheckOK'
  <2>1. CASE PreflightInputs
    <3>1. check' \in [kind : {"preflight"}, at : {"sample", "chain"}, core : Cores]
      BY <1>1, <2>1 DEF PreflightInputs
    <3> QED BY <3>1 DEF CheckOK, Checks
  <2>2. CASE VerifyInputs
    <3>1. check' \in [kind : {"verify"}, at : {"receipt"}, core : Cores]
      BY <1>1, <2>2 DEF VerifyInputs
    <3> QED BY <3>1 DEF CheckOK, Checks
  <2> QED BY <2>1, <2>2
<1> QED BY <1>2, RelLeftAlone, CheckStepKeeps DEF PreflightInputs, VerifyInputs

LEMMA PreflightSteps ==
    ASSUME RelInv, PreflightSample \/ PreflightChain
    PROVE  RelInv'
<1>1. check \in [kind : {"preflight"}, at : {"sample", "chain"}, core : Cores]
  BY DEF RelInv, CheckOK, Checks, PreflightSample, PreflightChain
<1>2. CASE PreflightSample
  <2>1. CASE Advance("chain")
    <3>1. check' \in [kind : {"preflight"}, at : {"sample", "chain"}, core : Cores]
      BY <1>1, <2>1 DEF Advance
    <3>2. CheckOK'  BY <3>1 DEF CheckOK, Checks
    <3> QED BY <1>2, <3>2, RelLeftAlone, CheckStepKeeps DEF PreflightSample
  <2>2. CASE check' = NoCheckUnderWay
    BY <1>2, <2>2, RelLeftAlone, CheckEnds DEF PreflightSample
  <2> QED BY <1>2, <2>1, <2>2 DEF PreflightSample
<1>3. CASE PreflightChain
  <2>1. repo.record \in {"untracked", "staged", "committed"} /\ check.core \in Cores
    BY <1>1 DEF RelInv, RepoOK, RepoRecords
  <2>2. PICK p \in [core : Cores, record : {"untracked", "staged", "committed"}] :
           p = [core |-> check.core, record |-> repo.record]
    BY <2>1
  <2>3. results' = [results EXCEPT !.preflight = p] \/ results' = results
    BY <1>3, <2>2 DEF PreflightChain
  <2>4. ResultsOK'
    <3>1. CASE results' = results  BY <1>3, <3>1, RelLeftAlone DEF PreflightChain
    <3>2. CASE results' = [results EXCEPT !.preflight = p]
      <4>1. results'.verified = results.verified /\
            results' \in [preflight : {None} \cup [core : Cores, record : {"untracked", "staged", "committed"}],
                          verified : {None} \cup VerifiedRecords]
        BY <3>2 DEF RelInv, ResultsOK
      <4> QED BY <1>3, <4>1 DEF RelInv, ResultsOK, VerifiedWasDeployed, PreflightChain, InitCodeOf
    <3> QED BY <2>3, <3>1, <3>2
  <2> QED BY <1>3, <2>4, CheckEnds DEF PreflightChain
<1> QED BY <1>2, <1>3

(* Both endpoints gave the answer of the honest one. *)
LEMMA AgreedIsHonest ==
    ASSUME NEW honest, NEW possible, NEW answers \in Answers(honest, possible), Same(answers)
    PROVE  answers[1] = honest
BY DEF Answers, Same

LEMMA ReceiptSeenKeeps ==
    ASSUME RelInv, VerifyReceipt
    PROVE  RelInv'
<1>0. check.core \in Cores /\ Calm /\ UNCHANGED <<repo, resources, input, record, plan, releaseClock,
                                                chain, results>>
  BY DEF RelInv, CheckOK, Checks, VerifyReceipt
<1>1. PICK answers \in Answers(chain.tx, {NoTx} \cup ReleaseTransactions) :
        check' = IF Same(answers) /\ answers[1] # NoTx /\ MatchesPlan(answers[1], check.core)
                 THEN [kind |-> "verify", at |-> "confirm", core |-> check.core, tx |-> answers[1]]
                 ELSE NoCheckUnderWay
  BY DEF VerifyReceipt
<1>2. CASE check' = NoCheckUnderWay  BY <1>0, <1>2, RelLeftAlone, CheckEnds
<1>3. CASE check' # NoCheckUnderWay
  <2>1. /\ Same(answers) /\ answers[1] # NoTx /\ MatchesPlan(answers[1], check.core)
        /\ check' = [kind |-> "verify", at |-> "confirm", core |-> check.core, tx |-> answers[1]]
    BY <1>1, <1>3
  <2>2. answers[1] = chain.tx  BY <2>1, AgreedIsHonest
  <2>3. chain.tx \in ReleaseTransactions /\ InitCodeOf(check.core) \in chain.mined
    BY <2>1, <2>2 DEF RelInv, ChainOK, ChainRecords, MatchesPlan
  <2>4. check' \in [kind : {"verify"}, at : {"confirm", "canonical", "stable", "state"},
                    core : Cores, tx : ReleaseTransactions] /\ check'.core = check.core
    BY <1>0, <2>1, <2>2, <2>3
  <2>5. CheckOK'  BY <1>0, <2>3, <2>4 DEF CheckOK, Checks, InitCodeOf
  <2> QED BY <1>0, <2>5, RelLeftAlone, CheckStepKeeps
<1> QED BY <1>2, <1>3

Later == [kind : {"verify"}, at : {"confirm", "canonical", "stable", "state"},
          core : Cores, tx : ReleaseTransactions]

LEMMA AdvanceKeeps ==
    ASSUME RelInv, check \in Later, NEW at \in {"canonical", "stable", "state"}, Advance(at), Calm,
           UNCHANGED <<repo, resources, input, record, plan, releaseClock, chain, results>>
    PROVE  RelInv'
<1>1. check' \in Later /\ check'.core = check.core  BY DEF Later, Advance
<1>2. InitCodeOf(check.core) \in chain.mined  BY DEF RelInv, CheckOK, Later
<1>3. CheckOK'  BY <1>1, <1>2 DEF CheckOK, Checks, Later, InitCodeOf
<1> QED BY <1>3, RelLeftAlone, CheckStepKeeps

LEMMA VerifySteps ==
    ASSUME RelInv, VerifyConfirmations \/ VerifyCanonical \/ VerifyState
    PROVE  RelInv'
<1>0. check \in Later /\ Calm
  BY DEF RelInv, CheckOK, Checks, Later, VerifyConfirmations, VerifyCanonical, VerifyState
<1>1. CASE VerifyConfirmations
  BY <1>0, <1>1, AdvanceKeeps, RelLeftAlone, CheckEnds DEF VerifyConfirmations
<1>2. CASE VerifyCanonical
  <2>1. PICK at \in {"canonical", "stable", "state"} : Advance(at) \/ check' = NoCheckUnderWay
    BY <1>2 DEF VerifyCanonical
  <2> QED BY <1>0, <1>2, <2>1, AdvanceKeeps, RelLeftAlone, CheckEnds DEF VerifyCanonical
<1>3. CASE VerifyState
  <2>1. check.core \in Cores /\ check.tx \in ReleaseTransactions
        /\ InitCodeOf(check.core) \in chain.mined
    BY <1>0 DEF RelInv, CheckOK, Later
  <2>2. PICK v \in VerifiedRecords : v = [core |-> check.core, tx |-> check.tx]
    BY <2>1 DEF VerifiedRecords
  <2>3. results' = [results EXCEPT !.verified = v] \/ results' = results
    BY <1>3, <2>2 DEF VerifyState
  <2>4. ResultsOK'
    <3>1. CASE results' = results  BY <1>3, <3>1, RelLeftAlone DEF VerifyState
    <3>2. CASE results' = [results EXCEPT !.verified = v]
      <4>1. results'.verified = v /\
            results' \in [preflight : {None} \cup [core : Cores, record : {"untracked", "staged", "committed"}],
                          verified : {None} \cup VerifiedRecords]
        BY <3>2 DEF RelInv, ResultsOK
      <4> QED BY <1>3, <2>1, <2>2, <4>1 DEF ResultsOK, VerifiedWasDeployed, VerifyState, InitCodeOf
    <3> QED BY <2>3, <3>1, <3>2
  <2> QED BY <1>3, <2>4, CheckEnds DEF VerifyState
<1> QED BY <1>1, <1>2, <1>3

LEMMA RelStepKeeps ==
    ASSUME RelInv, RelNext \/ UNCHANGED relVars
    PROVE  RelInv'
<1>1. CASE UNCHANGED relVars
  BY <1>1, RelLeftAlone DEF RelInv, relVars, Calm
<1> QED BY <1>1, RepositorySteps, FileSteps, SendKeeps, ReorganiseKeeps, OwnerKeeps, TimeKeeps,
          ChecksBegin, PreflightSteps, ReceiptSeenKeeps, VerifySteps DEF RelNext

(* For any sources, fees, commits, clocks, endpoints, pools and ranges: a   *)
(* release that the scripts report verified was mined from exactly the      *)
(* plan's source and fee on the chain the honest endpoint sees, whatever    *)
(* the other answers.  A pool record that validates leaves nothing to       *)
(* execute and names every pool by its own key; unedited it is of that      *)
(* chain and, where it says so, misses none of its pools.  That its pools   *)
(* exist is not among what the scripts establish.                           *)
THEOREM ReleaseFollowsPlan == ReleaseSpec => []ReleaseIsAsPlanned
<1>1. RelInv /\ PoolInv => ReleaseIsAsPlanned
  <2>1. RelInv => RelTypeOK
    BY DEF RelInv, RelTypeOK, RepoOK, RepoRecords, FilesOK, InputRecords, ClockOK, ChainOK,
           ChainRecords, CheckOK
  <2>2. RelInv => VerifiedWasDeployed  BY DEF RelInv, ResultsOK
  <2> QED BY <2>1, <2>2, AcceptedHolds DEF ReleaseIsAsPlanned
<1>2. ASSUME RelInv, PoolInv,
             [(RelNext /\ UNCHANGED poolVars) \/ (PoolNext /\ UNCHANGED relVars)]_<<relVars, poolVars>>
      PROVE  RelInv' /\ PoolInv'
  BY <1>2, RelStepKeeps, PoolStepKeeps
<1>3. RelInit /\ PoolInit => RelInv /\ PoolInv  BY RelStarts, PoolStarts
<1> QED BY <1>1, <1>2, <1>3, PTL DEF ReleaseSpec

-----------------------------------------------------------------------------
(* The payment contracts.  A batch is paid when its reference hash was not  *)
(* used and the hash is used from then on; nothing else makes a receipt.    *)

ReceiptsAreSequence == \E S : receipts \in Seq(S)

HashOf(r) == ReferenceHash(r.contract, r.employer, r.ref)

ReplayInv ==
    /\ ReceiptsAreSequence /\ deployed \subseteq Contracts
    /\ deployed \cap BornPaused \subseteq paused \cup unpaused
    /\ \A i \in DOMAIN receipts :
          /\ receipts[i].contract \in Contracts
          /\ receipts[i].contract # "executor" => HashOf(receipts[i]) \in used
          /\ receipts[i].contract \in BornPaused => receipts[i].contract \in unpaused
    /\ \A i, j \in DOMAIN receipts :
          receipts[i].contract # "executor" /\ HashOf(receipts[i]) = HashOf(receipts[j]) => i = j

LEMMA ReplayStarts == SettlementInit => ReplayInv
BY DEF SettlementInit, ReplayInv, ReceiptsAreSequence

(* A step that pays nobody. *)
LEMMA NoReceiptKeeps ==
    ASSUME ReplayInv, UNCHANGED receipts, used \subseteq used', unpaused \subseteq unpaused',
           deployed' \subseteq Contracts, deployed' \cap BornPaused \subseteq paused' \cup unpaused'
    PROVE  ReplayInv'
BY DEF ReplayInv, ReceiptsAreSequence, HashOf, ReferenceHash

(* A step that pays a batch, or swaps. *)
LEMMA ReceiptKeeps ==
    ASSUME ReplayInv, UNCHANGED <<deployed, paused, unpaused>>,
           NEW r, receipts' = Append(receipts, r), r.contract \in deployed \ paused,
           used \subseteq used',
           r.contract # "executor" => HashOf(r) \notin used /\ HashOf(r) \in used'
    PROVE  ReplayInv'
<1>1. PICK S : receipts \in Seq(S)  BY DEF ReplayInv, ReceiptsAreSequence
<1>2. r \in S \cup {r} /\ receipts \in Seq(S \cup {r})  BY <1>1
<1> DEFINE n == Len(receipts) + 1
<1>3. /\ receipts' \in Seq(S \cup {r}) /\ DOMAIN receipts' = DOMAIN receipts \cup {n}
      /\ receipts'[n] = r /\ n \notin DOMAIN receipts
      /\ \A i \in DOMAIN receipts : receipts'[i] = receipts[i]
  BY <1>2
<1> HIDE DEF n
<1>4. ReceiptsAreSequence'  BY <1>3 DEF ReceiptsAreSequence
<1>5. r.contract \in BornPaused => r.contract \in unpaused  BY DEF ReplayInv
<1>9. ASSUME NEW i \in DOMAIN receipts' PROVE receipts'[i].contract \in Contracts
  BY <1>3, <1>9 DEF ReplayInv
<1>6. ASSUME NEW i \in DOMAIN receipts', receipts'[i].contract # "executor"
      PROVE  HashOf(receipts'[i]) \in used'
  BY <1>3, <1>6 DEF ReplayInv
<1>7. ASSUME NEW i \in DOMAIN receipts', receipts'[i].contract \in BornPaused
      PROVE  receipts'[i].contract \in unpaused'
  BY <1>3, <1>5, <1>7 DEF ReplayInv
<1>8. ASSUME NEW i \in DOMAIN receipts', NEW j \in DOMAIN receipts',
             receipts'[i].contract # "executor", HashOf(receipts'[i]) = HashOf(receipts'[j])
      PROVE  i = j
  <2>1. receipts'[j].contract # "executor"  BY <1>8 DEF HashOf, ReferenceHash
  <2> QED BY <1>3, <1>8, <2>1 DEF ReplayInv
<1> QED BY <1>4, <1>6, <1>7, <1>8, <1>9 DEF ReplayInv, HashOf, ReferenceHash

(* The record that a call emits. *)
LEMMA Emits ==
    ASSUME NEW c, NEW employer, NEW ref, NEW tokenIn, NEW spent, NEW tokenOut, NEW payments,
           NEW fees, NEW feeTo, NEW back,
           Emit(c, employer, ref, tokenIn, spent, tokenOut, payments, fees, feeTo, back)
    PROVE  \E r : /\ receipts' = Append(receipts, r) /\ r.contract = c
                  /\ HashOf(r) = ReferenceHash(c, employer, ref)
BY DEF Emit, HashOf, ReferenceHash

Paid(c, employer, ref) ==
    /\ Callable(c) /\ UNCHANGED <<deployed, paused, unpaused>>
    /\ \E r : receipts' = Append(receipts, r) /\ r.contract = c
              /\ HashOf(r) = ReferenceHash(c, employer, ref)
    /\ \/ c = "executor" /\ UNCHANGED used
       \/ Unused(c, employer, ref) /\ used' = used \cup {ReferenceHash(c, employer, ref)}

LEMMA PaidKeeps ==
    ASSUME ReplayInv, NEW c, NEW employer, NEW ref, Paid(c, employer, ref)
    PROVE  ReplayInv'
<1>1. PICK r : receipts' = Append(receipts, r) /\ r.contract = c
               /\ HashOf(r) = ReferenceHash(c, employer, ref)
  BY DEF Paid
<1> QED BY <1>1, ReceiptKeeps DEF Paid, Callable, Unused

LEMMA PaymentsArePaid ==
    ASSUME NEW e, NEW t, NEW payments, NEW ref, NEW gross, NEW minimum, NEW router
    PROVE  /\ SameTokenPayroll(e, t, payments, ref) => Paid("payroll", e, ref)
           /\ CrossTokenPayroll(e, t, payments, gross, minimum, ref, router) =>
                 Paid("payroll", e, ref)
           /\ BatchRouteAndPay(e, payments, minimum, ref) => Paid("direct", e, ref)
           /\ ExecuteSwap(e, t, gross, minimum, router) => Paid("executor", e, "none")
<1>1. ASSUME SameTokenPayroll(e, t, payments, ref) PROVE Paid("payroll", e, ref)
  BY <1>1, Emits DEF SameTokenPayroll, Paid
<1>2. ASSUME CrossTokenPayroll(e, t, payments, gross, minimum, ref, router)
      PROVE  Paid("payroll", e, ref)
  BY <1>2, Emits DEF CrossTokenPayroll, Paid
<1>3. ASSUME BatchRouteAndPay(e, payments, minimum, ref) PROVE Paid("direct", e, ref)
  BY <1>3, Emits DEF BatchRouteAndPay, Paid
<1>4. ASSUME ExecuteSwap(e, t, gross, minimum, router) PROVE Paid("executor", e, "none")
  BY <1>4, Emits DEF ExecuteSwap, Paid
<1> QED BY <1>1, <1>2, <1>3, <1>4

LEMMA SettlementStepKeeps ==
    ASSUME ReplayInv, [SettlementNext]_settlementVars
    PROVE  ReplayInv'
<1>1. ASSUME NEW c \in Contracts, NEW args \in ConstructorArgs, Deploy(c, args) PROVE ReplayInv'
  BY <1>1, NoReceiptKeeps DEF Deploy, ReplayInv
<1>2. ASSUME NEW c \in Contracts, Pause(c) PROVE ReplayInv'
  BY <1>2, NoReceiptKeeps DEF Pause, ReplayInv
<1>3. ASSUME NEW c \in Contracts, Unpause(c) PROVE ReplayInv'
  BY <1>3, NoReceiptKeeps DEF Unpause, ReplayInv
<1>4. ASSUME NEW bps \in {0, FeeBps}, NEW collector \in Collectors, UpdateTerms(bps, collector)
      PROVE ReplayInv'
  BY <1>4, NoReceiptKeeps DEF UpdateTerms, ReplayInv
<1>5. ASSUME NEW amount \in Amounts, EmergencyWithdraw(amount) PROVE ReplayInv'
  BY <1>5, NoReceiptKeeps DEF EmergencyWithdraw, ReplayInv
<1>6. ASSUME NEW e \in Employers, NEW c \in Contracts, NEW t \in Tokens,
             Approve(e, c, t, Funds) \/ Donate(e, c, t)
      PROVE ReplayInv'
  BY <1>6, NoReceiptKeeps DEF Approve, Donate, ReplayInv
<1>7. CASE UNCHANGED settlementVars
  BY <1>7, NoReceiptKeeps DEF settlementVars, ReplayInv
<1> QED BY <1>1, <1>2, <1>3, <1>4, <1>5, <1>6, <1>7, PaymentsArePaid, PaidKeeps
       DEF SettlementNext

(* For any employers, staff, references, amounts and calls, and whatever    *)
(* the router does: one reference of an employer pays one batch of a        *)
(* contract, and the contracts that are born paused pay nobody before their *)
(* owner unpaused them.                                                     *)
THEOREM ReferencesPayOnce == SettlementSpec => [](ReferencePaysOnce /\ ActivatedByOwner)
<1>1. ReplayInv => ReferencePaysOnce
  BY DEF ReplayInv, ReferencePaysOnce, HashOf, ReferenceHash
<1>2. ReplayInv => ActivatedByOwner
  <2> SUFFICES ASSUME ReplayInv, NEW i \in DOMAIN receipts, receipts[i].contract # "direct"
               PROVE  receipts[i].contract \in unpaused
    BY DEF ActivatedByOwner
  <2> QED BY DEF ReplayInv, BornPaused, Contracts
<1> QED BY <1>1, <1>2, ReplayStarts, SettlementStepKeeps, PTL DEF SettlementSpec

-----------------------------------------------------------------------------
(* Cross-token payroll funding: the service, the page and the contract do   *)
(* the same integer arithmetic.                                             *)

\* Division of naturals, as the three programs use it.
LEMMA FloorOf ==
  ASSUME NEW a \in Nat, NEW d \in Nat \ {0}
  PROVE  /\ a \div d \in Nat /\ (a \div d) * d <= a
         /\ \A q \in Nat : q * d <= a => q <= a \div d
<1>1. a = d * (a \div d) + (a % d) /\ a % d \in 0 .. (d - 1) /\ a \div d \in Nat  OBVIOUS
<1>2. PICK m \in Nat, r \in 0 .. (d - 1) : m = a \div d /\ a = d * m + r  BY <1>1
<1>3. d * m = m * d  BY <1>2
<1>4. ASSUME NEW q \in Nat, q * d <= a, q > m PROVE FALSE
  <2>1. PICK k \in Nat : q = m + 1 + k
    <3>1. q - m - 1 \in Nat /\ q = m + 1 + (q - m - 1)  BY <1>4, <1>2
    <3> QED  BY <3>1
  <2>2. q * d = m * d + d + k * d /\ k * d \in Nat /\ m * d \in Nat  BY <2>1, <1>2
  <2> QED  BY <2>2, <1>2, <1>3, <1>4
<1> QED  BY <1>2, <1>3, <1>4

LEMMA FactorGrows ==
  ASSUME NEW a \in Nat, NEW b \in Nat, NEW c \in Nat, a <= b
  PROVE  a * c <= b * c
<1>1. PICK k \in Nat : b = a + k
  <2>1. b - a \in Nat /\ b = a + (b - a)  OBVIOUS
  <2> QED  BY <2>1
<1>2. b * c = a * c + k * c /\ k * c \in Nat /\ a * c \in Nat  BY <1>1
<1> QED  BY <1>2

LEMMA FactorCancels ==
  ASSUME NEW a \in Nat, NEW b \in Nat, NEW c \in Nat \ {0}, a * c <= b * c
  PROVE  a <= b
<1> SUFFICES ASSUME a > b PROVE FALSE  OBVIOUS
<1>1. PICK k \in Nat : a = b + 1 + k
  <2>1. a - b - 1 \in Nat /\ a = b + 1 + (a - b - 1)  OBVIOUS
  <2> QED  BY <2>1
<1>2. a * c = b * c + c + k * c /\ k * c \in Nat /\ b * c \in Nat  BY <1>1
<1> QED  BY <1>2

\* The contract's fee is the service's, and what is left is no more than the input.
LEMMA FeesAgree ==
  ASSUME NEW gross \in Nat, NEW fee \in Nat
  PROVE  /\ FeeOf(gross, fee) \in Nat /\ FeeTaken(gross, fee) = FeeOf(gross, fee)
         /\ NetOf(gross, fee) \in Int /\ NetOf(gross, fee) <= gross
<1>1. BpsDenominator \in Nat \ {0}  BY FundingAssumption
<1>2. PICK a \in Nat : a = gross * fee  OBVIOUS
<1>3. a \div BpsDenominator \in Nat  BY <1>1, FloorOf
<1>4. FeeOf(gross, fee) = a \div BpsDenominator  BY <1>2 DEF FeeOf
<1>5. FeeTaken(gross, fee) = FeeOf(gross, fee)
  <2>1. CASE fee = 0
    <3>1. a = 0  BY <2>1, <1>2
    <3>2. (a \div BpsDenominator) * BpsDenominator <= 0  BY <1>1, <3>1, FloorOf
    <3>3. PICK q \in Nat : q = a \div BpsDenominator  BY <1>3
    <3>4. q = 0
      <4>1. CASE q >= 1
        <5>1. 1 * BpsDenominator <= q * BpsDenominator  BY <4>1, <1>1, FactorGrows
        <5> QED  BY <5>1, <3>2, <3>3, <1>1
      <4> QED  BY <4>1
    <3> QED  BY <2>1, <3>3, <3>4, <1>4 DEF FeeTaken
  <2>2. CASE fee # 0  BY <2>2 DEF FeeTaken, FeeOf
  <2> QED  BY <2>1, <2>2
<1>6. PICK f \in Nat : f = FeeOf(gross, fee)  BY <1>3, <1>4
<1>7. NetOf(gross, fee) = gross - f  BY <1>6 DEF NetOf
<1> QED  BY <1>5, <1>6, <1>7

\* Slippage lowers what a probe would pay.
LEMMA LeastIsLess ==
  ASSUME NEW out \in Nat, NEW slippage \in 0 .. BpsDenominator
  PROVE  LeastOut(out, slippage) \in Nat /\ LeastOut(out, slippage) <= out
<1>1. BpsDenominator \in Nat \ {0}  BY FundingAssumption
<1>2. PICK k \in Nat : k = BpsDenominator - slippage /\ k <= BpsDenominator  BY <1>1
<1>3. PICK a \in Nat : a = out * k  BY <1>2
<1>4. PICK q \in Nat : q = a \div BpsDenominator /\ q * BpsDenominator <= a  BY <1>1, FloorOf
<1>5. LeastOut(out, slippage) = q  BY <1>2, <1>3, <1>4 DEF LeastOut
<1>6. k * out <= BpsDenominator * out  BY <1>1, <1>2, FactorGrows
<1>7. k * out = out * k /\ BpsDenominator * out = out * BpsDenominator  BY <1>1, <1>2
<1>8. q * BpsDenominator <= out * BpsDenominator
  <2>1. q * BpsDenominator \in Nat /\ out * BpsDenominator \in Nat  BY <1>1, <1>4
  <2> QED  BY <2>1, <1>3, <1>4, <1>6, <1>7
<1> QED  BY <1>1, <1>4, <1>5, <1>8, FactorCancels

\* A swap that pays at least what was quoted meets the price floor of the quote.
LEMMA FloorIsMet ==
  ASSUME NEW net \in Nat \ {0}, NEW out \in Nat, NEW got \in Nat, NEW slippage \in 0 .. BpsDenominator
  PROVE  /\ HopFloor(net, out, slippage) \in Nat
         /\ got >= out => (got * HopScale) \div net >= HopFloor(net, out, slippage)
<1>1. BpsDenominator \in Nat \ {0} /\ HopScale \in Nat  BY FundingAssumption
<1>2. PICK k \in Nat : k = BpsDenominator - slippage /\ k <= BpsDenominator  BY <1>1
<1>3. PICK a \in Nat : a = out * k * HopScale  BY <1>1, <1>2
<1>4. PICK d \in Nat \ {0} : d = net * BpsDenominator
  <2>1. net * BpsDenominator \in Nat  BY <1>1
  <2>2. 1 * BpsDenominator <= net * BpsDenominator  BY <1>1, FactorGrows
  <2> QED  BY <2>1, <2>2, <1>1
<1>5. PICK x \in Nat : x = a \div d /\ x * d <= a  BY FloorOf
<1>6. HopFloor(net, out, slippage) = x  BY <1>2, <1>3, <1>4, <1>5 DEF HopFloor
<1>7. ASSUME got >= out PROVE (got * HopScale) \div net >= x
  <2>1. PICK h, g \in Nat : h = out * HopScale /\ g = got * HopScale  BY <1>1
  <2>2. h <= g  BY <1>1, <1>7, <2>1, FactorGrows
  <2>3. a = k * h
    <3>1. a = k * (out * HopScale)  BY <1>1, <1>2, <1>3
    <3> QED  BY <2>1, <3>1
  <2>4. k * h <= BpsDenominator * h  BY <1>1, <1>2, FactorGrows
  <2>5. h * BpsDenominator <= g * BpsDenominator  BY <1>1, <2>2, FactorGrows
  <2>6. BpsDenominator * h = h * BpsDenominator  BY <1>1
  <2>7. x * d = (x * net) * BpsDenominator  BY <1>1, <1>4
  <2>8. PICK y \in Nat : y = x * net  OBVIOUS
  <2>9. y * BpsDenominator <= g * BpsDenominator
    <3>1. /\ y * BpsDenominator \in Nat /\ g * BpsDenominator \in Nat /\ h * BpsDenominator \in Nat
          /\ k * h \in Nat
      BY <1>1, <1>2, <2>1, <2>8
    <3> QED  BY <3>1, <1>5, <2>3, <2>4, <2>5, <2>6, <2>7, <2>8
  <2>10. y <= g  BY <1>1, <2>9, FactorCancels
  <2> QED  BY <2>1, <2>8, <2>10, FloorOf
<1> QED  BY <1>5, <1>6, <1>7

-----------------------------------------------------------------------------
FundType ==
  /\ poolNow \in Pools /\ fundClock \in Nat
  /\ search.debt \in Nat \ {0} /\ search.slippage \in 0 .. BpsDenominator /\ search.fee \in Nat
  /\ search.gross \in Nat
  /\ order.balance \in Nat

Found ==
  /\ search.gross \in 1 .. SwapLimit /\ search.out \in 0 .. SwapLimit
  /\ NetOf(search.gross, search.fee) > 0
  /\ LeastOut(search.out, search.slippage) >= search.debt
  /\ HopFloor(NetOf(search.gross, search.fee), search.out, search.slippage) > 0

\* What the employer signs is what was found, and can pay for it in time.
Ordered ==
  /\ search.at = "found"
  /\ order.gross = search.gross /\ order.balance >= order.gross
  /\ order.min = LeastOut(search.out, search.slippage)
  /\ order.hop = HopFloor(NetOf(search.gross, search.fee), search.out, search.slippage)
  /\ order.deadline \in Nat /\ order.deadline <= fundClock + PayrollDeadline

FundInv ==
  /\ FundType
  /\ search = [at |-> search.at, debt |-> search.debt, slippage |-> search.slippage,
               fee |-> search.fee, gross |-> search.gross, attempt |-> search.attempt,
               out |-> search.out, expires |-> search.expires]
  /\ order = [at |-> order.at, balance |-> order.balance, gross |-> order.gross, min |-> order.min,
              hop |-> order.hop, deadline |-> order.deadline]
  /\ search.at = "found" => Found
  /\ order.at \in {"approving", "signed"} => Ordered
  /\ outcome = NotCalled \/ (order.at = "signed" /\ FundedCallHolds /\ PaidInFull)

LEMMA FundStarts == FundingInit => FundInv
BY FundingAssumption DEF FundingInit, FundInv, FundType, NotCalled

LEMMA ScaledUpTyped ==
  ASSUME NEW gross \in Nat, NEW debt \in Nat, NEW least \in Nat \ {0}
  PROVE  ScaledUp(gross, debt, least) \in Nat
<1>1. PICK a \in Nat : a = gross * debt + least - 1
  <2>1. gross * debt \in Nat  OBVIOUS
  <2> QED  BY <2>1
<1>2. a \div least \in Nat  BY FloorOf
<1> QED  BY <1>1, <1>2 DEF ScaledUp

LEMMA ProbeKeeps ==
  ASSUME FundInv, Probe
  PROVE  FundInv'
<1> DEFINE net == NetOf(search.gross, search.fee)
<1> DEFINE out == Out(poolNow, net)
<1> DEFINE least == LeastOut(out, search.slippage)
<1> DEFINE next == ScaledUp(search.gross, search.debt, least)
<1>1. /\ search.at = "probing" /\ UNCHANGED <<poolNow, poolMoves, fundClock, order, outcome>>
      /\ FundType /\ order.at \notin {"approving", "signed"} /\ outcome = NotCalled
  BY DEF Probe, FundInv, Ordered
<1>2. ASSUME NEW s, search' = s, s = [search EXCEPT !.at = "refused"]
      PROVE FundInv'
  BY <1>1, <1>2 DEF FundInv, FundType
<1>3. CASE search' = [search EXCEPT !.at = "refused"]  BY <1>2, <1>3
<1>4. CASE /\ ~(net <= 0 \/ search.gross > SwapLimit)
           /\ ~(least <= 0 \/ HopFloor(net, out, search.slippage) <= 0)
           /\ ~(least >= search.debt) \/ search' = [search EXCEPT !.at = "found", !.out = out,
                                                       !.expires = fundClock + FundingLife]
           /\ least >= search.debt \/ search' = [search EXCEPT !.gross = next, !.attempt = @ + 1]
  <2>1. PICK n, o, l \in Int : n = net /\ o = out /\ l = least /\ n \in 1 .. SwapLimit
                               /\ o \in 0 .. SwapLimit /\ l \in Nat
    <3>1. SwapLimit \in Nat  BY FundingAssumption
    <3>2. net \in Int /\ net <= search.gross  BY <1>1, FeesAgree DEF FundType
    <3>3. net \in 1 .. SwapLimit  BY <1>1, <1>4, <3>1, <3>2 DEF FundType
    <3>4. out \in 0 .. SwapLimit  BY <1>1, <3>1, <3>3, FundingAssumption DEF FundType
    <3>5. least \in Nat  BY <1>1, <3>1, <3>4, LeastIsLess DEF FundType
    <3> QED  BY <3>1, <3>2, <3>3, <3>4, <3>5
  <2>2. CASE least >= search.debt
    <3>1. PICK s : s = search'  OBVIOUS
    <3>2. s = [search EXCEPT !.at = "found", !.out = o, !.expires = fundClock + FundingLife]
      BY <1>4, <2>1, <2>2, <3>1
    <3>3. /\ s.at = "found" /\ s.out = o /\ s.debt = search.debt /\ s.slippage = search.slippage
          /\ s.fee = search.fee /\ s.gross = search.gross
          /\ s = [at |-> s.at, debt |-> s.debt, slippage |-> s.slippage,
                  fee |-> s.fee, gross |-> s.gross, attempt |-> s.attempt,
                  out |-> s.out, expires |-> s.expires]
      BY <3>2 DEF FundInv
    <3>4. /\ search.gross \in 1 .. SwapLimit
          /\ NetOf(s.gross, s.fee) = n /\ n > 0
          /\ LeastOut(s.out, s.slippage) >= s.debt
          /\ HopFloor(NetOf(s.gross, s.fee), s.out, s.slippage) > 0
      <4>1. SwapLimit \in Nat /\ search.gross \in Nat /\ n <= search.gross
        BY <1>1, <2>1, FeesAgree, FundingAssumption DEF FundType
      <4>2. search.gross \in 1 .. SwapLimit  BY <4>1, <2>1, <1>4
      <4>3. NetOf(s.gross, s.fee) = n /\ n > 0  BY <2>1, <3>3
      <4>4. LeastOut(s.out, s.slippage) = least  BY <2>1, <3>3
      <4>5. HopFloor(NetOf(s.gross, s.fee), s.out, s.slippage) = HopFloor(net, out, search.slippage)
        BY <2>1, <3>3
      <4>6. HopFloor(net, out, search.slippage) \in Nat
        <5>1. n \in Nat \ {0} /\ o \in Nat  BY <2>1
        <5>2. HopFloor(n, o, search.slippage) \in Nat  BY <5>1, <1>1, FloorIsMet DEF FundType
        <5> QED  BY <5>2, <2>1
      <4> QED  BY <4>2, <4>3, <4>4, <4>5, <4>6, <3>3, <2>2, <1>4
    <3> HIDE DEF net, out, least, next
    <3>5. Found'  BY <3>1, <3>3, <3>4, <2>1 DEF Found
    <3>6. FundType'  BY <1>1, <3>1, <3>3 DEF FundType
    <3> QED  BY <1>1, <3>1, <3>3, <3>5, <3>6 DEF FundInv
  <2>3. CASE ~(least >= search.debt)
    <3>1. PICK s : s = search'  OBVIOUS
    <3>2. PICK m \in Nat : m = next
      <4>1. l \in Nat \ {0}  BY <2>1, <1>4
      <4> QED  BY <4>1, <1>1, <2>1, ScaledUpTyped DEF FundType
    <3>3. s = [search EXCEPT !.gross = m, !.attempt = @ + 1]  BY <1>4, <2>3, <3>1, <3>2
    <3> HIDE DEF net, out, least, next
    <3>4. /\ s.at = "probing" /\ s.out = search.out /\ s.debt = search.debt /\ s.slippage = search.slippage
          /\ s.fee = search.fee /\ s.gross = m
          /\ s = [at |-> s.at, debt |-> s.debt, slippage |-> s.slippage,
                  fee |-> s.fee, gross |-> s.gross, attempt |-> s.attempt,
                  out |-> s.out, expires |-> s.expires]
      BY <3>3, <1>1 DEF FundInv
    <3>5. FundType'  BY <1>1, <3>1, <3>2, <3>4 DEF FundType
    <3> QED  BY <1>1, <3>1, <3>4, <3>5 DEF FundInv
  <2> QED  BY <2>2, <2>3
<1> QED  BY <1>3, <1>4 DEF Probe, Refused

LEMMA ProbeFailureKeeps ==
  ASSUME FundInv, ProbeFails
  PROVE  FundInv'
<1>1. order.at \notin {"approving", "signed"} /\ outcome = NotCalled
  BY DEF ProbeFails, FundInv, Ordered
<1> QED  BY <1>1 DEF ProbeFails, FundInv, FundType

LEMMA TakeKeeps ==
  ASSUME FundInv, TakeFunding
  PROVE  FundInv'
<1>1. search.at = "found" /\ Found /\ FundType /\ outcome = NotCalled
      /\ UNCHANGED <<poolNow, poolMoves, fundClock, search, outcome>>
  BY DEF TakeFunding, FundInv
<1>2. CASE order' = [order EXCEPT !.at = "stopped"]
  BY <1>1, <1>2 DEF FundInv, FundType, Found
<1>3. CASE /\ order.balance >= search.gross
           /\ order' = [order EXCEPT
                        !.at = "approving", !.gross = search.gross,
                        !.min = LeastOut(search.out, search.slippage),
                        !.hop = HopFloor(NetOf(search.gross, search.fee), search.out, search.slippage),
                        !.deadline = fundClock + PayrollDeadline]
  <2>1. PICK l, h, d : l = LeastOut(search.out, search.slippage) /\ d = fundClock + PayrollDeadline
                       /\ h = HopFloor(NetOf(search.gross, search.fee), search.out, search.slippage)
    OBVIOUS
  <2>2. PICK o : o = order'  OBVIOUS
  <2>3. /\ o.at = "approving" /\ o.gross = search.gross /\ o.min = l /\ o.hop = h /\ o.deadline = d
        /\ o.balance = order.balance
        /\ o = [at |-> o.at, balance |-> o.balance, gross |-> o.gross, min |-> o.min,
                hop |-> o.hop, deadline |-> o.deadline]
    BY <1>3, <2>1, <2>2 DEF FundInv
  <2>4. d \in Nat /\ d <= fundClock + PayrollDeadline
    BY <1>1, <2>1, FundingAssumption DEF FundType
  <2>5. Ordered'  BY <1>1, <1>3, <2>1, <2>2, <2>3, <2>4 DEF Ordered
  <2>6. FundType' /\ Found'  BY <1>1, <2>2, <2>3 DEF FundType, Found
  <2> QED  BY <1>1, <2>2, <2>3, <2>5, <2>6 DEF FundInv
<1> QED  BY <1>2, <1>3 DEF TakeFunding

LEMMA SignKeeps ==
  ASSUME FundInv, SignPayroll
  PROVE  FundInv'
<1>1. /\ Ordered /\ Found /\ FundType /\ outcome = NotCalled
      /\ UNCHANGED <<poolNow, poolMoves, fundClock, search, outcome>>
  BY DEF SignPayroll, FundInv, Ordered
<1>2. PICK o, next : o = order' /\ next \in {"signed", "stopped"} /\ o = [order EXCEPT !.at = next]
  BY DEF SignPayroll
<1>3. /\ o.at = next /\ o.gross = order.gross /\ o.min = order.min /\ o.hop = order.hop
      /\ o.deadline = order.deadline /\ o.balance = order.balance
      /\ o = [at |-> o.at, balance |-> o.balance, gross |-> o.gross, min |-> o.min,
              hop |-> o.hop, deadline |-> o.deadline]
  BY <1>2 DEF FundInv
<1>4. Ordered' /\ Found' /\ FundType'  BY <1>1, <1>2, <1>3 DEF Ordered, Found, FundType
<1> QED  BY <1>1, <1>2, <1>3, <1>4 DEF FundInv

\* The contract's checks, one after the other, on the call the page signed.
LEMMA MineKeeps ==
  ASSUME FundInv, MinePayroll
  PROVE  FundInv'
<1>1. /\ Ordered /\ Found /\ FundType /\ order.at = "signed"
      /\ UNCHANGED <<poolNow, poolMoves, fundClock, search, order>>
  BY DEF MinePayroll, FundInv, Ordered
<1>2. PICK gross \in 1 .. SwapLimit, fee, debt, net, out, moment, deadline \in Nat :
        /\ gross = search.gross /\ fee = search.fee /\ debt = search.debt /\ out = search.out
        /\ net = NetOf(gross, fee) /\ moment = fundClock /\ deadline = order.deadline
        /\ net # 0 /\ net <= gross /\ debt # 0
  <2>1. PICK g, f \in Nat : g = search.gross /\ f = search.fee  BY <1>1 DEF FundType
  <2>2. PICK n \in Int : n = NetOf(g, f) /\ n <= g  BY FeesAgree
  <2>3. n > 0  BY <1>1, <2>1, <2>2 DEF Found
  <2>4. n \in Nat /\ n # 0  BY <2>3
  <2>5. search.out \in Nat /\ g \in 1 .. SwapLimit
    <3>1. SwapLimit \in Nat  BY FundingAssumption
    <3> QED  BY <1>1, <2>1, <3>1 DEF Found
  <2>6. order.deadline \in Nat /\ fundClock \in Nat /\ search.debt \in Nat /\ search.debt # 0
    BY <1>1 DEF FundType, Ordered
  <2> QED  BY <2>1, <2>2, <2>4, <2>5, <2>6
<1>3. SwapLimit \in Nat /\ PayrollDeadline \in 0 .. DeadlineWindow /\ DeadlineWindow \in Nat
  BY FundingAssumption
<1>4. PICK got \in 0 .. SwapLimit : got = Out(poolNow, net)
  <2>1. net \in 0 .. SwapLimit  BY <1>2, <1>3
  <2> QED  BY <1>1, <2>1, FundingAssumption DEF FundType
<1>5. PICK taken \in Nat : taken = FeeOf(gross, fee) /\ taken = FeeTaken(gross, fee) /\ net = gross - taken
  <2>1. gross \in Nat  BY <1>2, <1>3
  <2>2. FeeOf(gross, fee) \in Nat /\ FeeTaken(gross, fee) = FeeOf(gross, fee)  BY <1>2, <2>1, FeesAgree
  <2>3. net = gross - FeeOf(gross, fee)  BY <1>2 DEF NetOf
  <2> QED  BY <2>2, <2>3
<1>6. PICK least, floor, price \in Nat :
        /\ least = LeastOut(out, search.slippage) /\ least >= debt /\ least <= out
        /\ floor = HopFloor(net, out, search.slippage) /\ floor > 0
        /\ price = (got * HopScale) \div net
        /\ got >= out => price >= floor
  <2>1. LeastOut(out, search.slippage) \in Nat /\ LeastOut(out, search.slippage) <= out
    BY <1>1, <1>2, LeastIsLess DEF FundType
  <2>2. HopFloor(net, out, search.slippage) \in Nat
        /\ (got >= out => (got * HopScale) \div net >= HopFloor(net, out, search.slippage))
    <3>1. net \in Nat \ {0} /\ got \in Nat /\ out \in Nat  BY <1>2, <1>3, <1>4
    <3>2. search.slippage \in 0 .. BpsDenominator  BY <1>1 DEF FundType
    <3> QED  BY <3>1, <3>2, FloorIsMet
  <2>3. (got * HopScale) \div net \in Nat
    <3>1. HopScale \in Nat  BY FundingAssumption
    <3>2. got * HopScale \in Nat  BY <3>1, <1>3, <1>4
    <3> QED  BY <3>2, <1>2, FloorOf
  <2> QED  BY <1>1, <1>2, <2>1, <2>2, <2>3 DEF Found
<1>7. /\ order.gross = gross /\ order.min = least /\ order.hop = floor /\ order.deadline = deadline
      /\ order.balance \in Nat /\ gross <= order.balance /\ deadline <= moment + PayrollDeadline
  BY <1>1, <1>2, <1>6 DEF Ordered, FundType
<1>8. out <= SwapLimit  BY <1>1, <1>2 DEF Found
<1>9. PICK verdict : verdict = Verdict(order, fee, debt, got)  OBVIOUS
<1>10. verdict = IF deadline < moment THEN "DeadlineExpired"
                 ELSE IF got < least THEN "Slippage"
                 ELSE IF price < floor THEN "PriceFloor" ELSE "paid"
  <2>1. gross # 0 /\ ~(gross > SwapLimit) /\ least # 0 /\ ~(least > SwapLimit) /\ floor # 0
        /\ ~(deadline > moment + DeadlineWindow) /\ ~(least < debt) /\ (~(got < least) => ~(got < debt))
    BY <1>2, <1>3, <1>4, <1>6, <1>7, <1>8
  <2>2. gross - FeeTaken(gross, fee) = net  BY <1>5
  <2> QED  BY <1>2, <1>6, <1>7, <1>9, <2>1, <2>2 DEF Verdict
<1>11. outcome' = [result |-> verdict, fee |-> taken, got |-> got, surplus |-> got - debt,
                   late |-> moment > deadline]
  BY <1>2, <1>4, <1>5, <1>7, <1>9 DEF MinePayroll
<1>12. FundedCallHolds'
  <2>1. got >= out /\ ~(moment > deadline) => verdict = "paid"
    BY <1>2, <1>3, <1>4, <1>6, <1>10
  <2>2. verdict = "DeadlineExpired" <=> moment > deadline  BY <1>2, <1>10
  <2>3. verdict \in {"paid", "Slippage", "PriceFloor", "DeadlineExpired"}  BY <1>10
  <2> QED  BY <1>1, <1>2, <1>11, <2>1, <2>2, <2>3 DEF FundedCallHolds
<1>13. PaidInFull'
  <2>1. verdict = "paid" => got >= debt  BY <1>2, <1>3, <1>4, <1>6, <1>10
  <2>2. got - debt \in Int /\ got = debt + (got - debt)  BY <1>2, <1>4
  <2>3. got >= debt => got - debt >= 0  BY <1>2, <1>3, <1>4
  <2>4. /\ outcome'.result = verdict /\ outcome'.fee = taken /\ outcome'.got = got
        /\ outcome'.surplus = got - debt
    BY <1>11
  <2>5. /\ search' = search /\ order' = order /\ search.debt = debt /\ search.gross = gross
        /\ taken = FeeOf(search.gross, search.fee) /\ order.gross = gross /\ gross <= order.balance
    BY <1>1, <1>2, <1>5, <1>7
  <2>6. (got >= debt => got - debt >= 0 /\ got = debt + (got - debt))  BY <2>2, <2>3
  <2> QED  BY <2>1, <2>4, <2>5, <2>6 DEF PaidInFull
<1>14. FundType' /\ Ordered' /\ Found'  BY <1>1 DEF FundType, Ordered, Found
<1> QED  BY <1>1, <1>12, <1>13, <1>14 DEF FundInv

LEMMA DelayKeeps ==
  ASSUME FundInv, PoolMoves \/ FundClockTicks \/ UNCHANGED fundingVars
  PROVE  FundInv'
<1>1. /\ poolNow' \in Pools /\ fundClock' \in Nat /\ fundClock' >= fundClock /\ fundClock \in Nat
      /\ UNCHANGED <<search, order, outcome>>
  BY DEF PoolMoves, FundClockTicks, fundingVars, FundInv, FundType
<1>2. FundType' /\ (Found => Found')  BY <1>1 DEF FundInv, FundType, Found
<1>3. Ordered => Ordered'  BY <1>1, FundingAssumption DEF Ordered
<1>4. (FundedCallHolds => FundedCallHolds') /\ (PaidInFull => PaidInFull')
  BY <1>1 DEF FundedCallHolds, PaidInFull
<1> QED  BY <1>1, <1>2, <1>3, <1>4 DEF FundInv

\* For any pools, fees, slippages and delays: what the quote service finds covers
\* the payroll, the contract never turns a call away for its form, and a paid call
\* pays everyone (mainnet-uniswap-v4.service.ts, WizPayPayrollMainnet.sol).
THEOREM FundedPayrollsPay == FundingSpec => [](FundingCoversDebt /\ FundedCallHolds /\ PaidInFull)
<1>1. FundInv /\ [FundingNext]_fundingVars => FundInv'
  BY ProbeKeeps, ProbeFailureKeeps, TakeKeeps, SignKeeps, MineKeeps, DelayKeeps DEF FundingNext
<1>2. FundInv => FundingCoversDebt /\ FundedCallHolds /\ PaidInFull
  BY DEF FundInv, Found, FundingCoversDebt, FundedCallHolds, PaidInFull, NotCalled
<1> QED  BY <1>1, <1>2, FundStarts, PTL DEF FundingSpec

-----------------------------------------------------------------------------
(* The page shell.  An offered install event is the newest one, and only    *)
(* events that were fired have been answered.                               *)
InstallInv ==
  /\ fired \in Nat
  /\ usedEvents \subseteq 1 .. fired /\ prompts \subseteq 1 .. fired
  /\ install \in [deferredPrompt : Nat, native : BOOLEAN, manual : BOOLEAN, isInstalled : BOOLEAN]
  /\ install.native => install.deferredPrompt \in (1 .. fired) \ usedEvents

LEMMA InstallKeeps ==
  ASSUME InstallInv, InstallNext PROVE InstallInv'
<1> USE DEF InstallInv
<1>1. CASE BeforeInstallPrompt
  <2>1. fired' = fired + 1 /\ usedEvents' = usedEvents /\ prompts' = prompts
    BY <1>1 DEF BeforeInstallPrompt
  <2>2. fired + 1 \in (1 .. fired') \ usedEvents /\ 1 .. fired \subseteq 1 .. fired'  BY <2>1
  <2>3. install' = [install EXCEPT !.deferredPrompt = fired + 1, !.native = TRUE, !.isInstalled = FALSE]
    BY <1>1 DEF BeforeInstallPrompt
  <2>4. install'.deferredPrompt = fired + 1 /\ install' \in [deferredPrompt : Nat, native : BOOLEAN,
                                                            manual : BOOLEAN, isInstalled : BOOLEAN]
    <3>1. install' = [deferredPrompt |-> fired + 1, native |-> TRUE, manual |-> install.manual,
                      isInstalled |-> FALSE]
      BY <2>3
    <3>2. fired + 1 \in Nat /\ install.manual \in BOOLEAN  OBVIOUS
    <3> QED  BY <3>1, <3>2
  <2>5. usedEvents' \subseteq 1 .. fired' /\ prompts' \subseteq 1 .. fired'  BY <2>1, <2>2
  <2>6. fired' \in Nat  BY <2>1
  <2> QED  BY <2>1, <2>2, <2>4, <2>5, <2>6
<1>2. CASE AppInstalled
  BY <1>2 DEF AppInstalled, ClearPwaDeferredPrompt, OtherInstall
<1>3. CASE DisplayModeChanges
  BY <1>3 DEF DisplayModeChanges, OtherInstall
<1>4. CASE PromptInstall
  BY <1>4 DEF PromptInstall, OtherInstall
<1>5. CASE UserChoice
  <2>1. PICK event \in prompts, choice \in {"accepted", "dismissed"} :
          /\ install' = AfterChoice(install, choice)
          /\ usedEvents' = usedEvents \cup {event}
          /\ prompts' = prompts \ {event}
    BY <1>5 DEF UserChoice
  <2>2. fired' = fired  BY <1>5 DEF UserChoice
  <2>3. ~install'.native /\ install' \in [deferredPrompt : Nat, native : BOOLEAN,
                                          manual : BOOLEAN, isInstalled : BOOLEAN]
    BY <2>1 DEF AfterChoice, ClearPwaDeferredPrompt
  <2> QED  BY <2>1, <2>2, <2>3
<1>6. CASE ReloadPage
  BY <1>6 DEF ReloadPage, ClearPwaDeferredPrompt
<1>7. CASE ShowInstructions \/ DismissPrompt \/ InstallTick
  BY <1>7 DEF ShowInstructions, DismissPrompt, InstallTick
<1> QED  BY <1>1, <1>2, <1>3, <1>4, <1>5, <1>6, <1>7 DEF InstallNext

Preferences == [customIdentity : Identities \cup {""}, xHandle : Identities \cup {""}]

ProfileInv ==
  /\ prefs \in [Scopes -> Preferences]
  /\ tabs \in [ProfileTabs -> [scope : Scopes, shown : Preferences, storageEvents : Nat]]
  /\ TabsFollowStorage

LEMMA SaveKeeps ==
  ASSUME ProfileInv, NEW t \in ProfileTabs, SavePreferences(t) PROVE ProfileInv'
<1>1. PICK field \in {"customIdentity", "xHandle"}, text \in Identities :
        /\ prefs' = [prefs EXCEPT ![tabs[t].scope] = WritePreferences(field, text)]
        /\ tabs' = [u \in ProfileTabs |->
                      [tabs[u] EXCEPT !.shown = IF u = t THEN WritePreferences(field, text) ELSE @,
                                      !.storageEvents = @ + NotifyOthers(t)[u]]]
  BY DEF SavePreferences
<1>2. PICK saved : saved = WritePreferences(field, text)  OBVIOUS
<1>3. saved \in Preferences  BY <1>2 DEF WritePreferences, EmptyPreferences, Preferences
<1>4. \A u \in ProfileTabs : tabs[u] \in [scope : Scopes, shown : Preferences, storageEvents : Nat]
  BY DEF ProfileInv
<1>5. prefs' \in [Scopes -> Preferences] /\ prefs'[tabs[t].scope] = saved
  BY <1>1, <1>2, <1>3, <1>4 DEF ProfileInv
<1>6. ASSUME NEW u \in ProfileTabs
      PROVE  /\ tabs'[u] \in [scope : Scopes, shown : Preferences, storageEvents : Nat]
             /\ tabs'[u].storageEvents = 0 => tabs'[u].shown = prefs'[tabs'[u].scope]
  <2>1. CASE u = t
    <3>1. NotifyOthers(t)[u] = 0  BY <2>1 DEF NotifyOthers
    <3>2. tabs'[u] = [tabs[u] EXCEPT !.shown = saved, !.storageEvents = @ + 0]
      BY <1>1, <1>2, <2>1, <3>1
    <3>3. tabs[u].storageEvents \in Nat /\ tabs[u].scope \in Scopes  BY <1>4
    <3>4. tabs'[u] \in [scope : Scopes, shown : Preferences, storageEvents : Nat]
      <4>1. tabs'[u] = [scope |-> tabs[u].scope, shown |-> saved,
                        storageEvents |-> tabs[u].storageEvents + 0]
        BY <1>4, <3>2
      <4> QED  BY <1>3, <3>3, <4>1
    <3>5. tabs'[u].shown = saved /\ tabs'[u].scope = tabs[u].scope  BY <1>4, <3>2
    <3> QED  BY <1>5, <2>1, <3>4, <3>5
  <2>2. CASE u # t
    <3>1. NotifyOthers(t)[u] = 1  BY <2>2 DEF NotifyOthers
    <3>2. tabs'[u] = [tabs[u] EXCEPT !.storageEvents = @ + 1]  BY <1>1, <1>4, <2>2, <3>1
    <3> QED  BY <1>4, <3>2
  <2> QED  BY <2>1, <2>2
<1>7. tabs' = [u \in ProfileTabs |-> tabs'[u]]  BY <1>1
<1> QED  BY <1>5, <1>6, <1>7 DEF ProfileInv, TabsFollowStorage

LEMMA ProfileKeeps ==
  ASSUME ProfileInv, ProfileNext PROVE ProfileInv'
<1>1. PICK t \in ProfileTabs : SavePreferences(t) \/ SyncPreferences(t) \/ SwitchScope(t)
  BY DEF ProfileNext
<1>2. CASE SyncPreferences(t)
  <2>1. PICK shows : shows = prefs[tabs[t].scope]  OBVIOUS
  <2>2. shows \in Preferences /\ tabs[t].storageEvents - 1 \in Nat
    BY <1>2, <2>1 DEF SyncPreferences, ProfileInv
  <2>3. tabs' = [tabs EXCEPT ![t] = [@ EXCEPT !.storageEvents = tabs[t].storageEvents - 1,
                                              !.shown = shows]]
    BY <1>2, <2>1 DEF SyncPreferences, ProfileInv
  <2>4. prefs' = prefs  BY <1>2 DEF SyncPreferences
  <2> QED  BY <2>1, <2>2, <2>3, <2>4 DEF ProfileInv, TabsFollowStorage
<1>3. CASE SwitchScope(t)
  <2>1. PICK s \in Scopes : tabs' = [tabs EXCEPT ![t].scope = s, ![t].shown = prefs[s]]
    BY <1>3 DEF SwitchScope
  <2>2. PICK shows : shows = prefs[s]  OBVIOUS
  <2>3. shows \in Preferences  BY <2>2 DEF ProfileInv
  <2>4. tabs' = [tabs EXCEPT ![t] = [@ EXCEPT !.scope = s, !.shown = shows]]
    BY <2>1, <2>2 DEF ProfileInv
  <2>5. prefs' = prefs  BY <1>3 DEF SwitchScope
  <2> QED  BY <2>2, <2>3, <2>4, <2>5 DEF ProfileInv, TabsFollowStorage
<1> QED  BY <1>1, <1>2, <1>3, SaveKeeps

\* For any number of tabs, wallets, saves and install events: what is offered to
\* install was not answered yet, and a tab that has handled its storage events
\* shows what is stored for its wallet (showPwaInstallPrompt, useProfilePreferences).
THEOREM ShellFollowsBrowser == ShellSpec => []PageFollowsBrowser
<1>1. ShellInit => InstallInv /\ ProfileInv
  <2> SUFFICES ASSUME ShellInit PROVE InstallInv /\ ProfileInv  OBVIOUS
  <2>1. InstallInv  BY DEF ShellInit, InstallInit, InstallInv
  <2>2. FirstScope \in Scopes  BY ShellAssumption DEF FirstScope
  <2>3. EmptyPreferences \in Preferences  BY DEF EmptyPreferences, Preferences
  <2>4. ProfileInv  BY <2>2, <2>3 DEF ShellInit, ProfileInit, ProfileInv, TabsFollowStorage
  <2> QED  BY <2>1, <2>4
<1>2. InstallInv /\ ProfileInv /\ [ShellNext]_shellVars => InstallInv' /\ ProfileInv'
  <2> SUFFICES ASSUME InstallInv, ProfileInv, [ShellNext]_shellVars PROVE InstallInv' /\ ProfileInv'
    OBVIOUS
  <2>1. UNCHANGED installVars => InstallInv'  BY DEF InstallInv, installVars
  <2>2. UNCHANGED profileVars => ProfileInv'  BY DEF ProfileInv, TabsFollowStorage, profileVars
  <2> QED  BY <2>1, <2>2, InstallKeeps, ProfileKeeps DEF ShellNext, shellVars
<1>3. InstallInv /\ ProfileInv => PageFollowsBrowser
  BY DEF InstallInv, ProfileInv, PageFollowsBrowser, OfferIsUnanswered
<1> QED  BY <1>1, <1>2, <1>3, PTL DEF ShellSpec

-----------------------------------------------------------------------------
(* Sums.  SumOf(v) is the last value of a function that is defined by       *)
(* recursion on 0 .. Len(v).  What is shown of the numbers up to n rests on *)
(* the least number at which it would fail.                                 *)

LessThan == {p \in Nat \X Nat : p[1] < p[2]}

LEMMA LeastNatural ==
  ASSUME NEW S, S \subseteq Nat, S # {}
  PROVE  \E x \in S : \A y \in S : x <= y
<1>1. OpToRel(<, Nat) = LessThan  BY DEF OpToRel, LessThan
<1>2. IsWellFoundedOn(LessThan, Nat)  BY <1>1, NatLessThanWellFounded
<1>3. PICK x \in S : \A y \in S : ~(<<y, x>> \in LessThan)  BY <1>2, WFMin
<1>4. \A y \in S : ~(<<y, x>> \in LessThan) => x <= y  BY DEF LessThan
<1> QED  BY <1>3, <1>4

\* A set of numbers with 0 and with the successors of its members below N.
LEMMA UpTo ==
  ASSUME NEW N \in Nat, NEW S, 0 \in S, \A n \in 0 .. N : n + 1 \in 0 .. N /\ n \in S => n + 1 \in S
  PROVE  \A n \in 0 .. N : n \in S
<1> DEFINE Bad == {n \in 0 .. N : n \notin S}
<1>1. SUFFICES ASSUME Bad # {} PROVE FALSE  OBVIOUS
<1>2. Bad \subseteq Nat  OBVIOUS
<1>3. PICK n \in Bad : \A m \in Bad : n <= m  BY <1>1, <1>2, LeastNatural
<1>4. n # 0 /\ n \in 0 .. N  OBVIOUS
<1>5. n - 1 \in 0 .. N /\ n - 1 \notin Bad /\ (n - 1) + 1 = n  BY <1>3, <1>4
<1>6. n - 1 \in S  BY <1>5
<1> QED  BY <1>4, <1>5, <1>6

PartialSums(v) ==
    CHOOSE f : f = [n \in 0 .. Len(v) |-> IF n = 0 THEN 0 ELSE f[n - 1] + v[n]]

SumsUpTo(v, n) ==
    {f \in [0 .. n -> Int] :
        f[0] = 0 /\ \A k \in 1 .. n : f[k] = f[k - 1] + v[k]}

LEMMA SumsExist ==
  ASSUME NEW v \in Seq(Int)
  PROVE  SumsUpTo(v, Len(v)) # {}
<1> DEFINE Good == {n \in 0 .. Len(v) : SumsUpTo(v, n) # {}}
<1>1. 0 \in Good
  <2>1. [k \in 0 .. 0 |-> 0] \in SumsUpTo(v, 0)  BY DEF SumsUpTo
  <2> QED  BY <2>1
<1>2. ASSUME NEW n \in 0 .. Len(v), n + 1 \in 0 .. Len(v), n \in Good PROVE n + 1 \in Good
  <2>1. PICK f : f \in SumsUpTo(v, n)  BY <1>2
  <2>2. f \in [0 .. n -> Int] /\ f[0] = 0 /\ \A k \in 1 .. n : f[k] = f[k - 1] + v[k]
    BY <2>1 DEF SumsUpTo
  <2> DEFINE g == [k \in 0 .. (n + 1) |-> IF k = n + 1 THEN f[n] + v[n + 1] ELSE f[k]]
  <2>3. v[n + 1] \in Int /\ f[n] \in Int  BY <1>2, <2>2
  <2>4. g \in [0 .. (n + 1) -> Int]  BY <2>2, <2>3
  <2>5. g[0] = 0  BY <2>2
  <2>6. ASSUME NEW k \in 1 .. (n + 1) PROVE g[k] = g[k - 1] + v[k]
    <3>1. CASE k = n + 1  BY <3>1
    <3>2. CASE k # n + 1  BY <3>2, <2>2
    <3> QED  BY <3>1, <3>2
  <2> HIDE DEF g
  <2>7. g \in SumsUpTo(v, n + 1)  BY <2>4, <2>5, <2>6 DEF SumsUpTo
  <2> QED  BY <1>2, <2>7
<1> HIDE DEF Good
<1>3. Len(v) \in Nat /\ Len(v) \in 0 .. Len(v)  OBVIOUS
<1>4. Len(v) \in Good  BY <1>1, <1>2, <1>3, UpTo
<1> QED  BY <1>4 DEF Good

LEMMA SumIs ==
  ASSUME NEW v \in Seq(Int)
  PROVE  /\ PartialSums(v) \in [0 .. Len(v) -> Int] /\ PartialSums(v)[0] = 0
         /\ \A k \in 1 .. Len(v) : PartialSums(v)[k] = PartialSums(v)[k - 1] + v[k]
         /\ SumOf(v) = PartialSums(v)[Len(v)] /\ SumOf(v) \in Int
<1>1. PICK f : f \in SumsUpTo(v, Len(v))  BY SumsExist
<1>2. f \in [0 .. Len(v) -> Int] /\ f[0] = 0 /\ \A k \in 1 .. Len(v) : f[k] = f[k - 1] + v[k]
  BY <1>1 DEF SumsUpTo
<1>3. f = [n \in 0 .. Len(v) |-> f[n]]  BY <1>2
<1>4. \A n \in 0 .. Len(v) : f[n] = IF n = 0 THEN 0 ELSE f[n - 1] + v[n]  BY <1>2
<1>5. f = [n \in 0 .. Len(v) |-> IF n = 0 THEN 0 ELSE f[n - 1] + v[n]]  BY <1>3, <1>4
<1>6. PartialSums(v) = [n \in 0 .. Len(v) |-> IF n = 0 THEN 0 ELSE PartialSums(v)[n - 1] + v[n]]
  BY <1>5 DEF PartialSums
<1>7. SumOf(v) = PartialSums(v)[Len(v)]  BY DEF SumOf, PartialSums
<1> DEFINE p == PartialSums(v)
<1> HIDE DEF p
<1>8. p = [n \in 0 .. Len(v) |-> IF n = 0 THEN 0 ELSE p[n - 1] + v[n]]  BY <1>6 DEF p
<1>9. DOMAIN p = 0 .. Len(v) /\ p[0] = 0 /\ \A k \in 1 .. Len(v) : p[k] = p[k - 1] + v[k]
  <2>1. DOMAIN p = 0 .. Len(v)  BY <1>8
  <2>2. \A k \in 0 .. Len(v) : p[k] = IF k = 0 THEN 0 ELSE p[k - 1] + v[k]  BY <1>8
  <2> QED  BY <2>1, <2>2
<1> DEFINE Good == {n \in 0 .. Len(v) : p[n] = f[n]}
<1>10. 0 \in Good  BY <1>2, <1>9
<1>11. ASSUME NEW n \in 0 .. Len(v), n + 1 \in 0 .. Len(v), n \in Good PROVE n + 1 \in Good
  BY <1>2, <1>9, <1>11
<1>12. \A n \in 0 .. Len(v) : n \in Good
  <2> HIDE DEF Good
  <2>1. Len(v) \in Nat  OBVIOUS
  <2> QED  BY <1>10, <1>11, <2>1, UpTo
<1>13. \A n \in 0 .. Len(v) : p[n] \in Int  BY <1>12, <1>2
<1>14. p \in [0 .. Len(v) -> Int]  BY <1>9, <1>13, <1>8
<1> QED  BY <1>7, <1>9, <1>14 DEF p

\* The sums of a sequence that continues another begin with its sums.
LEMMA SumsBegin ==
  ASSUME NEW v \in Seq(Int), NEW w \in Seq(Int), Len(v) <= Len(w),
         \A k \in 1 .. Len(v) : w[k] = v[k]
  PROVE  \A n \in 0 .. Len(v) : PartialSums(w)[n] = PartialSums(v)[n]
<1> DEFINE Good == {n \in 0 .. Len(v) : PartialSums(w)[n] = PartialSums(v)[n]}
<1>1. 0 \in Good  BY SumIs
<1>2. ASSUME NEW n \in 0 .. Len(v), n + 1 \in 0 .. Len(v), n \in Good PROVE n + 1 \in Good
  BY <1>2, SumIs
<1>3. \A n \in 0 .. Len(v) : n \in Good
  <2> HIDE DEF Good
  <2>1. Len(v) \in Nat  OBVIOUS
  <2> QED  BY <1>1, <1>2, <2>1, UpTo
<1> QED  BY <1>3

LEMMA SumSame ==
  ASSUME NEW v \in Seq(Int), NEW w \in Seq(Int), Len(v) = Len(w),
         \A k \in 1 .. Len(v) : w[k] = v[k]
  PROVE  SumOf(w) = SumOf(v)
BY SumsBegin, SumIs

LEMMA SumAppend ==
  ASSUME NEW v \in Seq(Int), NEW w \in Seq(Int), Len(w) = Len(v) + 1,
         \A k \in 1 .. Len(v) : w[k] = v[k]
  PROVE  SumOf(w) = SumOf(v) + w[Len(w)]
<1>1. PartialSums(w)[Len(v)] = PartialSums(v)[Len(v)]  BY SumsBegin
<1>2. PartialSums(w)[Len(w)] = PartialSums(w)[Len(w) - 1] + w[Len(w)]  BY SumIs
<1> QED  BY <1>1, <1>2, SumIs

LEMMA SumPrepend ==
  ASSUME NEW v \in Seq(Int), NEW w \in Seq(Int), Len(w) = Len(v) + 1,
         \A k \in 1 .. Len(v) : w[k + 1] = v[k]
  PROVE  SumOf(w) = w[1] + SumOf(v)
<1> DEFINE Good == {n \in 0 .. Len(v) : PartialSums(w)[n + 1] = w[1] + PartialSums(v)[n]}
<1>1. 0 \in Good
  <2>1. 1 \in 1 .. Len(w) /\ 1 - 1 = 0  OBVIOUS
  <2>2. PartialSums(w)[1] = PartialSums(w)[1 - 1] + w[1]  BY <2>1, SumIs
  <2>3. w[1] \in Int  BY <2>1
  <2>4. PartialSums(w)[0] = 0 /\ PartialSums(v)[0] = 0  BY SumIs
  <2>5. PartialSums(w)[0 + 1] = w[1] + PartialSums(v)[0]  BY <2>1, <2>2, <2>3, <2>4
  <2>6. 0 \in 0 .. Len(v)  OBVIOUS
  <2> QED  BY <2>5, <2>6
<1>2. ASSUME NEW n \in 0 .. Len(v), n + 1 \in 0 .. Len(v), n \in Good PROVE n + 1 \in Good
  <2>1. PartialSums(w)[n + 2] = PartialSums(w)[(n + 2) - 1] + w[n + 2]
    <3>1. n + 2 \in 1 .. Len(w)  BY <1>2
    <3> QED  BY <3>1, SumIs
  <2>2. w[n + 2] = v[n + 1]
    <3>1. n + 1 \in 1 .. Len(v) /\ (n + 1) + 1 = n + 2  BY <1>2
    <3> QED  BY <3>1
  <2>3. PartialSums(v)[n + 1] = PartialSums(v)[(n + 1) - 1] + v[n + 1]  BY <1>2, SumIs
  <2>4. PartialSums(v)[n] \in Int /\ v[n + 1] \in Int /\ w[1] \in Int
    <3>1. n \in 0 .. Len(v) /\ n + 1 \in 1 .. Len(v) /\ 1 \in 1 .. Len(w)  BY <1>2
    <3>2. PartialSums(v)[n] \in Int  BY <3>1, SumIs
    <3>3. v[n + 1] \in Int /\ w[1] \in Int  BY <3>1
    <3> QED  BY <3>2, <3>3
  <2>5. (n + 2) - 1 = n + 1 /\ (n + 1) - 1 = n /\ (n + 1) + 1 = n + 2  OBVIOUS
  <2>6. PartialSums(w)[n + 1] = w[1] + PartialSums(v)[n]  BY <1>2
  <2>7. PartialSums(w)[n + 2] = w[1] + PartialSums(v)[n] + v[n + 1]  BY <2>1, <2>2, <2>5, <2>6
  <2>8. PartialSums(v)[n + 1] = PartialSums(v)[n] + v[n + 1]  BY <2>3, <2>5
  <2>9. PartialSums(w)[(n + 1) + 1] = w[1] + PartialSums(v)[n + 1]  BY <2>4, <2>5, <2>7, <2>8
  <2> QED  BY <1>2, <2>9
<1>3. \A n \in 0 .. Len(v) : n \in Good
  <2> HIDE DEF Good
  <2>1. Len(v) \in Nat  OBVIOUS
  <2> QED  BY <1>1, <1>2, <2>1, UpTo
<1>4. PartialSums(w)[Len(v) + 1] = w[1] + PartialSums(v)[Len(v)]  BY <1>3
<1> QED  BY <1>4, SumIs

\* Two ways to group the numbers of a sum.
LEMMA Regrouped ==
  /\ \A h, i, j, k \in Int : (h + i) + (j + k) = (h + j) + (i + k)
  /\ \A h, i, j, k \in Int : h + (0 - i) + ((j - 0) + (k - 0)) = h + (k + j - i + 0)
  OBVIOUS

LEMMA SumAdds ==
  ASSUME NEW u \in Seq(Int), NEW v \in Seq(Int), NEW w \in Seq(Int),
         Len(u) = Len(w), Len(v) = Len(w), \A k \in 1 .. Len(w) : w[k] = u[k] + v[k]
  PROVE  SumOf(w) = SumOf(u) + SumOf(v)
<1> DEFINE Good == {n \in 0 .. Len(w) : PartialSums(w)[n] = PartialSums(u)[n] + PartialSums(v)[n]}
<1>1. 0 \in Good  BY SumIs
<1>2. ASSUME NEW n \in 0 .. Len(w), n + 1 \in 0 .. Len(w), n \in Good PROVE n + 1 \in Good
  <2>1. n \in 0 .. Len(w) /\ n + 1 \in 1 .. Len(w) /\ (n + 1) - 1 = n  BY <1>2
  <2>2. PartialSums(w)[n + 1] = PartialSums(w)[n] + w[n + 1]  BY <2>1, SumIs
  <2>3. PartialSums(u)[n + 1] = PartialSums(u)[n] + u[n + 1]  BY <2>1, SumIs
  <2>4. PartialSums(v)[n + 1] = PartialSums(v)[n] + v[n + 1]  BY <2>1, SumIs
  <2>5. PartialSums(u)[n] \in Int /\ PartialSums(v)[n] \in Int /\ u[n + 1] \in Int /\ v[n + 1] \in Int
    <3>1. n \in 0 .. Len(u) /\ n \in 0 .. Len(v) /\ n + 1 \in 1 .. Len(u) /\ n + 1 \in 1 .. Len(v)
      BY <2>1
    <3>2. PartialSums(u)[n] \in Int /\ PartialSums(v)[n] \in Int  BY <3>1, SumIs
    <3>3. u[n + 1] \in Int /\ v[n + 1] \in Int  BY <3>1
    <3> QED  BY <3>2, <3>3
  <2>6. w[n + 1] = u[n + 1] + v[n + 1]  BY <2>1
  <2>7. PartialSums(w)[n] = PartialSums(u)[n] + PartialSums(v)[n]  BY <1>2
  <2>8. PartialSums(w)[n + 1] = PartialSums(u)[n + 1] + PartialSums(v)[n + 1]
    <3>1. PICK h \in Int, i \in Int, j \in Int, k \in Int :
             h = PartialSums(u)[n] /\ i = PartialSums(v)[n] /\ j = u[n + 1] /\ k = v[n + 1]
      BY <2>5
    <3>2. PartialSums(w)[n + 1] = (h + i) + (j + k)  BY <2>2, <2>6, <2>7, <3>1
    <3>3. PartialSums(u)[n + 1] = h + j /\ PartialSums(v)[n + 1] = i + k  BY <2>3, <2>4, <3>1
    <3>4. (h + i) + (j + k) = (h + j) + (i + k)  BY Regrouped
    <3>5. PartialSums(w)[n + 1] = (h + j) + (i + k)  BY <3>2, <3>4, Zenon
    <3> QED  BY <3>3, <3>5, Zenon
  <2> QED  BY <1>2, <2>8
<1>3. \A n \in 0 .. Len(w) : n \in Good
  <2> HIDE DEF Good
  <2>1. Len(w) \in Nat  OBVIOUS
  <2> QED  BY <1>1, <1>2, <2>1, UpTo
<1>4. PartialSums(w)[Len(w)] = PartialSums(u)[Len(w)] + PartialSums(v)[Len(w)]  BY <1>3
<1> QED  BY <1>4, SumIs

LEMMA SumOfNaturals ==
  ASSUME NEW v \in Seq(Int), \A k \in 1 .. Len(v) : v[k] >= 0
  PROVE  SumOf(v) >= 0
<1> DEFINE Good == {n \in 0 .. Len(v) : PartialSums(v)[n] >= 0}
<1>1. 0 \in Good  BY SumIs
<1>2. ASSUME NEW n \in 0 .. Len(v), n + 1 \in 0 .. Len(v), n \in Good PROVE n + 1 \in Good
  <2>1. n \in 0 .. Len(v) /\ n + 1 \in 1 .. Len(v) /\ (n + 1) - 1 = n  BY <1>2
  <2>2. PartialSums(v)[n + 1] = PartialSums(v)[n] + v[n + 1]  BY <2>1, SumIs
  <2>3. PartialSums(v)[n] \in Int  BY <2>1, SumIs
  <2>6. v[n + 1] \in Int  BY <2>1
  <2> QED  BY <1>2, <2>1, <2>2, <2>3, <2>6
<1>3. \A n \in 0 .. Len(v) : n \in Good
  <2> HIDE DEF Good
  <2>1. Len(v) \in Nat  OBVIOUS
  <2> QED  BY <1>1, <1>2, <2>1, UpTo
<1> QED  BY <1>3, SumIs

LEMMA SumOfNothing ==
  ASSUME NEW v \in Seq(Int), \A k \in 1 .. Len(v) : v[k] = 0
  PROVE  SumOf(v) = 0
<1>1. SumOf(v) = SumOf(v) + SumOf(v)  BY SumAdds
<1> QED  BY <1>1, SumIs

\* One summand changes.
LEMMA SumBumps ==
  ASSUME NEW v \in Seq(Int), NEW w \in Seq(Int), Len(v) = Len(w), NEW i \in 1 .. Len(v), NEW d \in Int,
         \A k \in 1 .. Len(v) : w[k] = IF k = i THEN v[k] + d ELSE v[k]
  PROVE  SumOf(w) = SumOf(v) + d
<1> DEFINE Good == {n \in 0 .. Len(v) :
              PartialSums(w)[n] = PartialSums(v)[n] + (IF i <= n THEN d ELSE 0)}
<1>1. 0 \in Good  BY SumIs
<1>2. ASSUME NEW n \in 0 .. Len(v), n + 1 \in 0 .. Len(v), n \in Good PROVE n + 1 \in Good
  <2>1. n \in 0 .. Len(v) /\ n + 1 \in 1 .. Len(v) /\ (n + 1) - 1 = n  BY <1>2
  <2>2. PartialSums(w)[n + 1] = PartialSums(w)[n] + w[n + 1]  BY <2>1, SumIs
  <2>3. PartialSums(v)[n + 1] = PartialSums(v)[n] + v[n + 1]  BY <2>1, SumIs
  <2>4. PartialSums(v)[n] \in Int  BY <2>1, SumIs
  <2>5. w[n + 1] = IF n + 1 = i THEN v[n + 1] + d ELSE v[n + 1]  BY <2>1
  <2>6. v[n + 1] \in Int  BY <2>1
  <2>7. PartialSums(w)[n] = PartialSums(v)[n] + (IF i <= n THEN d ELSE 0)  BY <1>2
  <2>8. CASE n + 1 = i  BY <1>2, <2>1, <2>2, <2>3, <2>4, <2>5, <2>6, <2>7, <2>8
  <2>9. CASE n + 1 # i
    <3>1. i <= n + 1 <=> i <= n  BY <2>9
    <3>2. (IF i <= n THEN d ELSE 0) \in Int  OBVIOUS
    <3>3. PartialSums(w)[n + 1] = PartialSums(v)[n + 1] + (IF i <= n THEN d ELSE 0)
      BY <2>2, <2>3, <2>4, <2>5, <2>6, <2>7, <2>9, <3>2
    <3> QED  BY <1>2, <3>1, <3>3
  <2> QED  BY <2>8, <2>9
<1>3. \A n \in 0 .. Len(v) : n \in Good
  <2> HIDE DEF Good
  <2>1. Len(v) \in Nat  OBVIOUS
  <2> QED  BY <1>1, <1>2, <2>1, UpTo
<1>4. PartialSums(w)[Len(v)] = PartialSums(v)[Len(v)] + d  BY <1>3
<1> QED  BY <1>4, SumIs

\* SetToSeq lists every member once.
LEMMA MembersAreListed ==
  ASSUME NEW S, IsFiniteSet(S)
  PROVE  /\ SetToSeq(S) \in Seq(S)
         /\ \A x \in S : \E i \in 1 .. Len(SetToSeq(S)) :
               \A k \in 1 .. Len(SetToSeq(S)) : (SetToSeq(S)[k] = x) <=> (k = i)
<1> DEFINE n == Cardinality(S)
<1>1. n \in Nat /\ ExistsBijection(1 .. n, S)  BY FS_CardinalityType
<1>2. \E f \in [1 .. n -> S] : IsInjective(f)
  BY <1>1 DEF ExistsBijection, Bijection, Injection
<1> DEFINE m == SetToSeq(S)
<1>3. m \in [1 .. n -> S] /\ IsInjective(m)  BY <1>2 DEF SetToSeq
<1>4. m \in Injection(1 .. n, S)  BY <1>3 DEF Injection
<1>5. IsFiniteSet(1 .. n) /\ Cardinality(1 .. n) = n  BY <1>1, FS_Interval
<1>6. m \in Surjection(1 .. n, S)  BY <1>4, <1>5, FS_Injection
<1>7. \A x \in S : \E i \in 1 .. n : m[i] = x  BY <1>6 DEF Surjection
<1>8. m \in Seq(S) /\ Len(m) = n  BY <1>1, <1>3
<1>9. \A a, b \in 1 .. n : m[a] = m[b] => a = b  BY <1>3 DEF IsInjective
<1> HIDE DEF m, n
<1>10. ASSUME NEW x \in S PROVE \E i \in 1 .. n : \A k \in 1 .. n : (m[k] = x) <=> (k = i)
  BY <1>7, <1>9
<1> QED  BY <1>8, <1>10 DEF m

LEMMA SumOverBumps ==
  ASSUME NEW S, IsFiniteSet(S), NEW f \in [S -> Int], NEW g \in [S -> Int], NEW x \in S, NEW d \in Int,
         \A y \in S : g[y] = IF y = x THEN f[y] + d ELSE f[y]
  PROVE  SumOver(S, g) = SumOver(S, f) + d
<1> DEFINE m == SetToSeq(S)
           v == [k \in DOMAIN m |-> f[m[k]]]
           w == [k \in DOMAIN m |-> g[m[k]]]
<1>1. m \in Seq(S)  BY MembersAreListed
<1>2. PICK i \in 1 .. Len(m) : \A k \in 1 .. Len(m) : (m[k] = x) <=> (k = i)  BY MembersAreListed
<1>3. SumOver(S, f) = SumOf(v) /\ SumOver(S, g) = SumOf(w)  BY DEF SumOver, SumAlong
<1> HIDE DEF m
<1>4. v \in Seq(Int) /\ Len(v) = Len(m)  BY <1>1
<1>6. w \in Seq(Int) /\ Len(w) = Len(m)  BY <1>1
<1>5. ASSUME NEW k \in 1 .. Len(m) PROVE w[k] = IF k = i THEN v[k] + d ELSE v[k]
  BY <1>1, <1>2
<1> HIDE DEF v, w
<1> QED  BY <1>2, <1>3, <1>4, <1>5, <1>6, SumBumps

LEMMA SumOverType ==
  ASSUME NEW S, IsFiniteSet(S), NEW f \in [S -> Int]
  PROVE  /\ SumOver(S, f) \in Int
         /\ (\A x \in S : f[x] = 0) => SumOver(S, f) = 0
<1> DEFINE m == SetToSeq(S)
           v == [k \in DOMAIN m |-> f[m[k]]]
<1>1. m \in Seq(S)  BY MembersAreListed
<1>2. SumOver(S, f) = SumOf(v)  BY DEF SumOver, SumAlong
<1> HIDE DEF m
<1>3. v \in Seq(Int) /\ (\A x \in S : f[x] = 0) => \A k \in 1 .. Len(v) : v[k] = 0  BY <1>1
<1>4. v \in Seq(Int)  BY <1>1
<1> HIDE DEF v
<1> QED  BY <1>2, <1>3, <1>4, SumIs, SumOfNothing

-----------------------------------------------------------------------------
(* What transfers do to the ledger. *)

Ledgers == [Accounts -> [Tokens -> Int]]

TransferRecords == [token : Tokens, from : Accounts, to : Accounts, amount : Int]

PaymentRecords == [to : Accounts, amount : Nat]

(* What a transfer, and a sequence of them, adds to an account. *)
Effect(x, a, t) ==
    IF x.from = x.to \/ t # x.token THEN 0
    ELSE (IF a = x.to THEN x.amount ELSE 0) - (IF a = x.from THEN x.amount ELSE 0)

Effects(xs, a, t) == [i \in 1 .. Len(xs) |-> Effect(xs[i], a, t)]

LEMMA EffectType ==
  ASSUME NEW x \in TransferRecords, NEW a, NEW t
  PROVE  Effect(x, a, t) \in Int
BY DEF Effect, TransferRecords

LEMMA EffectsType ==
  ASSUME NEW xs \in Seq(TransferRecords), NEW a, NEW t
  PROVE  /\ Effects(xs, a, t) \in Seq(Int) /\ Len(Effects(xs, a, t)) = Len(xs)
         /\ \A k \in 1 .. Len(xs) : Effects(xs, a, t)[k] = Effect(xs[k], a, t)
<1>1. \A k \in 1 .. Len(xs) : Effect(xs[k], a, t) \in Int
  <2>1. \A k \in 1 .. Len(xs) : xs[k] \in TransferRecords  OBVIOUS
  <2> QED  BY <2>1, EffectType
<1> QED  BY <1>1 DEF Effects

LEMMA PayMoves ==
  ASSUME NEW b \in Ledgers, NEW x \in TransferRecords
  PROVE  /\ Pay(b, x) \in Ledgers
         /\ \A a \in Accounts, t \in Tokens : Pay(b, x)[a][t] = b[a][t] + Effect(x, a, t)
<1>1. x.token \in Tokens /\ x.from \in Accounts /\ x.to \in Accounts /\ x.amount \in Int
  BY DEF TransferRecords
<1>2. CASE x.from = x.to
  <2>1. Pay(b, x) = b  BY <1>2 DEF Pay
  <2>2. \A a \in Accounts, t \in Tokens : Effect(x, a, t) = 0 /\ b[a][t] \in Int
    BY <1>2 DEF Effect, Ledgers
  <2> QED  BY <2>1, <2>2
<1>3. CASE x.from # x.to
  <2> DEFINE out == [b[x.from] EXCEPT ![x.token] = @ - x.amount]
             into == [b[x.to] EXCEPT ![x.token] = @ + x.amount]
  <2>1. Pay(b, x) = [b EXCEPT ![x.from] = out, ![x.to] = into]  BY <1>1, <1>3 DEF Pay, Ledgers
  <2>2. b[x.from] \in [Tokens -> Int] /\ b[x.to] \in [Tokens -> Int]  BY <1>1 DEF Ledgers
  <2>3. /\ out \in [Tokens -> Int]
        /\ \A t \in Tokens : out[t] = IF t = x.token THEN b[x.from][t] - x.amount ELSE b[x.from][t]
    BY <1>1, <2>2
  <2>4. /\ into \in [Tokens -> Int]
        /\ \A t \in Tokens : into[t] = IF t = x.token THEN b[x.to][t] + x.amount ELSE b[x.to][t]
    BY <1>1, <2>2
  <2> HIDE DEF out, into
  <2>5. Pay(b, x) \in Ledgers  BY <1>1, <2>1, <2>3, <2>4 DEF Ledgers
  <2>6. \A a \in Accounts : Pay(b, x)[a] = IF a = x.to THEN into ELSE IF a = x.from THEN out ELSE b[a]
    BY <1>1, <1>3, <2>1 DEF Ledgers
  <2>7. ASSUME NEW a \in Accounts, NEW t \in Tokens PROVE Pay(b, x)[a][t] = b[a][t] + Effect(x, a, t)
    <3>1. b[a][t] \in Int  BY DEF Ledgers
    <3> QED  BY <1>1, <1>3, <2>3, <2>4, <2>6, <3>1 DEF Effect
  <2> QED  BY <2>5, <2>7
<1> QED  BY <1>2, <1>3

RunsUpTo(b, xs, n) ==
    {f \in [0 .. n -> Ledgers] : f[0] = b /\ \A k \in 1 .. n : f[k] = Pay(f[k - 1], xs[k])}

LEMMA RunsExist ==
  ASSUME NEW b \in Ledgers, NEW xs \in Seq(TransferRecords)
  PROVE  RunsUpTo(b, xs, Len(xs)) # {}
<1> DEFINE Good == {n \in 0 .. Len(xs) : RunsUpTo(b, xs, n) # {}}
<1>1. 0 \in Good
  <2>1. [k \in 0 .. 0 |-> b] \in RunsUpTo(b, xs, 0)  BY DEF RunsUpTo
  <2> QED  BY <2>1
<1>2. ASSUME NEW n \in 0 .. Len(xs), n + 1 \in 0 .. Len(xs), n \in Good PROVE n + 1 \in Good
  <2>1. PICK f : f \in RunsUpTo(b, xs, n)  BY <1>2
  <2>2. f \in [0 .. n -> Ledgers] /\ f[0] = b /\ \A k \in 1 .. n : f[k] = Pay(f[k - 1], xs[k])
    BY <2>1 DEF RunsUpTo
  <2> DEFINE g == [k \in 0 .. (n + 1) |-> IF k = n + 1 THEN Pay(f[n], xs[n + 1]) ELSE f[k]]
  <2>3. xs[n + 1] \in TransferRecords /\ f[n] \in Ledgers  BY <1>2, <2>2
  <2>4. Pay(f[n], xs[n + 1]) \in Ledgers  BY <2>3, PayMoves
  <2>5. g \in [0 .. (n + 1) -> Ledgers]  BY <2>2, <2>4
  <2>6. g[0] = b  BY <2>2
  <2>7. ASSUME NEW k \in 1 .. (n + 1) PROVE g[k] = Pay(g[k - 1], xs[k])
    <3>1. CASE k = n + 1  BY <3>1
    <3>2. CASE k # n + 1  BY <3>2, <2>2
    <3> QED  BY <3>1, <3>2
  <2> HIDE DEF g
  <2>8. g \in RunsUpTo(b, xs, n + 1)  BY <2>5, <2>6, <2>7 DEF RunsUpTo
  <2> QED  BY <1>2, <2>8
<1> HIDE DEF Good
<1>3. Len(xs) \in Nat /\ Len(xs) \in 0 .. Len(xs)  OBVIOUS
<1>4. Len(xs) \in Good  BY <1>1, <1>2, <1>3, UpTo
<1> QED  BY <1>4 DEF Good

LEMMA RunMoves ==
  ASSUME NEW b \in Ledgers, NEW xs \in Seq(TransferRecords)
  PROVE  /\ RunTransfers(b, xs) \in Ledgers
         /\ \A a \in Accounts, t \in Tokens :
               RunTransfers(b, xs)[a][t] = b[a][t] + SumOf(Effects(xs, a, t))
<1>1. PICK f : f \in RunsUpTo(b, xs, Len(xs))  BY RunsExist
<1>2. /\ f \in [0 .. Len(xs) -> Ledgers] /\ f[0] = b
      /\ \A k \in 1 .. Len(xs) : f[k] = Pay(f[k - 1], xs[k])
  BY <1>1 DEF RunsUpTo
<1>3. f = [n \in 0 .. Len(xs) |-> f[n]]  BY <1>2
<1>4. \A n \in 0 .. Len(xs) : f[n] = IF n = 0 THEN b ELSE Pay(f[n - 1], xs[n])  BY <1>2
<1>5. f = [n \in 0 .. Len(xs) |-> IF n = 0 THEN b ELSE Pay(f[n - 1], xs[n])]  BY <1>3, <1>4
<1> DEFINE p == CHOOSE g : g = [n \in 0 .. Len(xs) |-> IF n = 0 THEN b ELSE Pay(g[n - 1], xs[n])]
<1>6. p = [n \in 0 .. Len(xs) |-> IF n = 0 THEN b ELSE Pay(p[n - 1], xs[n])]  BY <1>5
<1>7. RunTransfers(b, xs) = p[Len(xs)]  BY DEF RunTransfers
<1> HIDE DEF p
<1>8. \A k \in 0 .. Len(xs) : p[k] = IF k = 0 THEN b ELSE Pay(p[k - 1], xs[k])  BY <1>6
<1> DEFINE Explained(n, a, t) == p[n][a][t] = b[a][t] + PartialSums(Effects(xs, a, t))[n]
           Good == {n \in 0 .. Len(xs) : /\ p[n] \in Ledgers
                                         /\ \A a \in Accounts, t \in Tokens : Explained(n, a, t)}
<1>9. 0 \in Good
  <2>1. p[0] = b  BY <1>8
  <2>2. ASSUME NEW a \in Accounts, NEW t \in Tokens PROVE Explained(0, a, t)
    <3>1. PartialSums(Effects(xs, a, t))[0] = 0  BY EffectsType, SumIs
    <3>2. b[a][t] \in Int  BY DEF Ledgers
    <3> QED  BY <2>1, <3>1, <3>2
  <2> QED  BY <2>1, <2>2
<1>10. ASSUME NEW n \in 0 .. Len(xs), n + 1 \in 0 .. Len(xs), n \in Good PROVE n + 1 \in Good
  <2>1. p[n + 1] = Pay(p[n], xs[n + 1]) /\ xs[n + 1] \in TransferRecords /\ p[n] \in Ledgers
    BY <1>8, <1>10
  <2>2. p[n + 1] \in Ledgers  BY <2>1, PayMoves
  <2>3. ASSUME NEW a \in Accounts, NEW t \in Tokens PROVE Explained(n + 1, a, t)
    <3> DEFINE v == Effects(xs, a, t)
    <3>1. v \in Seq(Int) /\ n \in 0 .. Len(v) /\ n + 1 \in 1 .. Len(v) /\ v[n + 1] = Effect(xs[n + 1], a, t)
      BY <1>10, EffectsType
    <3> HIDE DEF v
    <3>2. p[n + 1][a][t] = p[n][a][t] + v[n + 1]  BY <2>1, <3>1, PayMoves
    <3>3. PartialSums(v)[n + 1] = PartialSums(v)[(n + 1) - 1] + v[n + 1] /\ (n + 1) - 1 = n
      BY <3>1, SumIs
    <3>4. PartialSums(v)[n] \in Int  BY <3>1, SumIs
    <3>5. v[n + 1] \in Int /\ b[a][t] \in Int  BY <3>1 DEF Ledgers
    <3>6. p[n][a][t] = b[a][t] + PartialSums(v)[n]  BY <1>10 DEF v
    <3>7. p[n + 1][a][t] = b[a][t] + PartialSums(v)[n + 1]  BY <3>2, <3>3, <3>4, <3>5, <3>6
    <3> QED  BY <3>7 DEF v
  <2> QED  BY <1>10, <2>2, <2>3
<1>11. Len(xs) \in Good
  <2> HIDE DEF Good
  <2>1. Len(xs) \in Nat /\ Len(xs) \in 0 .. Len(xs)  OBVIOUS
  <2> QED  BY <1>9, <1>10, <2>1, UpTo
<1>12. ASSUME NEW a \in Accounts, NEW t \in Tokens
       PROVE  PartialSums(Effects(xs, a, t))[Len(xs)] = SumOf(Effects(xs, a, t))
  BY EffectsType, SumIs
<1> QED  BY <1>7, <1>11, <1>12

-----------------------------------------------------------------------------
(* What a batch pays. *)

LEMMA FeeType ==
  ASSUME NEW amount \in Nat, NEW bps \in 0 .. BpsUnit
  PROVE  Fee(amount, bps) \in Nat /\ Fee(amount, bps) <= amount
<1>1. BpsUnit \in Nat \ {0} /\ bps \in Nat  BY SettlementAssumption
<1>2. PICK a \in Nat : a = amount * bps  BY <1>1
<1>3. PICK q \in Nat : q = a \div BpsUnit /\ q * BpsUnit <= a  BY <1>1, FloorOf
<1>4. Fee(amount, bps) = q  BY <1>2, <1>3 DEF Fee
<1>5. bps * amount <= BpsUnit * amount  BY <1>1, FactorGrows
<1>6. bps * amount = a /\ BpsUnit * amount = amount * BpsUnit  BY <1>1, <1>2
<1>7. q * BpsUnit <= amount * BpsUnit
  <2>1. PICK x \in Nat, y \in Nat : x = q * BpsUnit /\ y = amount * BpsUnit  BY <1>1
  <2> QED  BY <2>1, <1>3, <1>5, <1>6
<1> QED  BY <1>1, <1>4, <1>7, FactorCancels

SumsOfBatch(payments) == [i \in DOMAIN payments |-> payments[i].amount]

SharesOf(payments, a) == [i \in DOMAIN payments |-> IF payments[i].to = a THEN payments[i].amount ELSE 0]

FeesOfBatch(payments, bps) == [i \in DOMAIN payments |-> Fee(payments[i].amount, bps)]

LEMMA BatchTypes ==
  ASSUME NEW payments \in Seq(PaymentRecords)
  PROVE  /\ \A k \in 1 .. Len(payments) : payments[k].to \in Accounts /\ payments[k].amount \in Nat
         /\ DOMAIN payments = 1 .. Len(payments) /\ Len(payments) \in Nat
         /\ SumsOfBatch(payments) \in Seq(Int) /\ Len(SumsOfBatch(payments)) = Len(payments)
         /\ \A a : SharesOf(payments, a) \in Seq(Int) /\ Len(SharesOf(payments, a)) = Len(payments)
         /\ \A bps : bps \in 0 .. BpsUnit => /\ FeesOfBatch(payments, bps) \in Seq(Int)
                                             /\ Len(FeesOfBatch(payments, bps)) = Len(payments)
<1>1. \A k \in 1 .. Len(payments) : payments[k] \in PaymentRecords  OBVIOUS
<1>2. \A k \in 1 .. Len(payments) : payments[k].to \in Accounts /\ payments[k].amount \in Nat
  BY <1>1 DEF PaymentRecords
<1>3. DOMAIN payments = 1 .. Len(payments) /\ Len(payments) \in Nat  OBVIOUS
<1>4. SumsOfBatch(payments) \in Seq(Int) /\ Len(SumsOfBatch(payments)) = Len(payments)
  BY <1>2, <1>3 DEF SumsOfBatch
<1>5. ASSUME NEW a PROVE SharesOf(payments, a) \in Seq(Int) /\ Len(SharesOf(payments, a)) = Len(payments)
  BY <1>2, <1>3 DEF SharesOf
<1>6. ASSUME NEW bps \in 0 .. BpsUnit
      PROVE  FeesOfBatch(payments, bps) \in Seq(Int) /\ Len(FeesOfBatch(payments, bps)) = Len(payments)
  <2>1. \A k \in 1 .. Len(payments) : Fee(payments[k].amount, bps) \in Int  BY <1>2, FeeType
  <2> QED  BY <1>3, <2>1 DEF FeesOfBatch
<1> QED  BY <1>2, <1>3, <1>4, <1>5, <1>6

LEMMA BatchSums ==
  ASSUME NEW payments \in Seq(PaymentRecords), NEW a
  PROVE  /\ TotalOf(payments) \in Nat /\ AmountTo(payments, a) \in Nat
         /\ \A bps \in 0 .. BpsUnit : FeesOf(payments, bps) \in Nat
         /\ (\A i \in DOMAIN payments : payments[i].to # a) => AmountTo(payments, a) = 0
<1>1. TotalOf(payments) = SumOf(SumsOfBatch(payments)) /\ AmountTo(payments, a) = SumOf(SharesOf(payments, a))
  BY DEF TotalOf, AmountTo, SumsOfBatch, SharesOf
<1>2. \A k \in 1 .. Len(payments) : SumsOfBatch(payments)[k] >= 0 /\ SharesOf(payments, a)[k] >= 0
  BY BatchTypes DEF SumsOfBatch, SharesOf
<1>3. TotalOf(payments) \in Nat
  <2>1. SumOf(SumsOfBatch(payments)) >= 0  BY <1>2, BatchTypes, SumOfNaturals
  <2>2. SumOf(SumsOfBatch(payments)) \in Int  BY BatchTypes, SumIs
  <2> QED  BY <1>1, <2>1, <2>2
<1>4. AmountTo(payments, a) \in Nat
  <2>1. SumOf(SharesOf(payments, a)) >= 0  BY <1>2, BatchTypes, SumOfNaturals
  <2>2. SumOf(SharesOf(payments, a)) \in Int  BY BatchTypes, SumIs
  <2> QED  BY <1>1, <2>1, <2>2
<1>5. ASSUME NEW bps \in 0 .. BpsUnit PROVE FeesOf(payments, bps) \in Nat
  <2>1. FeesOf(payments, bps) = SumOf(FeesOfBatch(payments, bps))  BY DEF FeesOf, FeesOfBatch
  <2>2. \A k \in 1 .. Len(payments) : FeesOfBatch(payments, bps)[k] >= 0
    BY BatchTypes, FeeType DEF FeesOfBatch
  <2>3. SumOf(FeesOfBatch(payments, bps)) >= 0  BY <2>2, BatchTypes, SumOfNaturals
  <2>4. SumOf(FeesOfBatch(payments, bps)) \in Int  BY BatchTypes, SumIs
  <2> QED  BY <2>1, <2>3, <2>4
<1>6. ASSUME \A i \in DOMAIN payments : payments[i].to # a PROVE AmountTo(payments, a) = 0
  <2>1. \A k \in 1 .. Len(payments) : SharesOf(payments, a)[k] = 0  BY <1>6, BatchTypes DEF SharesOf
  <2> QED  BY <1>1, <2>1, BatchTypes, SumOfNothing
<1> QED  BY <1>3, <1>4, <1>5, <1>6

\* The transfers of a batch give each recipient its amounts and take them from the contract.
LEMMA PaymentsMove ==
  ASSUME NEW c \in Accounts, NEW token \in Tokens, NEW payments \in Seq(PaymentRecords), NEW a, NEW t
  PROVE  /\ PaymentTransfers(c, token, payments) \in Seq(TransferRecords)
         /\ SumOf(Effects(PaymentTransfers(c, token, payments), a, t)) =
               IF t # token THEN 0
               ELSE AmountTo(payments, a) - (IF a = c THEN TotalOf(payments) ELSE 0)
<1> DEFINE xs == PaymentTransfers(c, token, payments)
           v == Effects(xs, a, t)
<1>1. xs = [i \in 1 .. Len(payments) |->
               [token |-> token, from |-> c, to |-> payments[i].to, amount |-> payments[i].amount]]
  BY BatchTypes DEF PaymentTransfers, Transfer
<1>2. \A i \in 1 .. Len(payments) :
         [token |-> token, from |-> c, to |-> payments[i].to, amount |-> payments[i].amount] \in TransferRecords
  BY BatchTypes DEF TransferRecords
<1>3. xs \in Seq(TransferRecords) /\ Len(xs) = Len(payments)  BY <1>1, <1>2, BatchTypes
<1>4. v \in Seq(Int) /\ Len(v) = Len(payments) /\ \A k \in 1 .. Len(payments) : v[k] = Effect(xs[k], a, t)
  BY <1>3, EffectsType
<1>5. ASSUME NEW k \in 1 .. Len(payments)
      PROVE  v[k] = IF c = payments[k].to \/ t # token THEN 0
                    ELSE (IF a = payments[k].to THEN payments[k].amount ELSE 0)
                         - (IF a = c THEN payments[k].amount ELSE 0)
  <2>1. v[k] = Effect(xs[k], a, t)  BY <1>4
  <2>2. /\ xs[k].token = token /\ xs[k].from = c /\ xs[k].to = payments[k].to
        /\ xs[k].amount = payments[k].amount
    BY <1>1
  <2> HIDE DEF xs, v
  <2> QED  BY <2>1, <2>2 DEF Effect
<1> HIDE DEF v, xs
<1> DEFINE sums == SumsOfBatch(payments)
           shares == SharesOf(payments, a)
<1>6. /\ sums \in Seq(Int) /\ shares \in Seq(Int) /\ Len(sums) = Len(payments) /\ Len(shares) = Len(payments)
      /\ TotalOf(payments) = SumOf(sums) /\ AmountTo(payments, a) = SumOf(shares)
      /\ SumOf(sums) \in Int /\ SumOf(shares) \in Int /\ SumOf(v) \in Int
  <2>1. TotalOf(payments) = SumOf(sums) /\ AmountTo(payments, a) = SumOf(shares)
    BY DEF TotalOf, AmountTo, SumsOfBatch, SharesOf
  <2>2. sums \in Seq(Int) /\ shares \in Seq(Int) /\ Len(sums) = Len(payments) /\ Len(shares) = Len(payments)
    BY BatchTypes
  <2> HIDE DEF sums, shares
  <2>3. SumOf(sums) \in Int /\ SumOf(shares) \in Int /\ SumOf(v) \in Int  BY <2>2, <1>4, SumIs
  <2> QED  BY <2>1, <2>2, <2>3
<1>7. \A k \in 1 .. Len(payments) :
         /\ sums[k] = payments[k].amount
         /\ shares[k] = IF payments[k].to = a THEN payments[k].amount ELSE 0
  BY BatchTypes DEF SumsOfBatch, SharesOf
<1> HIDE DEF sums, shares
<1>8. CASE t # token
  <2>1. \A k \in 1 .. Len(v) : v[k] = 0  BY <1>4, <1>5, <1>8
  <2>2. SumOf(v) = 0  BY <2>1, <1>4, SumOfNothing
  <2> QED  BY <1>3, <1>8, <2>2 DEF v, xs
<1>9. CASE t = token /\ a # c
  <2>1. ASSUME NEW k \in 1 .. Len(shares) PROVE v[k] = shares[k]
    <3>1. k \in 1 .. Len(payments) /\ payments[k].amount \in Nat  BY <1>6, BatchTypes
    <3> QED  BY <3>1, <1>5, <1>7, <1>9
  <2>2. SumOf(v) = SumOf(shares)  BY <2>1, <1>4, <1>6, SumSame
  <2>3. SumOf(v) = AmountTo(payments, a) - 0  BY <2>2, <1>6
  <2> QED  BY <1>3, <1>9, <2>3 DEF v, xs
<1>10. CASE t = token /\ a = c
  <2>1. ASSUME NEW k \in 1 .. Len(shares) PROVE shares[k] = v[k] + sums[k]
    <3>1. k \in 1 .. Len(payments) /\ payments[k].amount \in Nat  BY <1>6, BatchTypes
    <3> QED  BY <3>1, <1>5, <1>7, <1>10
  <2>2. SumOf(shares) = SumOf(v) + SumOf(sums)  BY <2>1, <1>4, <1>6, SumAdds
  <2>3. SumOf(v) = AmountTo(payments, a) - TotalOf(payments)  BY <2>2, <1>6
  <2> QED  BY <1>3, <1>10, <2>3 DEF v, xs
<1> QED  BY <1>8, <1>9, <1>10

LEMMA FirstAndRest ==
  ASSUME NEW x \in TransferRecords, NEW xs \in Seq(TransferRecords), NEW a, NEW t
  PROVE  /\ <<x>> \o xs \in Seq(TransferRecords) /\ xs \o <<x>> \in Seq(TransferRecords)
         /\ SumOf(Effects(<<x>> \o xs, a, t)) = Effect(x, a, t) + SumOf(Effects(xs, a, t))
         /\ SumOf(Effects(xs \o <<x>>, a, t)) = SumOf(Effects(xs, a, t)) + Effect(x, a, t)
<1>1. <<x>> \in Seq(TransferRecords) /\ Len(<<x>>) = 1 /\ <<x>>[1] = x  OBVIOUS
<1>2. PICK one : one = <<x>>  OBVIOUS
<1> DEFINE f == one \o xs
           l == xs \o one
<1>3. f \in Seq(TransferRecords) /\ l \in Seq(TransferRecords) /\ Len(f) = Len(xs) + 1 /\ Len(l) = Len(xs) + 1
  BY <1>1, <1>2
<1>4. f[1] = x /\ l[Len(xs) + 1] = x /\ \A k \in 1 .. Len(xs) : f[k + 1] = xs[k] /\ l[k] = xs[k]
  BY <1>1, <1>2
<1> HIDE DEF f, l
<1> DEFINE v == Effects(xs, a, t)
           vf == Effects(f, a, t)
           vl == Effects(l, a, t)
<1>5. v \in Seq(Int) /\ Len(v) = Len(xs) /\ \A k \in 1 .. Len(xs) : v[k] = Effect(xs[k], a, t)
  BY EffectsType
<1>6. vf \in Seq(Int) /\ Len(vf) = Len(xs) + 1 /\ \A k \in 1 .. (Len(xs) + 1) : vf[k] = Effect(f[k], a, t)
  BY <1>3, EffectsType
<1>7. vl \in Seq(Int) /\ Len(vl) = Len(xs) + 1 /\ \A k \in 1 .. (Len(xs) + 1) : vl[k] = Effect(l[k], a, t)
  BY <1>3, EffectsType
<1> HIDE DEF v, vf, vl
<1>8. \A k \in 1 .. Len(v) : vf[k + 1] = v[k]  BY <1>4, <1>5, <1>6
<1>9. \A k \in 1 .. Len(v) : vl[k] = v[k]  BY <1>4, <1>5, <1>7
<1>10. vf[1] = Effect(x, a, t) /\ vl[Len(vl)] = Effect(x, a, t)  BY <1>4, <1>6, <1>7
<1>11. SumOf(vf) = vf[1] + SumOf(v)  BY <1>5, <1>6, <1>8, SumPrepend
<1>12. SumOf(vl) = SumOf(v) + vl[Len(vl)]  BY <1>5, <1>7, <1>9, SumAppend
<1> QED  BY <1>2, <1>3, <1>10, <1>11, <1>12 DEF f, l, v, vf, vl

LEMMA ThreeTransfers ==
  ASSUME NEW x \in TransferRecords, NEW y \in TransferRecords, NEW z \in TransferRecords, NEW a, NEW t
  PROVE  /\ <<x, y, z>> \in Seq(TransferRecords)
         /\ SumOf(Effects(<<x, y, z>>, a, t)) = Effect(x, a, t) + Effect(y, a, t) + Effect(z, a, t)
<1>1. PICK xs : xs = <<x, y, z>>  OBVIOUS
<1>2. xs \in Seq(TransferRecords) /\ Len(xs) = 3 /\ xs[1] = x /\ xs[2] = y /\ xs[3] = z  BY <1>1
<1> DEFINE v == Effects(xs, a, t)
<1>3. v \in Seq(Int) /\ Len(v) = 3 /\ v[1] = Effect(x, a, t) /\ v[2] = Effect(y, a, t) /\ v[3] = Effect(z, a, t)
  BY <1>2, EffectsType
<1> HIDE DEF v
<1> DEFINE p == PartialSums(v)
<1>4. /\ p[0] = 0 /\ p[1] = p[1 - 1] + v[1] /\ p[2] = p[2 - 1] + v[2] /\ p[3] = p[3 - 1] + v[3]
      /\ SumOf(v) = p[3]
  BY <1>3, SumIs
<1>5. v[1] \in Int /\ v[2] \in Int /\ v[3] \in Int
  <2>1. Effect(x, a, t) \in Int /\ Effect(y, a, t) \in Int /\ Effect(z, a, t) \in Int  BY EffectType
  <2> QED  BY <1>3, <2>1
<1> HIDE DEF p
<1>6. SumOf(v) = v[1] + v[2] + v[3]  BY <1>4, <1>5
<1> QED  BY <1>1, <1>2, <1>3, <1>6 DEF v

\* The direct contract's fees come out of the amounts.
LEMMA EstimatesAdd ==
  ASSUME NEW payments \in Seq(PaymentRecords), terms.bps \in 0 .. BpsUnit
  PROVE  /\ EstimatedOutputs(payments) \in Seq(PaymentRecords)
         /\ DOMAIN EstimatedOutputs(payments) = DOMAIN payments
         /\ \A i \in DOMAIN payments : EstimatedOutputs(payments)[i].to = payments[i].to
         /\ TotalOf(EstimatedOutputs(payments)) = TotalOf(payments) - FeesOf(payments, terms.bps)
<1> DEFINE net == EstimatedOutputs(payments)
<1>1. ASSUME NEW k \in 1 .. Len(payments)
      PROVE  [payments[k] EXCEPT !.amount = @ - Fee(@, terms.bps)] \in PaymentRecords
  <2>1. payments[k] \in PaymentRecords /\ payments[k].amount \in Nat  BY BatchTypes
  <2>2. payments[k].amount - Fee(payments[k].amount, terms.bps) \in Nat
    <3>1. PICK m \in Nat : m = payments[k].amount  BY <2>1
    <3>2. PICK f \in Nat : f = Fee(m, terms.bps) /\ f <= m  BY FeeType
    <3> QED  BY <3>1, <3>2
  <2> QED  BY <2>1, <2>2 DEF PaymentRecords
<1>2. net = [k \in 1 .. Len(payments) |-> [payments[k] EXCEPT !.amount = @ - Fee(@, terms.bps)]]
  BY BatchTypes DEF EstimatedOutputs
<1>3. net \in Seq(PaymentRecords) /\ Len(net) = Len(payments)
  <2>1. net \in [1 .. Len(payments) -> PaymentRecords]  BY <1>1, <1>2
  <2>2. PICK n \in Nat : n = Len(payments)  OBVIOUS
  <2> HIDE DEF net
  <2>3. \A S : \A m \in Nat : \A f \in [1 .. m -> S] : f \in Seq(S) /\ Len(f) = m  OBVIOUS
  <2> QED  BY <2>1, <2>2, <2>3
<1>4. ASSUME NEW k \in 1 .. Len(payments)
      PROVE  /\ net[k].amount = payments[k].amount - Fee(payments[k].amount, terms.bps)
             /\ net[k].to = payments[k].to
  <2>1. payments[k] \in PaymentRecords  OBVIOUS
  <2> QED  BY <1>2, <2>1 DEF PaymentRecords
<1> HIDE DEF net
<1> DEFINE u == SumsOfBatch(net)
           v == FeesOfBatch(payments, terms.bps)
           w == SumsOfBatch(payments)
<1>5. u \in Seq(Int) /\ v \in Seq(Int) /\ w \in Seq(Int) /\ Len(u) = Len(w) /\ Len(v) = Len(w) /\ Len(w) = Len(payments)
  BY <1>3, BatchTypes
<1>6. ASSUME NEW k \in 1 .. Len(w) PROVE w[k] = u[k] + v[k]
  <2>1. k \in 1 .. Len(payments) /\ k \in DOMAIN payments /\ k \in DOMAIN net  BY <1>3, <1>5
  <2>2. w[k] = payments[k].amount /\ u[k] = net[k].amount /\ v[k] = Fee(payments[k].amount, terms.bps)
    BY <2>1 DEF SumsOfBatch, FeesOfBatch
  <2>3. payments[k].amount \in Nat  BY <2>1, BatchTypes
  <2>4. Fee(payments[k].amount, terms.bps) \in Nat  BY <2>3, FeeType
  <2> QED  BY <2>1, <2>2, <2>3, <2>4, <1>4
<1>7. TotalOf(net) = SumOf(u) /\ FeesOf(payments, terms.bps) = SumOf(v) /\ TotalOf(payments) = SumOf(w)
  BY DEF TotalOf, FeesOf, SumsOfBatch, FeesOfBatch
<1> HIDE DEF u, v, w
<1>8. SumOf(w) = SumOf(u) + SumOf(v)  BY <1>5, <1>6, SumAdds
<1>9. SumOf(u) \in Int /\ SumOf(v) \in Int  BY <1>5, SumIs
<1>10. DOMAIN net = DOMAIN payments /\ \A i \in DOMAIN payments : net[i].to = payments[i].to
  BY <1>3, <1>4, BatchTypes
<1> QED  BY <1>3, <1>7, <1>8, <1>9, <1>10 DEF net

-----------------------------------------------------------------------------
(* What a call moves. *)

ReceiptRecords ==
    [contract : Contracts, employer : Employers, ref : Refs \cup {"none"}, tokenIn : Tokens,
     input : Nat, tokenOut : Tokens, payments : Seq(PaymentRecords), fees : Nat,
     feeTo : Collectors, back : Nat]

Parties == Employers \cup Staff \cup Collectors

LEMMA PartiesDiffer ==
  /\ Contracts \subseteq Accounts /\ Parties \subseteq Accounts /\ "pool" \in Accounts
  /\ Accounts = Parties \cup Contracts \cup {"pool"}
  /\ Parties \cap Contracts = {} /\ "pool" \notin Parties \cup Contracts
  /\ Owner \in Collectors
BY SettlementAssumption DEF Accounts, Parties, Contracts, Collectors, Owner

LEMMA TransferType ==
  ASSUME NEW token \in Tokens, NEW from \in Accounts, NEW to \in Accounts, NEW amount \in Int
  PROVE  /\ Transfer(token, from, to, amount) \in TransferRecords
         /\ \A a, t : Effect(Transfer(token, from, to, amount), a, t) =
               IF from = to \/ t # token THEN 0
               ELSE (IF a = to THEN amount ELSE 0) - (IF a = from THEN amount ELSE 0)
BY DEF Transfer, TransferRecords, Effect

LEMMA BatchIsPayments ==
  ASSUME NEW c \in Contracts, NEW e \in Employers, NEW payments \in Batches(c, e)
  PROVE  /\ payments \in Seq(PaymentRecords)
         /\ \A i \in DOMAIN payments : payments[i].to \in Staff \cup {e, c}
<1>1. PICK n \in 1 .. 2 : payments \in [1 .. n -> [to : Staff \cup {e, c}, amount : Amounts]]
  BY DEF Batches
<1>2. n \in Nat /\ MaxAmount \in Nat  BY SettlementAssumption
<1>3. [to : Staff \cup {e, c}, amount : Amounts] \subseteq PaymentRecords
  BY <1>2, PartiesDiffer DEF PaymentRecords, Accounts, Amounts
<1>4. payments \in [1 .. n -> PaymentRecords]  BY <1>1, <1>3
<1>5. \A i \in 1 .. n : payments[i].to \in Staff \cup {e, c}  BY <1>1
<1> QED  BY <1>1, <1>2, <1>4, <1>5

\* A batch that its employer funds: executeSameTokenPayroll, batchRouteAndPay.
LEMMA FundedBatchMoves ==
  ASSUME ledger \in Ledgers, NEW c \in Contracts, NEW e \in Employers, NEW token \in Tokens,
         NEW payments \in Seq(PaymentRecords), NEW gross \in Nat, NEW fee \in Nat,
         NEW collector \in Collectors, NEW after,
         after = RunTransfers(Pay(ledger, Transfer(token, e, c, gross)),
                     <<Transfer(token, c, collector, fee)>> \o PaymentTransfers(c, token, payments))
  PROVE  /\ after \in Ledgers
         /\ \A a \in Accounts, t \in Tokens :
               after[a][t] = ledger[a][t] +
                  (IF t # token THEN 0
                   ELSE AmountTo(payments, a) + (IF a = collector THEN fee ELSE 0)
                        - (IF a = e THEN gross ELSE 0)
                        + (IF a = c THEN gross - fee - TotalOf(payments) ELSE 0))
<1> DEFINE x == Transfer(token, e, c, gross)
           y == Transfer(token, c, collector, fee)
           ps == PaymentTransfers(c, token, payments)
<1>1. c \in Accounts /\ e \in Accounts /\ collector \in Accounts /\ c # e /\ c # collector
  BY PartiesDiffer DEF Parties
<1>2. x \in TransferRecords /\ y \in TransferRecords  BY <1>1, TransferType
<1>3. ps \in Seq(TransferRecords)  BY <1>1, PaymentsMove
<1>4. ASSUME NEW a \in Accounts, NEW t \in Tokens
      PROVE  /\ Effect(x, a, t) = IF t # token THEN 0
                                ELSE (IF a = c THEN gross ELSE 0) - (IF a = e THEN gross ELSE 0)
             /\ Effect(y, a, t) = IF t # token THEN 0
                                ELSE (IF a = collector THEN fee ELSE 0) - (IF a = c THEN fee ELSE 0)
             /\ SumOf(Effects(ps, a, t)) =
                   IF t # token THEN 0
                   ELSE AmountTo(payments, a) - (IF a = c THEN TotalOf(payments) ELSE 0)
  BY <1>1, TransferType, PaymentsMove
<1> HIDE DEF x, y, ps
<1>5. /\ Pay(ledger, x) \in Ledgers
      /\ \A a \in Accounts, t \in Tokens : Pay(ledger, x)[a][t] = ledger[a][t] + Effect(x, a, t)
  BY <1>2, PayMoves
<1>6. PICK b \in Ledgers, xs \in Seq(TransferRecords) : b = Pay(ledger, x) /\ xs = <<y>> \o ps
  BY <1>2, <1>3, <1>5, FirstAndRest
<1>7. after = RunTransfers(b, xs)  BY <1>6 DEF x, y, ps
<1>8. /\ after \in Ledgers
      /\ \A a \in Accounts, t \in Tokens :
            after[a][t] = b[a][t] + SumOf(Effects(xs, a, t))
  <2>1. /\ RunTransfers(b, xs) \in Ledgers
        /\ \A a \in Accounts, t \in Tokens :
              RunTransfers(b, xs)[a][t] = b[a][t] + SumOf(Effects(xs, a, t))
    BY RunMoves
  <2> QED  BY <1>7, <2>1
<1>9. ASSUME NEW a \in Accounts, NEW t \in Tokens
      PROVE  after[a][t] = ledger[a][t] +
                  (IF t # token THEN 0
                   ELSE AmountTo(payments, a) + (IF a = collector THEN fee ELSE 0)
                        - (IF a = e THEN gross ELSE 0)
                        + (IF a = c THEN gross - fee - TotalOf(payments) ELSE 0))
  <2>1. SumOf(Effects(xs, a, t)) = Effect(y, a, t) + SumOf(Effects(ps, a, t))
    BY <1>2, <1>3, <1>6, FirstAndRest
  <2>2. after[a][t] = ledger[a][t] + Effect(x, a, t) + (Effect(y, a, t) + SumOf(Effects(ps, a, t)))
    BY <1>5, <1>6, <1>8, <2>1
  <2>3. PICK had \in Int, share \in Int, total \in Int :
           had = ledger[a][t] /\ share = AmountTo(payments, a) /\ total = TotalOf(payments)
    <3>1. ledger[a][t] \in Int  BY DEF Ledgers
    <3>2. AmountTo(payments, a) \in Nat /\ TotalOf(payments) \in Nat  BY BatchSums
    <3> QED  BY <3>1, <3>2
  <2>4. CASE t # token
    <3>1. Effect(x, a, t) = 0 /\ Effect(y, a, t) = 0 /\ SumOf(Effects(ps, a, t)) = 0  BY <1>4, <2>4
    <3> QED  BY <2>2, <2>3, <2>4, <3>1
  <2>5. CASE t = token /\ a = c
    <3>1. Effect(x, a, t) = gross - 0 /\ Effect(y, a, t) = 0 - fee /\ SumOf(Effects(ps, a, t)) = share - total
      BY <1>1, <1>4, <2>3, <2>5
    <3>2. after[a][t] = had + (share + 0 - 0 + (gross - fee - total))  BY <2>2, <2>3, <3>1
    <3> QED  BY <1>1, <2>3, <2>5, <3>2
  <2>6. CASE t = token /\ a # c
    <3>1. /\ Effect(x, a, t) = 0 - (IF a = e THEN gross ELSE 0)
          /\ Effect(y, a, t) = (IF a = collector THEN fee ELSE 0) - 0
          /\ SumOf(Effects(ps, a, t)) = share - 0
      BY <1>4, <2>3, <2>6
    <3>2. PICK out \in Int, charged \in Int :
             out = (IF a = e THEN gross ELSE 0) /\ charged = (IF a = collector THEN fee ELSE 0)
      OBVIOUS
    <3>3. Effect(x, a, t) = 0 - out /\ Effect(y, a, t) = charged - 0  BY <3>1, <3>2
    <3>4. after[a][t] = had + (0 - out) + ((charged - 0) + (share - 0))  BY <2>2, <2>3, <3>1, <3>3
    <3>5. had + (0 - out) + ((charged - 0) + (share - 0)) = had + (share + charged - out + 0)
      BY Regrouped
    <3> QED  BY <2>3, <2>6, <3>2, <3>4, <3>5
  <2> QED  BY <2>4, <2>5, <2>6
<1> QED  BY <1>8, <1>9

\* The input of a swap.
LEMMA InputLegMoves ==
  ASSUME ledger \in Ledgers, NEW c \in Contracts, NEW e \in Employers, NEW token \in Tokens,
         NEW gross \in Nat, NEW router \in RouterOutcomes, NEW after,
         after = InputLeg(ledger, c, e, token, gross, router)
  PROVE  /\ after \in Ledgers
         /\ Fee(gross, FeeBps) \in Nat
         /\ \A a \in Parties, t \in Tokens :
               after[a][t] = ledger[a][t] +
                  (IF t # token THEN 0
                   ELSE (IF a = Owner THEN Fee(gross, FeeBps) ELSE 0) - (IF a = e THEN gross ELSE 0))
         /\ \A a \in Contracts, t \in Tokens :
               a # c \/ t # token => after[a][t] = ledger[a][t]
<1>1. PICK fee \in Nat : fee = Fee(gross, FeeBps)
  <2>1. FeeBps \in 0 .. BpsUnit  BY SettlementAssumption
  <2> QED  BY <2>1, FeeType
<1>2. PICK kept \in Int : kept = Kept(gross - fee, router)
  <2>1. Kept(gross - fee, router) \in Int  BY DEF Kept
  <2> QED  BY <2>1
<1>3. c \in Accounts /\ e \in Accounts /\ Owner \in Accounts /\ "pool" \in Accounts
      /\ c # e /\ c # Owner /\ c # "pool" /\ e # "pool" /\ Owner # "pool"
  BY PartiesDiffer DEF Parties
<1> DEFINE x == Transfer(token, e, c, gross)
           y == Transfer(token, c, Owner, fee)
           z == Transfer(token, c, "pool", kept)
<1>4. x \in TransferRecords /\ y \in TransferRecords /\ z \in TransferRecords  BY <1>3, TransferType
<1>5. ASSUME NEW a \in Accounts, NEW t \in Tokens
      PROVE  /\ Effect(x, a, t) = IF t # token THEN 0
                                ELSE (IF a = c THEN gross ELSE 0) - (IF a = e THEN gross ELSE 0)
             /\ Effect(y, a, t) = IF t # token THEN 0
                                ELSE (IF a = Owner THEN fee ELSE 0) - (IF a = c THEN fee ELSE 0)
             /\ Effect(z, a, t) = IF t # token THEN 0
                                ELSE (IF a = "pool" THEN kept ELSE 0) - (IF a = c THEN kept ELSE 0)
  BY <1>3, TransferType
<1>6. after = RunTransfers(ledger, <<x, y, z>>)  BY <1>1, <1>2 DEF InputLeg
<1> HIDE DEF x, y, z
<1>7. PICK xs \in Seq(TransferRecords) : xs = <<x, y, z>>  BY <1>4, ThreeTransfers
<1>8. /\ after \in Ledgers
      /\ \A a \in Accounts, t \in Tokens : after[a][t] = ledger[a][t] + SumOf(Effects(xs, a, t))
  <2>1. after = RunTransfers(ledger, xs)  BY <1>6, <1>7
  <2>2. /\ RunTransfers(ledger, xs) \in Ledgers
        /\ \A a \in Accounts, t \in Tokens :
              RunTransfers(ledger, xs)[a][t] = ledger[a][t] + SumOf(Effects(xs, a, t))
    BY RunMoves
  <2> QED  BY <2>1, <2>2
<1>9. ASSUME NEW a \in Accounts, NEW t \in Tokens
      PROVE  /\ after[a][t] = ledger[a][t] + (Effect(x, a, t) + Effect(y, a, t) + Effect(z, a, t))
             /\ ledger[a][t] \in Int
  BY <1>4, <1>7, <1>8, ThreeTransfers DEF Ledgers
<1>10. ASSUME NEW a \in Parties, NEW t \in Tokens
       PROVE  after[a][t] = ledger[a][t] +
                  (IF t # token THEN 0 ELSE (IF a = Owner THEN fee ELSE 0) - (IF a = e THEN gross ELSE 0))
  <2>1. a \in Accounts /\ a # c /\ a # "pool"  BY PartiesDiffer
  <2> QED  BY <1>5, <1>9, <2>1
<1>11. ASSUME NEW a \in Contracts, NEW t \in Tokens, a # c \/ t # token
       PROVE  after[a][t] = ledger[a][t]
  <2>1. a \in Accounts /\ a # e /\ a # "pool" /\ a # Owner  BY PartiesDiffer DEF Parties
  <2> QED  BY <1>5, <1>9, <1>11, <2>1
<1> QED  BY <1>1, <1>8, <1>10, <1>11

\* The events of r account for a step: what they say moved has moved, and nothing else.
Settles(r) ==
    /\ r \in ReceiptRecords /\ receipts' = Append(receipts, r)
    /\ ledger' \in Ledgers /\ Covered(ledger')
    /\ \A a \in Parties, t \in Tokens : ledger'[a][t] = ledger[a][t] + Received(r, a, t)
    /\ \A a \in Contracts, t \in Tokens : ledger'[a][t] = ledger[a][t] /\ PaidInto(r, a, t) = 0

\* A call of c by r.employer that left no residue and was covered settles its receipt.
LEMMA CallSettles ==
  ASSUME Covered(ledger), ledger \in Ledgers, ledger' \in Ledgers,
         NEW c \in Contracts, NEW r \in ReceiptRecords, receipts' = Append(receipts, r),
         NoResidue(c, ledger'),
         ledger[r.employer][r.tokenIn] >= r.input,
         \A i \in DOMAIN r.payments : r.payments[i].to \in Parties \cup {c},
         AmountTo(r.payments, c) = 0,
         \A a \in Parties, t \in Tokens : ledger'[a][t] = ledger[a][t] + Received(r, a, t),
         \A a \in Contracts, t \in Tokens : a # c => ledger'[a][t] = ledger[a][t]
  PROVE  Settles(r)
<1>1. /\ r.payments \in Seq(PaymentRecords) /\ r.input \in Nat /\ r.fees \in Nat /\ r.back \in Nat
      /\ r.tokenIn \in Tokens /\ r.tokenOut \in Tokens /\ r.employer \in Employers
  BY DEF ReceiptRecords
<1>2. \A a \in Contracts, t \in Tokens : ledger'[a][t] = ledger[a][t]  BY DEF NoResidue
<1>3. ASSUME NEW a \in Contracts, NEW t \in Tokens PROVE PaidInto(r, a, t) = 0
  <2>1. CASE a = c  BY <2>1 DEF PaidInto
  <2>2. CASE a # c
    <3>1. \A i \in DOMAIN r.payments : r.payments[i].to # a  BY <2>2, PartiesDiffer
    <3>2. AmountTo(r.payments, a) = 0  BY <1>1, <3>1, BatchSums
    <3> QED  BY <3>2 DEF PaidInto
  <2> QED  BY <2>1, <2>2
<1>4. ASSUME NEW a \in Parties, NEW t \in Tokens PROVE ledger'[a][t] >= 0
  <2>1. a \in Accounts /\ a # "pool"  BY PartiesDiffer
  <2>2. PICK had \in Int : had = ledger[a][t] /\ had >= 0  BY <2>1 DEF Covered, Ledgers
  <2>3. PICK paid \in Nat : paid = PaidInto(r, a, t)
    <3>1. AmountTo(r.payments, a) \in Nat  BY <1>1, BatchSums
    <3> QED  BY <3>1 DEF PaidInto
  <2>4. PICK back \in Nat : back = (IF t = r.tokenOut /\ a = r.employer THEN r.back ELSE 0)  BY <1>1
  <2>5. PICK fees \in Nat : fees = (IF t = r.tokenIn /\ a = r.feeTo THEN r.fees ELSE 0)  BY <1>1
  <2>6. PICK spent \in Nat : spent = (IF t = r.tokenIn /\ a = r.employer THEN r.input ELSE 0) /\ had >= spent
    BY <1>1, <2>2
  <2>7. ledger'[a][t] = had + (paid + back + fees - spent)  BY <2>2, <2>3, <2>4, <2>5, <2>6 DEF Received
  <2> QED  BY <2>2, <2>6, <2>7
<1>5. Covered(ledger')
  <2>1. ASSUME NEW a \in Accounts \ {"pool"}, NEW t \in Tokens PROVE ledger'[a][t] >= 0
    <3>1. CASE a \in Contracts  BY <3>1, <1>2 DEF Covered
    <3>2. CASE a \in Parties  BY <3>2, <1>4
    <3> QED  BY <3>1, <3>2, PartiesDiffer
  <2> QED  BY <2>1 DEF Covered
<1> QED  BY <1>2, <1>3, <1>5 DEF Settles

EmployerLedger == ledger \in Ledgers /\ Covered(ledger)

\* A batch that its employer funds and that leaves no residue: the amounts and the
\* fee are all that was taken.
LEMMA FundedCallSettles ==
  ASSUME EmployerLedger, NEW c \in Contracts, NEW e \in Employers, NEW token \in Tokens,
         NEW payments \in Seq(PaymentRecords), \A i \in DOMAIN payments : payments[i].to \in Staff \cup {e, c},
         NEW ref \in Refs, NEW gross \in Nat, NEW f \in Nat, NEW collector \in Collectors,
         gross = TotalOf(payments) + f,
         ledger' = RunTransfers(Pay(ledger, Transfer(token, e, c, gross)),
                       <<Transfer(token, c, collector, f)>> \o PaymentTransfers(c, token, payments)),
         Covered(Pay(ledger, Transfer(token, e, c, gross))), NoResidue(c, ledger'),
         Emit(c, e, ref, token, gross, token, payments, f, collector, 0)
  PROVE  \E r : Settles(r)
<1> DEFINE r == [contract |-> c, employer |-> e, ref |-> ref, tokenIn |-> token,
                 input |-> gross, tokenOut |-> token, payments |-> payments, fees |-> f,
                 feeTo |-> collector, back |-> 0]
<1>1. c \in Accounts /\ e \in Accounts /\ c # e /\ c # collector  BY PartiesDiffer DEF Parties
<1>4. receipts' = Append(receipts, r)  BY DEF Emit
<1>6. r \in ReceiptRecords  BY DEF ReceiptRecords
<1>7. /\ r.payments = payments /\ r.tokenIn = token /\ r.tokenOut = token /\ r.employer = e
      /\ r.feeTo = collector /\ r.input = gross /\ r.fees = f /\ r.back = 0
  OBVIOUS
<1> HIDE DEF r
<1>9. /\ ledger' \in Ledgers
      /\ \A a \in Accounts, t \in Tokens :
               ledger'[a][t] = ledger[a][t] +
                  (IF t # token THEN 0
                   ELSE AmountTo(payments, a) + (IF a = collector THEN f ELSE 0)
                        - (IF a = e THEN gross ELSE 0)
                        + (IF a = c THEN gross - f - TotalOf(payments) ELSE 0))
  BY FundedBatchMoves DEF EmployerLedger
<1>8. AmountTo(payments, c) = 0
  <2>1. PICK had \in Int, share \in Nat, total \in Nat :
           had = ledger[c][token] /\ share = AmountTo(payments, c) /\ total = TotalOf(payments)
    BY <1>1, BatchSums DEF EmployerLedger, Ledgers
  <2>2. ledger'[c][token] = had + (share + 0 - 0 + (gross - f - total))  BY <1>1, <1>9, <2>1
  <2>3. ledger'[c][token] = had  BY <2>1 DEF NoResidue
  <2>4. gross = total + f  BY <2>1
  <2>5. had = had + (share + 0 - 0 + (gross - f - total))  BY <2>2, <2>3
  <2>6. gross - f - total = 0  BY <2>1, <2>4
  <2>7. share = 0
    <3>1. had = had + (share + 0 - 0 + 0)  BY <2>5, <2>6
    <3> QED  BY <2>1, <3>1
  <2> QED  BY <2>1, <2>7
<1>10. ASSUME NEW a \in Parties, NEW t \in Tokens PROVE ledger'[a][t] = ledger[a][t] + Received(r, a, t)
  <2>1. a \in Accounts /\ a # c  BY <1>1, PartiesDiffer
  <2>2. PICK had \in Int, share \in Nat : had = ledger[a][t] /\ share = AmountTo(payments, a)
    <3>1. ledger[a][t] \in Int  BY <2>1 DEF EmployerLedger, Ledgers
    <3>2. AmountTo(payments, a) \in Nat  BY BatchSums
    <3> QED  BY <3>1, <3>2
  <2>3. CASE t # token
    <3>1. Received(r, a, t) = 0  BY <1>7, <2>3 DEF Received, PaidInto
    <3> QED  BY <1>9, <2>1, <2>3, <3>1
  <2>4. CASE t = token
    <3>1. PICK charged \in Nat, spent \in Nat :
             charged = (IF a = collector THEN f ELSE 0) /\ spent = (IF a = e THEN gross ELSE 0)
      OBVIOUS
    <3>2. ledger'[a][t] = had + (share + charged - spent + 0)  BY <1>9, <2>1, <2>2, <2>4, <3>1
    <3>3. Received(r, a, t) = share + 0 + charged - spent
      BY <1>7, <2>2, <2>4, <3>1 DEF Received, PaidInto
    <3> QED  BY <2>2, <3>2, <3>3
  <2> QED  BY <2>3, <2>4
<1>11. ASSUME NEW a \in Contracts, NEW t \in Tokens, a # c PROVE ledger'[a][t] = ledger[a][t]
  <2>1. a \in Accounts /\ a # collector /\ a # e  BY <1>1, PartiesDiffer DEF Parties
  <2>2. AmountTo(payments, a) = 0
    <3>1. \A i \in DOMAIN payments : payments[i].to # a  BY <1>11, PartiesDiffer DEF Parties
    <3> QED  BY <3>1, BatchSums
  <2>3. PICK had \in Int : had = ledger[a][t]  BY <2>1 DEF EmployerLedger, Ledgers
  <2>4. ledger'[a][t] = had + (IF t # token THEN 0 ELSE 0 + 0 - 0 + 0)  BY <1>9, <1>11, <2>1, <2>2, <2>3
  <2> QED  BY <2>3, <2>4
<1>12. ledger[e][token] >= gross
  <2>1. PICK x \in TransferRecords : x = Transfer(token, e, c, gross)  BY <1>1, TransferType
  <2>2. e # "pool"  BY PartiesDiffer DEF Parties
  <2>3. Effect(x, e, token) = 0 - gross  BY <1>1, <2>1, TransferType
  <2>4. Pay(ledger, x)[e][token] = ledger[e][token] + (0 - gross)  BY <1>1, <2>3, PayMoves DEF EmployerLedger
  <2>5. Pay(ledger, x)[e][token] >= 0  BY <1>1, <2>1, <2>2 DEF Covered
  <2>6. ledger[e][token] \in Int  BY <1>1 DEF EmployerLedger, Ledgers
  <2> QED  BY <2>4, <2>5, <2>6
<1>13. \A i \in DOMAIN payments : payments[i].to \in Parties \cup {c}  BY DEF Parties
<1>14. /\ ledger[r.employer][r.tokenIn] >= r.input /\ AmountTo(r.payments, c) = 0
       /\ \A i \in DOMAIN r.payments : r.payments[i].to \in Parties \cup {c}
  BY <1>7, <1>8, <1>12, <1>13
<1>15. Settles(r)  BY <1>4, <1>6, <1>9, <1>10, <1>11, <1>14, CallSettles DEF EmployerLedger
<1> QED  BY <1>15

LEMMA SameTokenSettles ==
  ASSUME EmployerLedger, NEW e \in Employers, NEW token \in Tokens,
         NEW payments \in Batches("payroll", e), NEW ref \in Refs,
         SameTokenPayroll(e, token, payments, ref)
  PROVE  \E r : Settles(r)
<1>1. "payroll" \in Contracts /\ Owner \in Collectors  BY PartiesDiffer DEF Contracts
<1>2. payments \in Seq(PaymentRecords) /\ \A i \in DOMAIN payments : payments[i].to \in Staff \cup {e, "payroll"}
  BY <1>1, BatchIsPayments
<1>3. PICK o \in Nat, f \in Nat, gross \in Nat :
         o = TotalOf(payments) /\ f = FeesOf(payments, FeeBps) /\ gross = o + f
  <2>1. FeeBps \in 0 .. BpsUnit  BY SettlementAssumption
  <2>2. TotalOf(payments) \in Nat /\ FeesOf(payments, FeeBps) \in Nat  BY <1>2, <2>1, BatchSums
  <2> QED  BY <2>2
<1>4. /\ ledger' = RunTransfers(Pay(ledger, Transfer(token, e, "payroll", gross)),
                       <<Transfer(token, "payroll", Owner, f)>> \o PaymentTransfers("payroll", token, payments))
      /\ Covered(Pay(ledger, Transfer(token, e, "payroll", gross)))
      /\ NoResidue("payroll", ledger')
      /\ Emit("payroll", e, ref, token, gross, token, payments, f, Owner, 0)
  BY <1>3 DEF SameTokenPayroll
<1> QED  BY <1>1, <1>2, <1>3, <1>4, FundedCallSettles

LEMMA BatchSettles ==
  ASSUME EmployerLedger, terms.bps \in 0 .. BpsUnit, terms.collector \in Collectors,
         NEW e \in Employers, NEW payments \in Batches("direct", e), NEW ref \in Refs, NEW minimum,
         BatchRouteAndPay(e, payments, minimum, ref)
  PROVE  \E r : Settles(r)
<1>1. "direct" \in Contracts /\ "USDC" \in Tokens  BY DEF Contracts, Tokens
<1>2. payments \in Seq(PaymentRecords) /\ \A i \in DOMAIN payments : payments[i].to \in Staff \cup {e, "direct"}
  BY <1>1, BatchIsPayments
<1>3. PICK net \in Seq(PaymentRecords), gross \in Nat, f \in Nat :
         /\ net = EstimatedOutputs(payments) /\ gross = TotalOf(payments) /\ f = FeesOf(payments, terms.bps)
         /\ TotalOf(net) = gross - f /\ \A i \in DOMAIN net : net[i].to \in Staff \cup {e, "direct"}
  <2>1. TotalOf(payments) \in Nat /\ FeesOf(payments, terms.bps) \in Nat  BY <1>2, BatchSums
  <2> QED  BY <1>2, <2>1, EstimatesAdd
<1>4. gross = TotalOf(net) + f  BY <1>3
<1>5. /\ ledger' = RunTransfers(Pay(ledger, Transfer("USDC", e, "direct", gross)),
                       <<Transfer("USDC", "direct", terms.collector, f)>> \o PaymentTransfers("direct", "USDC", net))
      /\ Covered(Pay(ledger, Transfer("USDC", e, "direct", gross)))
      /\ NoResidue("direct", ledger')
      /\ Emit("direct", e, ref, "USDC", gross, "USDC", net, f, terms.collector, 0)
  BY <1>3 DEF BatchRouteAndPay
<1> QED  BY <1>1, <1>3, <1>4, <1>5, FundedCallSettles

LEMMA OtherToken ==
  ASSUME NEW t \in Tokens
  PROVE  Other(t) \in Tokens /\ Other(t) # t /\ \A u \in Tokens : u = t \/ u = Other(t)
BY DEF Other, Tokens

LEMMA CrossTokenSettles ==
  ASSUME EmployerLedger, NEW e \in Employers, NEW tokenIn \in Tokens,
         NEW payments \in Batches("payroll", e), NEW gross \in Amounts, NEW minimum, NEW ref \in Refs,
         NEW router \in RouterOutcomes,
         CrossTokenPayroll(e, tokenIn, payments, gross, minimum, ref, router)
  PROVE  \E r : Settles(r)
<1> DEFINE c == "payroll"
           tokenOut == Other(tokenIn)
           x == Transfer(tokenOut, "pool", c, router.out)
<1>1. PICK paidIn : paidIn = InputLeg(ledger, c, e, tokenIn, gross, router)  OBVIOUS
<1>2. PICK swapped : swapped = Pay(paidIn, x)  OBVIOUS
<1>3. PICK amountOut : amountOut = swapped[c][tokenOut] - ledger[c][tokenOut]  OBVIOUS
<1>4. PICK o \in Nat : o = TotalOf(payments) /\ payments \in Seq(PaymentRecords)
         /\ \A i \in DOMAIN payments : payments[i].to \in Staff \cup {e, c}
  <2>1. c \in Contracts  BY DEF Contracts
  <2>2. payments \in Seq(PaymentRecords) /\ \A i \in DOMAIN payments : payments[i].to \in Staff \cup {e, c}
    BY <2>1, BatchIsPayments
  <2> QED  BY <2>2, BatchSums
<1> DEFINE y == Transfer(tokenOut, c, e, amountOut - o)
           ps == PaymentTransfers(c, tokenOut, payments)
           r == [contract |-> c, employer |-> e, ref |-> ref, tokenIn |-> tokenIn,
                 input |-> gross, tokenOut |-> tokenOut, payments |-> payments,
                 fees |-> Fee(gross, FeeBps), feeTo |-> Owner, back |-> amountOut - o]
<1>5. /\ ledger' = RunTransfers(swapped, ps \o <<y>>)
      /\ amountOut >= o /\ ledger[e][tokenIn] >= gross /\ NoResidue(c, ledger')
      /\ ValidRecipients(c, e, payments) /\ receipts' = Append(receipts, r)
  BY <1>1, <1>2, <1>3, <1>4 DEF CrossTokenPayroll, Emit
<1>6. tokenOut \in Tokens /\ tokenOut # tokenIn /\ \A u \in Tokens : u = tokenIn \/ u = tokenOut
  BY OtherToken
<1>7. /\ c \in Contracts /\ c \in Accounts /\ e \in Accounts /\ "pool" \in Accounts /\ Owner \in Collectors
      /\ c # e /\ c # Owner /\ c # "pool" /\ e # "pool"
  BY PartiesDiffer DEF Parties, Contracts
<1>8. gross \in Nat /\ router.out \in Nat
  BY SettlementAssumption DEF Amounts, RouterOutcomes
<1>9. PICK out \in Nat : out = router.out  BY <1>8
<1> HIDE DEF c, tokenOut
<1>10. PICK f \in Nat : f = Fee(gross, FeeBps)  BY <1>1, <1>7, <1>8, InputLegMoves DEF EmployerLedger
<1>11. /\ paidIn \in Ledgers
       /\ \A a \in Parties, t \in Tokens :
               paidIn[a][t] = ledger[a][t] +
                  (IF t # tokenIn THEN 0
                   ELSE (IF a = Owner THEN f ELSE 0) - (IF a = e THEN gross ELSE 0))
       /\ \A a \in Contracts, t \in Tokens :
               a # c \/ t # tokenIn => paidIn[a][t] = ledger[a][t]
  BY <1>1, <1>7, <1>8, <1>10, InputLegMoves DEF EmployerLedger
<1>12. /\ x \in TransferRecords
       /\ \A a, t : Effect(x, a, t) =
             IF t # tokenOut THEN 0 ELSE (IF a = c THEN out ELSE 0) - (IF a = "pool" THEN out ELSE 0)
  BY <1>6, <1>7, <1>9, TransferType
<1> HIDE DEF x
<1>13. /\ swapped \in Ledgers
       /\ \A a \in Accounts, t \in Tokens : swapped[a][t] = paidIn[a][t] + Effect(x, a, t)
  BY <1>2, <1>11, <1>12, PayMoves
<1>14. amountOut = out
  <2>1. ledger[c][tokenOut] \in Int  BY <1>6, <1>7 DEF EmployerLedger, Ledgers
  <2>2. Effect(x, c, tokenOut) = out - 0  BY <1>7, <1>12
  <2>3. swapped[c][tokenOut] = ledger[c][tokenOut] + (out - 0)  BY <1>6, <1>7, <1>11, <1>13, <2>2
  <2> QED  BY <1>3, <2>1, <2>3
<1>15. PICK back \in Nat : back = amountOut - o  BY <1>4, <1>5, <1>14
<1>16. /\ y \in TransferRecords
       /\ \A a, t : Effect(y, a, t) =
             IF t # tokenOut THEN 0 ELSE (IF a = e THEN back ELSE 0) - (IF a = c THEN back ELSE 0)
  BY <1>6, <1>7, <1>15, TransferType
<1> HIDE DEF y
<1>17. ps \in Seq(TransferRecords)  BY <1>4, <1>6, <1>7, PaymentsMove
<1>18. \A a, t : SumOf(Effects(ps, a, t)) =
          IF t # tokenOut THEN 0 ELSE AmountTo(payments, a) - (IF a = c THEN o ELSE 0)
  BY <1>4, <1>6, <1>7, PaymentsMove
<1> HIDE DEF ps
<1>19. PICK xs \in Seq(TransferRecords) : xs = ps \o <<y>>  BY <1>16, <1>17, FirstAndRest
<1>20. /\ ledger' \in Ledgers
       /\ \A a \in Accounts, t \in Tokens : ledger'[a][t] = swapped[a][t] + SumOf(Effects(xs, a, t))
  <2>1. /\ RunTransfers(swapped, xs) \in Ledgers
        /\ \A a \in Accounts, t \in Tokens :
              RunTransfers(swapped, xs)[a][t] = swapped[a][t] + SumOf(Effects(xs, a, t))
    BY <1>13, RunMoves
  <2> QED  BY <1>5, <1>19, <2>1
<1>21. ASSUME NEW a \in Accounts, NEW t \in Tokens, a # c, a # "pool"
       PROVE  ledger'[a][t] = paidIn[a][t] +
                 (IF t # tokenOut THEN 0 ELSE AmountTo(payments, a) + (IF a = e THEN back ELSE 0))
  <2>1. PICK had \in Int, share \in Nat, extra \in Nat :
           had = paidIn[a][t] /\ share = AmountTo(payments, a) /\ extra = (IF a = e THEN back ELSE 0)
    <3>1. paidIn[a][t] \in Int  BY <1>11 DEF Ledgers
    <3>2. AmountTo(payments, a) \in Nat  BY <1>4, BatchSums
    <3> QED  BY <3>1, <3>2
  <2>2. SumOf(Effects(xs, a, t)) = SumOf(Effects(ps, a, t)) + Effect(y, a, t)
    BY <1>16, <1>17, <1>19, FirstAndRest
  <2>3. ledger'[a][t] = had + Effect(x, a, t) + (SumOf(Effects(ps, a, t)) + Effect(y, a, t))
    BY <1>13, <1>20, <2>1, <2>2
  <2>4. CASE t # tokenOut
    <3>1. Effect(x, a, t) = 0 /\ Effect(y, a, t) = 0 /\ SumOf(Effects(ps, a, t)) = 0
      BY <1>12, <1>16, <1>18, <2>4
    <3> QED  BY <2>1, <2>3, <2>4, <3>1
  <2>5. CASE t = tokenOut
    <3>1. Effect(x, a, t) = 0 - 0 /\ Effect(y, a, t) = extra - 0 /\ SumOf(Effects(ps, a, t)) = share - 0
      BY <1>12, <1>16, <1>18, <1>21, <2>1, <2>5
    <3>2. ledger'[a][t] = had + (share + extra)  BY <2>1, <2>3, <3>1
    <3> QED  BY <2>1, <2>5, <3>2
  <2> QED  BY <2>4, <2>5
<1>22. r \in ReceiptRecords  BY <1>4, <1>6, <1>7, <1>8, <1>10, <1>15 DEF ReceiptRecords
<1>23. /\ r.payments = payments /\ r.tokenIn = tokenIn /\ r.tokenOut = tokenOut /\ r.employer = e
       /\ r.feeTo = Owner /\ r.input = gross /\ r.fees = f /\ r.back = back
  BY <1>10, <1>15
<1>24. receipts' = Append(receipts, r)  BY <1>5
<1> HIDE DEF r
<1>25. AmountTo(payments, c) = 0
  <2>1. \A i \in DOMAIN payments : payments[i].to # c  BY <1>5 DEF ValidRecipients
  <2> QED  BY <1>4, <2>1, BatchSums
<1>26. ASSUME NEW a \in Parties, NEW t \in Tokens PROVE ledger'[a][t] = ledger[a][t] + Received(r, a, t)
  <2>1. a \in Accounts /\ a # c /\ a # "pool"  BY <1>7, PartiesDiffer
  <2>2. PICK had \in Int, share \in Nat, extra \in Nat, charged \in Nat, spent \in Nat :
           /\ had = ledger[a][t] /\ share = AmountTo(payments, a) /\ extra = (IF a = e THEN back ELSE 0)
           /\ charged = (IF a = Owner THEN f ELSE 0) /\ spent = (IF a = e THEN gross ELSE 0)
    <3>1. ledger[a][t] \in Int  BY <2>1 DEF EmployerLedger, Ledgers
    <3>2. AmountTo(payments, a) \in Nat  BY <1>4, BatchSums
    <3> QED  BY <1>8, <3>1, <3>2
  <2>3. CASE t = tokenIn
    <3>1. paidIn[a][t] = had + (charged - spent)  BY <1>11, <2>2, <2>3
    <3>2. ledger'[a][t] = had + (charged - spent)  BY <1>6, <1>21, <2>1, <2>2, <2>3, <3>1
    <3>3. Received(r, a, t) = 0 + 0 + charged - spent
      BY <1>6, <1>23, <2>2, <2>3 DEF Received, PaidInto
    <3> QED  BY <2>2, <3>2, <3>3
  <2>4. CASE t = tokenOut
    <3>1. paidIn[a][t] = had + 0  BY <1>6, <1>11, <2>2, <2>4
    <3>2. ledger'[a][t] = had + (share + extra)  BY <1>21, <2>1, <2>2, <2>4, <3>1
    <3>3. Received(r, a, t) = share + extra + 0 - 0
      BY <1>6, <1>23, <2>2, <2>4 DEF Received, PaidInto
    <3> QED  BY <2>2, <3>2, <3>3
  <2> QED  BY <1>6, <2>3, <2>4
<1>27. ASSUME NEW a \in Contracts, NEW t \in Tokens, a # c PROVE ledger'[a][t] = ledger[a][t]
  <2>1. a \in Accounts /\ a # "pool" /\ a # e  BY PartiesDiffer DEF Parties
  <2>2. AmountTo(payments, a) = 0
    <3>1. \A i \in DOMAIN payments : payments[i].to # a  BY <1>4, <1>27, PartiesDiffer DEF Parties
    <3> QED  BY <1>4, <3>1, BatchSums
  <2>3. PICK had \in Int : had = ledger[a][t]  BY <2>1 DEF EmployerLedger, Ledgers
  <2>4. ledger'[a][t] = had + (IF t # tokenOut THEN 0 ELSE 0 + 0)  BY <1>11, <1>21, <1>27, <2>1, <2>2, <2>3
  <2> QED  BY <2>3, <2>4
<1>28. /\ ledger[r.employer][r.tokenIn] >= r.input /\ AmountTo(r.payments, c) = 0
       /\ \A i \in DOMAIN r.payments : r.payments[i].to \in Parties \cup {c}
  BY <1>4, <1>5, <1>23, <1>25 DEF Parties
<1>29. Settles(r)
  BY <1>5, <1>7, <1>20, <1>22, <1>24, <1>26, <1>27, <1>28, CallSettles DEF EmployerLedger
<1> QED  BY <1>29

LEMMA SwapSettles ==
  ASSUME EmployerLedger, NEW e \in Employers, NEW tokenIn \in Tokens,
         NEW gross \in 0 .. MaxAmount, NEW minimum \in 0 .. 1, NEW router \in RouterOutcomes,
         ExecuteSwap(e, tokenIn, gross, minimum, router)
  PROVE  \E r : Settles(r)
<1> DEFINE c == "executor"
           tokenOut == Other(tokenIn)
           taker == IF router.to = "recipient" THEN e ELSE c
           x == Transfer(tokenOut, "pool", taker, router.out)
<1>1. PICK paidIn : paidIn = InputLeg(ledger, c, e, tokenIn, gross, router)  OBVIOUS
<1>2. PICK amountOut : amountOut = ledger'[e][tokenOut] - ledger[e][tokenOut]  OBVIOUS
<1> DEFINE r == [contract |-> c, employer |-> e, ref |-> "none", tokenIn |-> tokenIn,
                 input |-> gross, tokenOut |-> tokenOut, payments |-> <<>>,
                 fees |-> Fee(gross, FeeBps), feeTo |-> Owner, back |-> amountOut]
<1>3. /\ ledger' = Pay(paidIn, x) /\ NoResidue(c, ledger')
      /\ ledger[e][tokenIn] >= gross /\ receipts' = Append(receipts, r)
  BY <1>1, <1>2 DEF ExecuteSwap, Emit
<1>4. tokenOut \in Tokens /\ tokenOut # tokenIn /\ \A u \in Tokens : u = tokenIn \/ u = tokenOut
  BY OtherToken
<1>5. /\ c \in Contracts /\ c \in Accounts /\ e \in Accounts /\ "pool" \in Accounts /\ Owner \in Collectors
      /\ c # e /\ c # Owner /\ c # "pool" /\ e # "pool"
  BY PartiesDiffer DEF Parties, Contracts
<1>6. gross \in Nat /\ router.out \in Nat  BY SettlementAssumption DEF RouterOutcomes
<1>7. PICK out \in Nat : out = router.out  BY <1>6
<1> HIDE DEF c, tokenOut
<1>8. PICK f \in Nat : f = Fee(gross, FeeBps)  BY <1>1, <1>5, <1>6, InputLegMoves DEF EmployerLedger
<1>9. /\ paidIn \in Ledgers
      /\ \A a \in Parties, t \in Tokens :
               paidIn[a][t] = ledger[a][t] +
                  (IF t # tokenIn THEN 0
                   ELSE (IF a = Owner THEN f ELSE 0) - (IF a = e THEN gross ELSE 0))
      /\ \A a \in Contracts, t \in Tokens :
               a # c \/ t # tokenIn => paidIn[a][t] = ledger[a][t]
  BY <1>1, <1>5, <1>6, <1>8, InputLegMoves DEF EmployerLedger
<1>10. taker \in {e, c} /\ taker \in Accounts /\ taker # "pool"  BY <1>5
<1> HIDE DEF taker
<1>11. /\ x \in TransferRecords
       /\ \A a, t : Effect(x, a, t) =
             IF t # tokenOut THEN 0 ELSE (IF a = taker THEN out ELSE 0) - (IF a = "pool" THEN out ELSE 0)
  BY <1>4, <1>5, <1>7, <1>10, TransferType
<1> HIDE DEF x
<1>12. /\ ledger' \in Ledgers
       /\ \A a \in Accounts, t \in Tokens : ledger'[a][t] = paidIn[a][t] + Effect(x, a, t)
  BY <1>3, <1>9, <1>11, PayMoves
<1>13. ASSUME NEW a \in Accounts, NEW t \in Tokens, a # c, a # "pool"
       PROVE  ledger'[a][t] = paidIn[a][t] + (IF t # tokenOut \/ a # taker THEN 0 ELSE out)
  <2>1. PICK had \in Int : had = paidIn[a][t]  BY <1>9 DEF Ledgers
  <2>2. Effect(x, a, t) = IF t # tokenOut THEN 0 ELSE (IF a = taker THEN out ELSE 0) - 0  BY <1>11, <1>13
  <2>3. Effect(x, a, t) = IF t # tokenOut \/ a # taker THEN 0 ELSE out  BY <2>2
  <2> QED  BY <1>12, <2>3
<1>14. PICK back \in Nat : back = (IF e # taker THEN 0 ELSE out) /\ amountOut = back
  <2>1. PICK had \in Int : had = ledger[e][tokenOut]  BY <1>4, <1>5 DEF EmployerLedger, Ledgers
  <2>2. e \in Parties  BY DEF Parties
  <2>3. paidIn[e][tokenOut] = had + 0  BY <1>4, <1>9, <2>1, <2>2
  <2>4. PICK back \in Nat : back = (IF e # taker THEN 0 ELSE out)  OBVIOUS
  <2>5. ledger'[e][tokenOut] = had + 0 + back  BY <1>4, <1>5, <1>13, <2>3, <2>4
  <2>6. amountOut = back  BY <1>2, <2>1, <2>4, <2>5
  <2> QED  BY <2>4, <2>6
<1>15. <<>> \in Seq(PaymentRecords) /\ \A a : AmountTo(<<>>, a) = 0
  <2>1. <<>> \in Seq(PaymentRecords) /\ DOMAIN <<>> = {}  OBVIOUS
  <2> QED  BY <2>1, BatchSums
<1>16. r \in ReceiptRecords  BY <1>4, <1>5, <1>6, <1>8, <1>14, <1>15 DEF ReceiptRecords
<1>17. /\ r.payments = <<>> /\ r.tokenIn = tokenIn /\ r.tokenOut = tokenOut /\ r.employer = e
       /\ r.feeTo = Owner /\ r.input = gross /\ r.fees = f /\ r.back = back
  BY <1>8, <1>14
<1>18. receipts' = Append(receipts, r)  BY <1>3
<1> HIDE DEF r
<1>19. ASSUME NEW a \in Parties, NEW t \in Tokens PROVE ledger'[a][t] = ledger[a][t] + Received(r, a, t)
  <2>1. a \in Accounts /\ a # c /\ a # "pool"  BY <1>5, PartiesDiffer
  <2>2. PICK had \in Int, extra \in Nat, charged \in Nat, spent \in Nat :
           /\ had = ledger[a][t] /\ extra = (IF a = e THEN back ELSE 0)
           /\ charged = (IF a = Owner THEN f ELSE 0) /\ spent = (IF a = e THEN gross ELSE 0)
    <3>1. ledger[a][t] \in Int  BY <2>1 DEF EmployerLedger, Ledgers
    <3> QED  BY <1>6, <3>1
  <2>3. CASE t = tokenIn
    <3>1. paidIn[a][t] = had + (charged - spent)  BY <1>9, <2>2, <2>3
    <3>2. ledger'[a][t] = had + (charged - spent)  BY <1>4, <1>13, <2>1, <2>2, <2>3, <3>1
    <3>3. Received(r, a, t) = 0 + 0 + charged - spent
      BY <1>4, <1>17, <2>2, <2>3 DEF Received, PaidInto
    <3> QED  BY <2>2, <3>2, <3>3
  <2>4. CASE t = tokenOut
    <3>1. paidIn[a][t] = had + 0  BY <1>4, <1>9, <2>2, <2>4
    <3>2. (IF a # taker THEN 0 ELSE out) = extra  BY <1>10, <1>14, <2>1, <2>2
    <3>3. ledger'[a][t] = had + extra  BY <1>13, <2>1, <2>2, <2>4, <3>1, <3>2
    <3>4. Received(r, a, t) = 0 + extra + 0 - 0
      BY <1>4, <1>15, <1>17, <2>2, <2>4 DEF Received, PaidInto
    <3> QED  BY <2>2, <3>3, <3>4
  <2> QED  BY <1>4, <2>3, <2>4
<1>20. ASSUME NEW a \in Contracts, NEW t \in Tokens, a # c PROVE ledger'[a][t] = ledger[a][t]
  <2>1. a \in Accounts /\ a # "pool" /\ a # e /\ a # taker  BY <1>10, <1>20, PartiesDiffer DEF Parties
  <2>2. PICK had \in Int : had = ledger[a][t]  BY <2>1 DEF EmployerLedger, Ledgers
  <2>3. ledger'[a][t] = had + 0  BY <1>9, <1>13, <1>20, <2>1, <2>2
  <2> QED  BY <2>2, <2>3
<1>21. /\ ledger[r.employer][r.tokenIn] >= r.input /\ AmountTo(r.payments, c) = 0
       /\ \A i \in DOMAIN r.payments : r.payments[i].to \in Parties \cup {c}
  BY <1>3, <1>15, <1>17
<1>22. Settles(r)
  BY <1>3, <1>5, <1>12, <1>16, <1>18, <1>19, <1>20, <1>21, CallSettles DEF EmployerLedger
<1> QED  BY <1>22

-----------------------------------------------------------------------------
(* The balances are what the events, the gifts and the withdrawals say.     *)

AllowanceOK == allowance \in [Employers -> [Contracts -> [Tokens -> 0 .. Funds]]]

StorageOK ==
    /\ deployed \subseteq Contracts /\ paused \subseteq deployed
    /\ used \subseteq Contracts \X Employers \X Refs
    /\ terms \in [bps : 0 .. BpsUnit, collector : Collectors]

HistoryOK ==
    /\ receipts \in Seq(ReceiptRecords)
    /\ gifts \in [Employers \X Contracts \X Tokens -> Int] /\ withdrawn \in Int

MoneyInv ==
    EmployerLedger /\ AllowanceOK /\ StorageOK /\ HistoryOK
    /\ KeepsNothing /\ EventsAccountForBalances

LEMMA ReceivedType ==
  ASSUME NEW r \in ReceiptRecords, NEW a, NEW t
  PROVE  Received(r, a, t) \in Int /\ PaidInto(r, a, t) \in Int
<1>1. /\ r.payments \in Seq(PaymentRecords) /\ r.input \in Nat /\ r.fees \in Nat /\ r.back \in Nat
  BY DEF ReceiptRecords
<1>2. AmountTo(r.payments, a) \in Nat  BY <1>1, BatchSums
<1>3. PaidInto(r, a, t) \in Int  BY <1>2 DEF PaidInto
<1> QED  BY <1>1, <1>3 DEF Received

LEMMA SumsOfReceipts ==
  ASSUME receipts \in Seq(ReceiptRecords), NEW a, NEW t
  PROVE  /\ SumOf([i \in DOMAIN receipts |-> Received(receipts[i], a, t)]) \in Int
         /\ SumOf([i \in DOMAIN receipts |-> PaidInto(receipts[i], a, t)]) \in Int
<1>1. \A i \in DOMAIN receipts : Received(receipts[i], a, t) \in Int /\ PaidInto(receipts[i], a, t) \in Int
  BY ReceivedType
<1>2. PICK n \in Nat : DOMAIN receipts = 1 .. n  OBVIOUS
<1>3. /\ [i \in DOMAIN receipts |-> Received(receipts[i], a, t)] \in Seq(Int)
      /\ [i \in DOMAIN receipts |-> PaidInto(receipts[i], a, t)] \in Seq(Int)
  BY <1>1, <1>2
<1> QED  BY <1>3, SumIs

LEMMA ReceiptAdds ==
  ASSUME receipts \in Seq(ReceiptRecords), NEW r \in ReceiptRecords, receipts' = Append(receipts, r),
         NEW a, NEW t
  PROVE  /\ receipts' \in Seq(ReceiptRecords)
         /\ SumOf([i \in DOMAIN receipts' |-> Received(receipts'[i], a, t)]) =
               SumOf([i \in DOMAIN receipts |-> Received(receipts[i], a, t)]) + Received(r, a, t)
         /\ SumOf([i \in DOMAIN receipts' |-> PaidInto(receipts'[i], a, t)]) =
               SumOf([i \in DOMAIN receipts |-> PaidInto(receipts[i], a, t)]) + PaidInto(r, a, t)
<1>1. PICK n \in Nat : /\ n = Len(receipts) /\ DOMAIN receipts = 1 .. n
                       /\ DOMAIN receipts' = 1 .. (n + 1) /\ receipts'[n + 1] = r
                       /\ \A i \in 1 .. n : receipts'[i] = receipts[i] /\ receipts[i] \in ReceiptRecords
  OBVIOUS
<1>2. receipts' \in Seq(ReceiptRecords)  OBVIOUS
<1>3. /\ \A i \in 1 .. n : Received(receipts[i], a, t) \in Int /\ PaidInto(receipts[i], a, t) \in Int
      /\ Received(r, a, t) \in Int /\ PaidInto(r, a, t) \in Int
  BY <1>1, ReceivedType
<1> DEFINE v == [i \in DOMAIN receipts |-> Received(receipts[i], a, t)]
           w == [i \in DOMAIN receipts' |-> Received(receipts'[i], a, t)]
           x == [i \in DOMAIN receipts |-> PaidInto(receipts[i], a, t)]
           y == [i \in DOMAIN receipts' |-> PaidInto(receipts'[i], a, t)]
<1>4. v \in Seq(Int) /\ x \in Seq(Int) /\ Len(v) = n /\ Len(x) = n  BY <1>1, <1>3
<1>5. \A i \in 1 .. (n + 1) : Received(receipts'[i], a, t) \in Int /\ PaidInto(receipts'[i], a, t) \in Int
  <2>1. ASSUME NEW i \in 1 .. (n + 1) PROVE receipts'[i] \in ReceiptRecords  BY <1>1
  <2> QED  BY <2>1, ReceivedType
<1>6. w \in Seq(Int) /\ y \in Seq(Int) /\ Len(w) = n + 1 /\ Len(y) = n + 1  BY <1>1, <1>5
<1>7. /\ w[n + 1] = Received(r, a, t) /\ y[n + 1] = PaidInto(r, a, t)
      /\ \A i \in 1 .. n : w[i] = v[i] /\ y[i] = x[i]
  BY <1>1
<1> HIDE DEF v, w, x, y
<1>8. SumOf(w) = SumOf(v) + w[n + 1] /\ SumOf(y) = SumOf(x) + y[n + 1]
  BY <1>4, <1>6, <1>7, SumAppend
<1> QED  BY <1>2, <1>7, <1>8 DEF v, w, x, y

LEMMA AccountsFinite ==
  IsFiniteSet(Employers) /\ IsFiniteSet(Contracts)
<1>1. IsFiniteSet({"payroll"} \cup {"executor"} \cup {"direct"})
  BY FS_Singleton, FS_Union
<1>2. Contracts = {"payroll"} \cup {"executor"} \cup {"direct"}  BY DEF Contracts
<1> QED  BY <1>1, <1>2, SettlementAssumption

LEMMA GiftTypes ==
  ASSUME gifts \in [Employers \X Contracts \X Tokens -> Int], NEW t \in Tokens
  PROVE  /\ \A c \in Contracts : GiftsTo(c, t) \in Int
         /\ \A e \in Employers : GiftsOf(e, t) \in Int
<1>1. ASSUME NEW c \in Contracts PROVE GiftsTo(c, t) \in Int
  <2>1. [e \in Employers |-> gifts[<<e, c, t>>]] \in [Employers -> Int]  OBVIOUS
  <2> QED  BY <2>1, AccountsFinite, SumOverType DEF GiftsTo, SumOver, EmployerList
<1>2. ASSUME NEW e \in Employers PROVE GiftsOf(e, t) \in Int
  <2>1. [c \in Contracts |-> gifts[<<e, c, t>>]] \in [Contracts -> Int]  OBVIOUS
  <2> QED  BY <2>1, AccountsFinite, SumOverType DEF GiftsOf, SumOver, ContractList
<1> QED  BY <1>1, <1>2

\* A gift is one more from the employer and to the contract.
LEMMA GiftAdds ==
  ASSUME gifts \in [Employers \X Contracts \X Tokens -> Int],
         NEW e \in Employers, NEW c \in Contracts, NEW token \in Tokens, Donate(e, c, token)
  PROVE  /\ gifts' \in [Employers \X Contracts \X Tokens -> Int]
         /\ \A d \in Contracts, t \in Tokens :
               GiftsTo(d, t)' = GiftsTo(d, t) + (IF d = c /\ t = token THEN 1 ELSE 0)
         /\ \A b \in Employers, t \in Tokens :
               GiftsOf(b, t)' = GiftsOf(b, t) + (IF b = e /\ t = token THEN 1 ELSE 0)
<1>5. gifts' = [gifts EXCEPT ![<<e, c, token>>] = @ + 1]  BY DEF Donate
<1>1. gifts' \in [Employers \X Contracts \X Tokens -> Int]  BY <1>5
<1>2. \A b \in Employers, d \in Contracts, t \in Tokens :
         /\ gifts[<<b, d, t>>] \in Int
         /\ gifts'[<<b, d, t>>] =
                     gifts[<<b, d, t>>] + (IF b = e /\ d = c /\ t = token THEN 1 ELSE 0)
  <2>1. ASSUME NEW b \in Employers, NEW d \in Contracts, NEW t \in Tokens
        PROVE  /\ gifts[<<b, d, t>>] \in Int
               /\ gifts'[<<b, d, t>>] =
                     gifts[<<b, d, t>>] + (IF b = e /\ d = c /\ t = token THEN 1 ELSE 0)
    <3>1. <<b, d, t>> \in Employers \X Contracts \X Tokens  OBVIOUS
    <3>2. <<b, d, t>> = <<e, c, token>> <=> b = e /\ d = c /\ t = token  OBVIOUS
    <3> QED  BY <1>5, <3>1, <3>2
  <2> QED  BY <2>1
<1>3. ASSUME NEW d \in Contracts, NEW t \in Tokens
      PROVE  GiftsTo(d, t)' = GiftsTo(d, t) + (IF d = c /\ t = token THEN 1 ELSE 0)
  <2> DEFINE f == [b \in Employers |-> gifts[<<b, d, t>>]]
             g == [b \in Employers |-> gifts'[<<b, d, t>>]]
  <2>1. GiftsTo(d, t) = SumOver(Employers, f) /\ GiftsTo(d, t)' = SumOver(Employers, g)
    BY DEF GiftsTo, SumOver, EmployerList
  <2>2. f \in [Employers -> Int] /\ g \in [Employers -> Int]  BY <1>1
  <2>3. \A b \in Employers : g[b] = IF b = e THEN f[b] + (IF d = c /\ t = token THEN 1 ELSE 0) ELSE f[b]
    BY <1>2
  <2> HIDE DEF f, g
  <2>4. PICK n \in Int : n = (IF d = c /\ t = token THEN 1 ELSE 0)  OBVIOUS
  <2>5. \A y \in Employers : g[y] = IF y = e THEN f[y] + n ELSE f[y]  BY <2>3, <2>4
  <2>6. IsFiniteSet(Employers)  BY AccountsFinite
  <2>7. SumOver(Employers, g) = SumOver(Employers, f) + n
    <3>1. \A p, q \in [Employers -> Int] : \A k \in Int :
             (\A y \in Employers : q[y] = IF y = e THEN p[y] + k ELSE p[y])
                => SumOver(Employers, q) = SumOver(Employers, p) + k
      BY <2>6, SumOverBumps
    <3> QED  BY <2>2, <2>4, <2>5, <3>1
  <2> QED  BY <2>1, <2>4, <2>7
<1>4. ASSUME NEW b \in Employers, NEW t \in Tokens
      PROVE  GiftsOf(b, t)' = GiftsOf(b, t) + (IF b = e /\ t = token THEN 1 ELSE 0)
  <2> DEFINE f == [d \in Contracts |-> gifts[<<b, d, t>>]]
             g == [d \in Contracts |-> gifts'[<<b, d, t>>]]
  <2>1. GiftsOf(b, t) = SumOver(Contracts, f) /\ GiftsOf(b, t)' = SumOver(Contracts, g)
    BY DEF GiftsOf, SumOver, ContractList
  <2>2. f \in [Contracts -> Int] /\ g \in [Contracts -> Int]  BY <1>1
  <2>3. \A d \in Contracts : g[d] = IF d = c THEN f[d] + (IF b = e /\ t = token THEN 1 ELSE 0) ELSE f[d]
    BY <1>2
  <2> HIDE DEF f, g
  <2>4. PICK n \in Int : n = (IF b = e /\ t = token THEN 1 ELSE 0)  OBVIOUS
  <2>5. \A y \in Contracts : g[y] = IF y = c THEN f[y] + n ELSE f[y]  BY <2>3, <2>4
  <2>6. IsFiniteSet(Contracts)  BY AccountsFinite
  <2>7. SumOver(Contracts, g) = SumOver(Contracts, f) + n
    <3>1. \A p, q \in [Contracts -> Int] : \A k \in Int :
             (\A y \in Contracts : q[y] = IF y = c THEN p[y] + k ELSE p[y])
                => SumOver(Contracts, q) = SumOver(Contracts, p) + k
      BY <2>6, SumOverBumps
    <3> QED  BY <2>2, <2>4, <2>5, <3>1
  <2> QED  BY <2>1, <2>4, <2>7
<1> QED  BY <1>1, <1>3, <1>4

LEMMA SettledKeeps ==
  ASSUME MoneyInv, NEW r, Settles(r), UNCHANGED <<gifts, withdrawn>>
  PROVE  EmployerLedger' /\ HistoryOK' /\ KeepsNothing' /\ EventsAccountForBalances'
<1>1. r \in ReceiptRecords /\ receipts' = Append(receipts, r) /\ receipts \in Seq(ReceiptRecords)
  BY DEF Settles, MoneyInv, HistoryOK
<1>2. EmployerLedger' /\ HistoryOK'
  BY <1>1, ReceiptAdds DEF MoneyInv, HistoryOK, EmployerLedger, Settles, Covered
<1>3. ASSUME NEW c \in Contracts, NEW t \in Tokens
      PROVE  ledger'[c][t] = GiftsTo(c, t)'
                + SumOf([i \in DOMAIN receipts' |-> PaidInto(receipts'[i], c, t)])
                - (IF c = "direct" /\ t = "USDC" THEN withdrawn' ELSE 0)
  <2>1. GiftsTo(c, t)' = GiftsTo(c, t)  BY DEF GiftsTo
  <2>2. PaidInto(r, c, t) = 0 /\ ledger'[c][t] = ledger[c][t]  BY DEF Settles
  <2>3. PICK s \in Int : s = SumOf([i \in DOMAIN receipts |-> PaidInto(receipts[i], c, t)])
    BY <1>1, SumsOfReceipts
  <2>4. SumOf([i \in DOMAIN receipts' |-> PaidInto(receipts'[i], c, t)]) = s
    <3>1. PICK d \in Int : d = PaidInto(r, c, t) /\ d = 0  BY <2>2
    <3>2. SumOf([i \in DOMAIN receipts' |-> PaidInto(receipts'[i], c, t)]) = s + d
      BY <1>1, <2>3, <3>1, ReceiptAdds
    <3> QED  BY <2>3, <3>1, <3>2
  <2>5. ledger[c][t] = GiftsTo(c, t) + s - (IF c = "direct" /\ t = "USDC" THEN withdrawn ELSE 0)
    BY <2>3 DEF MoneyInv, KeepsNothing
  <2> QED  BY <2>1, <2>2, <2>4, <2>5
<1>4. KeepsNothing'  BY <1>3 DEF KeepsNothing
<1>5. ASSUME NEW a \in Parties, NEW t \in Tokens
      PROVE  ledger'[a][t] = (IF a \in Employers THEN Funds ELSE 0)
            + SumOf([i \in DOMAIN receipts' |-> Received(receipts'[i], a, t)])
            - (IF a \in Employers THEN GiftsOf(a, t)' ELSE 0)
            + (IF a = Owner /\ t = "USDC" THEN withdrawn' ELSE 0)
  <2>1. GiftsOf(a, t)' = GiftsOf(a, t)  BY DEF GiftsOf
  <2>2. ledger'[a][t] = ledger[a][t] + Received(r, a, t)  BY DEF Settles
  <2>3. PICK s \in Int, d \in Int :
           s = SumOf([i \in DOMAIN receipts |-> Received(receipts[i], a, t)]) /\ d = Received(r, a, t)
    BY <1>1, SumsOfReceipts, ReceivedType
  <2>4. SumOf([i \in DOMAIN receipts' |-> Received(receipts'[i], a, t)]) = s + d
    BY <1>1, <2>3, ReceiptAdds
  <2>5. PICK first \in Int, given \in Int, taken \in Int :
           /\ first = (IF a \in Employers THEN Funds ELSE 0)
           /\ given = (IF a \in Employers THEN GiftsOf(a, t) ELSE 0)
           /\ taken = (IF a = Owner /\ t = "USDC" THEN withdrawn ELSE 0)
    <3>1. Funds \in Int  BY SettlementAssumption
    <3>2. a \in Employers => GiftsOf(a, t) \in Int  BY GiftTypes DEF MoneyInv, HistoryOK
    <3>3. withdrawn \in Int  BY DEF MoneyInv, HistoryOK
    <3> QED  BY <3>1, <3>2, <3>3
  <2>6. ledger[a][t] = first + s - given + taken
    BY <2>3, <2>5 DEF MoneyInv, EventsAccountForBalances, Parties
  <2>7. ledger'[a][t] = first + (s + d) - given + taken  BY <2>2, <2>3, <2>5, <2>6
  <2> QED  BY <2>1, <2>4, <2>5, <2>7
<1>6. EventsAccountForBalances'  BY <1>5 DEF EventsAccountForBalances, Parties
<1> QED  BY <1>2, <1>4, <1>6

\* A step that moves no money.
LEMMA NothingMoved ==
  ASSUME MoneyInv, UNCHANGED <<ledger, receipts, gifts, withdrawn>>
  PROVE  EmployerLedger' /\ HistoryOK' /\ KeepsNothing' /\ EventsAccountForBalances'
<1>1. EmployerLedger' /\ HistoryOK'
  BY DEF MoneyInv, EmployerLedger, HistoryOK, Covered
<1>2. KeepsNothing'  BY DEF MoneyInv, KeepsNothing, GiftsTo
<1>3. EventsAccountForBalances'  BY DEF MoneyInv, EventsAccountForBalances, GiftsOf
<1> QED  BY <1>1, <1>2, <1>3

LEMMA MoneyStarts == SettlementInit => MoneyInv
<1> SUFFICES ASSUME SettlementInit PROVE MoneyInv  OBVIOUS
<1> USE SettlementAssumption
<1>1. Funds \in Nat /\ \A a \in Accounts, t \in Tokens : ledger[a][t] = IF a \in Employers THEN Funds ELSE 0
  BY DEF SettlementInit
<1>2. EmployerLedger
  <2>1. ledger \in Ledgers  BY <1>1 DEF SettlementInit, Ledgers
  <2> QED  BY <1>1, <2>1 DEF EmployerLedger, Covered
<1>3. AllowanceOK  BY <1>1 DEF SettlementInit, AllowanceOK
<1>4. StorageOK  BY DEF SettlementInit, StorageOK, Collectors
<1>5. HistoryOK  BY DEF SettlementInit, HistoryOK
<1>6. ASSUME NEW a, NEW t
      PROVE  /\ SumOf([i \in DOMAIN receipts |-> Received(receipts[i], a, t)]) = 0
             /\ SumOf([i \in DOMAIN receipts |-> PaidInto(receipts[i], a, t)]) = 0
  <2> DEFINE v == [i \in DOMAIN receipts |-> Received(receipts[i], a, t)]
             w == [i \in DOMAIN receipts |-> PaidInto(receipts[i], a, t)]
  <2>1. DOMAIN receipts = 1 .. 0  BY DEF SettlementInit
  <2>2. v \in Seq(Int) /\ w \in Seq(Int) /\ Len(v) = 0 /\ Len(w) = 0  BY <2>1
  <2> HIDE DEF v, w
  <2>3. (\A k \in 1 .. Len(v) : v[k] = 0) /\ (\A k \in 1 .. Len(w) : w[k] = 0)  BY <2>2
  <2>4. SumOf(v) = 0 /\ SumOf(w) = 0  BY <2>2, <2>3, SumOfNothing
  <2> QED  BY <2>4 DEF v, w
<1>7. ASSUME NEW t \in Tokens
      PROVE  (\A c \in Contracts : GiftsTo(c, t) = 0) /\ (\A e \in Employers : GiftsOf(e, t) = 0)
  <2>1. \A e \in Employers, c \in Contracts : gifts[<<e, c, t>>] = 0  BY DEF SettlementInit
  <2>2. ASSUME NEW c \in Contracts PROVE GiftsTo(c, t) = 0
    <3> DEFINE f == [e \in Employers |-> gifts[<<e, c, t>>]]
    <3>1. f \in [Employers -> Int] /\ \A e \in Employers : f[e] = 0  BY <2>1
    <3>2. GiftsTo(c, t) = SumOver(Employers, f)  BY DEF GiftsTo, SumOver, EmployerList
    <3> HIDE DEF f
    <3> QED  BY <3>1, <3>2, AccountsFinite, SumOverType
  <2>3. ASSUME NEW e \in Employers PROVE GiftsOf(e, t) = 0
    <3> DEFINE f == [c \in Contracts |-> gifts[<<e, c, t>>]]
    <3>1. f \in [Contracts -> Int] /\ \A c \in Contracts : f[c] = 0  BY <2>1
    <3>2. GiftsOf(e, t) = SumOver(Contracts, f)  BY DEF GiftsOf, SumOver, ContractList
    <3> HIDE DEF f
    <3> QED  BY <3>1, <3>2, AccountsFinite, SumOverType
  <2> QED  BY <2>2, <2>3
<1>8. withdrawn = 0  BY DEF SettlementInit
<1>9. KeepsNothing
  <2>1. \A c \in Contracts : c \in Accounts /\ c \notin Employers  BY PartiesDiffer DEF Parties
  <2>2. ASSUME NEW c \in Contracts, NEW t \in Tokens
        PROVE  ledger[c][t] = GiftsTo(c, t)
                  + SumOf([i \in DOMAIN receipts |-> PaidInto(receipts[i], c, t)])
                  - (IF c = "direct" /\ t = "USDC" THEN withdrawn ELSE 0)
    <3>1. GiftsTo(c, t) = 0 /\ ledger[c][t] = 0  BY <1>1, <1>7, <2>1
    <3>2. SumOf([i \in DOMAIN receipts |-> PaidInto(receipts[i], c, t)]) = 0  BY <1>6
    <3> QED  BY <1>8, <3>1, <3>2
  <2> QED  BY <2>2 DEF KeepsNothing
<1>10. EventsAccountForBalances
  <2>1. \A a \in Employers \cup Staff \cup Collectors : a \in Accounts  BY PartiesDiffer DEF Parties
  <2>2. ASSUME NEW a \in Employers \cup Staff \cup Collectors, NEW t \in Tokens
        PROVE  ledger[a][t] = (IF a \in Employers THEN Funds ELSE 0)
                  + SumOf([i \in DOMAIN receipts |-> Received(receipts[i], a, t)])
                  - (IF a \in Employers THEN GiftsOf(a, t) ELSE 0)
                  + (IF a = Owner /\ t = "USDC" THEN withdrawn ELSE 0)
    <3>1. PICK first \in Int : first = ledger[a][t] /\ first = (IF a \in Employers THEN Funds ELSE 0)
      BY <1>1, <2>1
    <3>2. (IF a \in Employers THEN GiftsOf(a, t) ELSE 0) = 0  BY <1>7
    <3>3. SumOf([i \in DOMAIN receipts |-> Received(receipts[i], a, t)]) = 0  BY <1>6
    <3>4. first = first + 0 - 0 + 0  BY <3>1
    <3> QED  BY <1>8, <3>1, <3>2, <3>3, <3>4
  <2> QED  BY <2>2 DEF EventsAccountForBalances
<1> QED  BY <1>2, <1>3, <1>4, <1>5, <1>9, <1>10 DEF MoneyInv

LEMMA WithdrawalKeeps ==
  ASSUME MoneyInv, NEW amount \in Amounts, EmergencyWithdraw(amount)
  PROVE  EmployerLedger' /\ HistoryOK' /\ KeepsNothing' /\ EventsAccountForBalances'
<1>1. amount \in Nat  BY SettlementAssumption DEF Amounts
<1>2. /\ "direct" \in Contracts /\ "direct" \in Accounts /\ Owner \in Accounts /\ Owner \in Parties
      /\ "USDC" \in Tokens /\ "direct" # Owner
  BY PartiesDiffer DEF Contracts, Tokens, Parties
<1>3. PICK x \in TransferRecords : /\ x = Transfer("USDC", "direct", Owner, amount)
         /\ \A a, t : Effect(x, a, t) =
               IF t # "USDC" THEN 0
               ELSE (IF a = Owner THEN amount ELSE 0) - (IF a = "direct" THEN amount ELSE 0)
  BY <1>1, <1>2, TransferType
<1>4. /\ ledger' \in Ledgers
      /\ \A a \in Accounts, t \in Tokens : ledger'[a][t] = ledger[a][t] + Effect(x, a, t) /\ ledger[a][t] \in Int
  BY <1>3, PayMoves DEF EmergencyWithdraw, MoneyInv, EmployerLedger, Ledgers
<1>5. ledger["direct"]["USDC"] >= amount /\ withdrawn' = withdrawn + amount /\ UNCHANGED <<receipts, gifts>>
  BY DEF EmergencyWithdraw
<1>6. withdrawn \in Int /\ HistoryOK'
  BY <1>1, <1>5 DEF MoneyInv, HistoryOK
<1>7. ASSUME NEW a \in Accounts \ {"pool"}, NEW t \in Tokens PROVE ledger'[a][t] >= 0
  <2>1. ledger[a][t] >= 0 /\ ledger[a][t] \in Int  BY <1>4 DEF MoneyInv, EmployerLedger, Covered
  <2>2. CASE a = "direct" /\ t = "USDC"
    <3>1. Effect(x, a, t) = 0 - amount  BY <1>2, <1>3, <2>2
    <3> QED  BY <1>1, <1>4, <1>5, <2>1, <2>2, <3>1
  <2>3. CASE ~(a = "direct" /\ t = "USDC")
    <3>1. Effect(x, a, t) = 0 \/ Effect(x, a, t) = amount  BY <1>1, <1>3, <2>3
    <3> QED  BY <1>1, <1>4, <2>1, <3>1
  <2> QED  BY <2>2, <2>3
<1>8. EmployerLedger'  BY <1>4, <1>7 DEF EmployerLedger, Covered
<1>9. ASSUME NEW c \in Contracts, NEW t \in Tokens
      PROVE  ledger'[c][t] = GiftsTo(c, t)'
                + SumOf([i \in DOMAIN receipts' |-> PaidInto(receipts'[i], c, t)])
                - (IF c = "direct" /\ t = "USDC" THEN withdrawn' ELSE 0)
  <2>1. PICK g \in Int, s \in Int :
           g = GiftsTo(c, t) /\ s = SumOf([i \in DOMAIN receipts |-> PaidInto(receipts[i], c, t)])
    BY GiftTypes, SumsOfReceipts DEF MoneyInv, HistoryOK
  <2>2. GiftsTo(c, t)' = g /\ SumOf([i \in DOMAIN receipts' |-> PaidInto(receipts'[i], c, t)]) = s
    BY <1>5, <2>1 DEF GiftsTo
  <2>3. ledger[c][t] = g + s - (IF c = "direct" /\ t = "USDC" THEN withdrawn ELSE 0)
    BY <2>1 DEF MoneyInv, KeepsNothing
  <2>4. c \in Accounts /\ c # Owner  BY PartiesDiffer DEF Parties
  <2>5. CASE c = "direct" /\ t = "USDC"
    <3>1. Effect(x, c, t) = 0 - amount  BY <1>2, <1>3, <2>5
    <3>2. ledger'[c][t] = g + s - withdrawn + (0 - amount)  BY <1>4, <2>3, <2>4, <2>5, <3>1
    <3>3. ledger'[c][t] = g + s - withdrawn'  BY <1>1, <1>5, <1>6, <2>1, <3>2
    <3> QED  BY <2>2, <2>5, <3>3
  <2>6. CASE ~(c = "direct" /\ t = "USDC")
    <3>1. Effect(x, c, t) = 0  BY <1>3, <2>4, <2>6
    <3>2. ledger'[c][t] = g + s - 0 + 0  BY <1>4, <2>3, <2>4, <2>6, <3>1
    <3> QED  BY <2>1, <2>2, <2>6, <3>2
  <2> QED  BY <2>5, <2>6
<1>10. ASSUME NEW a \in Parties, NEW t \in Tokens
      PROVE  ledger'[a][t] = (IF a \in Employers THEN Funds ELSE 0)
            + SumOf([i \in DOMAIN receipts' |-> Received(receipts'[i], a, t)])
            - (IF a \in Employers THEN GiftsOf(a, t)' ELSE 0)
            + (IF a = Owner /\ t = "USDC" THEN withdrawn' ELSE 0)
  <2>1. PICK s \in Int : s = SumOf([i \in DOMAIN receipts |-> Received(receipts[i], a, t)])
    BY SumsOfReceipts DEF MoneyInv, HistoryOK
  <2>2. PICK first \in Int, given \in Int :
           /\ first = (IF a \in Employers THEN Funds ELSE 0)
           /\ given = (IF a \in Employers THEN GiftsOf(a, t) ELSE 0)
    <3>1. Funds \in Int  BY SettlementAssumption
    <3>2. a \in Employers => GiftsOf(a, t) \in Int  BY GiftTypes DEF MoneyInv, HistoryOK
    <3> QED  BY <3>1, <3>2
  <2>3. /\ (IF a \in Employers THEN GiftsOf(a, t)' ELSE 0) = given
        /\ SumOf([i \in DOMAIN receipts' |-> Received(receipts'[i], a, t)]) = s
    BY <1>5, <2>1, <2>2 DEF GiftsOf
  <2>4. ledger[a][t] = first + s - given + (IF a = Owner /\ t = "USDC" THEN withdrawn ELSE 0)
    BY <2>1, <2>2 DEF MoneyInv, EventsAccountForBalances, Parties
  <2>5. a \in Accounts /\ a # "direct"  BY <1>2, PartiesDiffer
  <2>6. CASE a = Owner /\ t = "USDC"
    <3>1. Effect(x, a, t) = amount - 0  BY <1>3, <2>5, <2>6
    <3>2. ledger'[a][t] = first + s - given + withdrawn + (amount - 0)  BY <1>4, <2>4, <2>5, <2>6, <3>1
    <3>3. ledger'[a][t] = first + s - given + withdrawn'  BY <1>1, <1>5, <1>6, <2>1, <2>2, <3>2
    <3> QED  BY <2>2, <2>3, <2>6, <3>3
  <2>7. CASE ~(a = Owner /\ t = "USDC")
    <3>1. Effect(x, a, t) = 0  BY <1>3, <2>5, <2>7
    <3>2. ledger'[a][t] = first + s - given + 0 + 0  BY <1>4, <2>4, <2>5, <2>7, <3>1
    <3> QED  BY <2>1, <2>2, <2>3, <2>7, <3>2
  <2> QED  BY <2>6, <2>7
<1>11. KeepsNothing' /\ EventsAccountForBalances'
  BY <1>9, <1>10 DEF KeepsNothing, EventsAccountForBalances, Parties
<1> QED  BY <1>6, <1>8, <1>11

LEMMA DonationKeeps ==
  ASSUME MoneyInv, NEW e \in Employers, NEW c \in Contracts, NEW token \in Tokens, Donate(e, c, token)
  PROVE  EmployerLedger' /\ HistoryOK' /\ KeepsNothing' /\ EventsAccountForBalances'
<1>1. c \in Accounts /\ e \in Accounts /\ c # e  BY PartiesDiffer DEF Parties
<1>2. PICK x \in TransferRecords : /\ x = Transfer(token, e, c, 1)
         /\ \A a, t : Effect(x, a, t) = IF t # token THEN 0 ELSE (IF a = c THEN 1 ELSE 0) - (IF a = e THEN 1 ELSE 0)
  BY <1>1, TransferType
<1>3. /\ ledger' \in Ledgers
      /\ \A a \in Accounts, t \in Tokens : ledger'[a][t] = ledger[a][t] + Effect(x, a, t) /\ ledger[a][t] \in Int
  BY <1>2, PayMoves DEF Donate, MoneyInv, EmployerLedger, Ledgers
<1>4. /\ Covered(ledger') /\ UNCHANGED <<receipts, withdrawn>>
      /\ gifts \in [Employers \X Contracts \X Tokens -> Int]
  BY DEF Donate, MoneyInv, HistoryOK
<1>5. EmployerLedger'  BY <1>3, <1>4 DEF EmployerLedger, Covered
<1>6. HistoryOK'  BY <1>4, GiftAdds DEF MoneyInv, HistoryOK
<1>7. /\ \A d \in Contracts, t \in Tokens :
               GiftsTo(d, t)' = GiftsTo(d, t) + (IF d = c /\ t = token THEN 1 ELSE 0)
      /\ \A b \in Employers, t \in Tokens :
               GiftsOf(b, t)' = GiftsOf(b, t) + (IF b = e /\ t = token THEN 1 ELSE 0)
  BY <1>4, GiftAdds
<1>8. ASSUME NEW d \in Contracts, NEW t \in Tokens
      PROVE  ledger'[d][t] = GiftsTo(d, t)'
                + SumOf([i \in DOMAIN receipts' |-> PaidInto(receipts'[i], d, t)])
                - (IF d = "direct" /\ t = "USDC" THEN withdrawn' ELSE 0)
  <2>1. PICK g \in Int, s \in Int, w \in Int, n \in Int :
           /\ g = GiftsTo(d, t) /\ s = SumOf([i \in DOMAIN receipts |-> PaidInto(receipts[i], d, t)])
           /\ w = (IF d = "direct" /\ t = "USDC" THEN withdrawn ELSE 0)
           /\ n = (IF d = c /\ t = token THEN 1 ELSE 0)
    <3>1. GiftsTo(d, t) \in Int /\ SumOf([i \in DOMAIN receipts |-> PaidInto(receipts[i], d, t)]) \in Int
      BY GiftTypes, SumsOfReceipts DEF MoneyInv, HistoryOK
    <3>2. withdrawn \in Int  BY DEF MoneyInv, HistoryOK
    <3> QED  BY <3>1, <3>2
  <2>2. /\ GiftsTo(d, t)' = g + n /\ SumOf([i \in DOMAIN receipts' |-> PaidInto(receipts'[i], d, t)]) = s
        /\ w = (IF d = "direct" /\ t = "USDC" THEN withdrawn' ELSE 0)
    BY <1>4, <1>7, <2>1
  <2>3. ledger[d][t] = g + s - w  BY <2>1 DEF MoneyInv, KeepsNothing
  <2>4. d \in Accounts /\ d # e  BY PartiesDiffer DEF Parties
  <2>5. Effect(x, d, t) = n
    <3>1. CASE t # token  BY <1>2, <2>1, <3>1
    <3>2. CASE t = token
      <4>1. Effect(x, d, t) = (IF d = c THEN 1 ELSE 0) - 0  BY <1>2, <2>4, <3>2
      <4> QED  BY <2>1, <3>2, <4>1
    <3> QED  BY <3>1, <3>2
  <2>6. ledger'[d][t] = g + s - w + n  BY <1>3, <2>3, <2>4, <2>5
  <2>7. ledger'[d][t] = (g + n) + s - w  BY <2>1, <2>6
  <2> QED  BY <2>2, <2>7
<1>9. ASSUME NEW a \in Parties, NEW t \in Tokens
      PROVE  ledger'[a][t] = (IF a \in Employers THEN Funds ELSE 0)
            + SumOf([i \in DOMAIN receipts' |-> Received(receipts'[i], a, t)])
            - (IF a \in Employers THEN GiftsOf(a, t)' ELSE 0)
            + (IF a = Owner /\ t = "USDC" THEN withdrawn' ELSE 0)
  <2>1. PICK s \in Int, first \in Int, given \in Int, taken \in Int, n \in Int :
           /\ s = SumOf([i \in DOMAIN receipts |-> Received(receipts[i], a, t)])
           /\ first = (IF a \in Employers THEN Funds ELSE 0)
           /\ given = (IF a \in Employers THEN GiftsOf(a, t) ELSE 0)
           /\ taken = (IF a = Owner /\ t = "USDC" THEN withdrawn ELSE 0)
           /\ n = (IF a = e /\ t = token THEN 1 ELSE 0)
    <3>1. Funds \in Int  BY SettlementAssumption
    <3>2. a \in Employers => GiftsOf(a, t) \in Int  BY GiftTypes DEF MoneyInv, HistoryOK
    <3>3. withdrawn \in Int  BY DEF MoneyInv, HistoryOK
    <3>4. SumOf([i \in DOMAIN receipts |-> Received(receipts[i], a, t)]) \in Int
      BY SumsOfReceipts DEF MoneyInv, HistoryOK
    <3> QED  BY <3>1, <3>2, <3>3, <3>4
  <2>2. (IF a \in Employers THEN GiftsOf(a, t)' ELSE 0) = given + n
    <3>1. CASE a \in Employers  BY <1>7, <2>1, <3>1
    <3>2. CASE a \notin Employers  BY <2>1, <3>2
    <3> QED  BY <3>1, <3>2
  <2>3. /\ SumOf([i \in DOMAIN receipts' |-> Received(receipts'[i], a, t)]) = s
        /\ taken = (IF a = Owner /\ t = "USDC" THEN withdrawn' ELSE 0)
    BY <1>4, <2>1
  <2>4. ledger[a][t] = first + s - given + taken
    BY <2>1 DEF MoneyInv, EventsAccountForBalances, Parties
  <2>5. a \in Accounts /\ a # c  BY PartiesDiffer
  <2>6. Effect(x, a, t) = 0 - n
    <3>1. CASE t # token  BY <1>2, <2>1, <3>1
    <3>2. CASE t = token
      <4>1. Effect(x, a, t) = 0 - (IF a = e THEN 1 ELSE 0)  BY <1>2, <2>5, <3>2
      <4> QED  BY <2>1, <3>2, <4>1
    <3> QED  BY <3>1, <3>2
  <2>7. ledger'[a][t] = first + s - given + taken + (0 - n)  BY <1>3, <2>4, <2>5, <2>6
  <2>8. ledger'[a][t] = first + s - (given + n) + taken  BY <2>1, <2>7
  <2> QED  BY <2>1, <2>2, <2>3, <2>8
<1>10. KeepsNothing' /\ EventsAccountForBalances'
  BY <1>8, <1>9 DEF KeepsNothing, EventsAccountForBalances, Parties
<1> QED  BY <1>5, <1>6, <1>10

\* What a caller spends of its approval.
LEMMA SpendKeeps ==
  ASSUME AllowanceOK, NEW e \in Employers, NEW c \in Contracts, NEW token \in Tokens, NEW amount \in Nat,
         Spend(e, c, token, amount) \/ UNCHANGED allowance
  PROVE  AllowanceOK'
<1>1. CASE UNCHANGED allowance  BY <1>1 DEF AllowanceOK
<1>2. CASE Spend(e, c, token, amount)
  <2>1. Funds \in Nat /\ allowance[e][c][token] \in 0 .. Funds /\ allowance[e][c][token] >= amount
    BY <1>2, SettlementAssumption DEF AllowanceOK, Spend
  <2>2. allowance[e][c][token] - amount \in 0 .. Funds  BY <2>1
  <2> QED  BY <1>2, <2>2 DEF AllowanceOK, Spend
<1> QED  BY <1>1, <1>2

LEMMA AdministrationKeeps ==
  ASSUME MoneyInv
  PROVE  /\ \A c \in Contracts, args \in ConstructorArgs : Deploy(c, args) => MoneyInv'
         /\ \A c \in Contracts : Pause(c) \/ Unpause(c) => MoneyInv'
         /\ \A bps \in {0, FeeBps}, collector \in Collectors : UpdateTerms(bps, collector) => MoneyInv'
<1> USE DEF MoneyInv
<1>1. ASSUME NEW c \in Contracts, NEW args \in ConstructorArgs, Deploy(c, args) PROVE MoneyInv'
  <2>1. FeeBps \in 0 .. BpsUnit  BY SettlementAssumption
  <2>2. AllowanceOK' /\ StorageOK'  BY <1>1, <2>1 DEF Deploy, AllowanceOK, StorageOK
  <2> QED  BY <1>1, <2>2, NothingMoved DEF Deploy
<1>2. ASSUME NEW c \in Contracts, Pause(c) PROVE MoneyInv'
  <2>1. AllowanceOK' /\ StorageOK'  BY <1>2 DEF Pause, AllowanceOK, StorageOK
  <2> QED  BY <1>2, <2>1, NothingMoved DEF Pause
<1>3. ASSUME NEW c \in Contracts, Unpause(c) PROVE MoneyInv'
  <2>1. AllowanceOK' /\ StorageOK'  BY <1>3 DEF Unpause, AllowanceOK, StorageOK
  <2> QED  BY <1>3, <2>1, NothingMoved DEF Unpause
<1>4. ASSUME NEW bps \in {0, FeeBps}, NEW collector \in Collectors, UpdateTerms(bps, collector)
      PROVE  MoneyInv'
  <2>1. bps \in 0 .. BpsUnit  BY SettlementAssumption
  <2>2. AllowanceOK' /\ StorageOK'  BY <1>4, <2>1 DEF UpdateTerms, AllowanceOK, StorageOK
  <2> QED  BY <1>4, <2>2, NothingMoved DEF UpdateTerms
<1> QED  BY <1>1, <1>2, <1>3, <1>4

\* A call that settles a receipt, spends what it says and consumes at most one reference.
LEMMA CallKeeps ==
  ASSUME MoneyInv, NEW r, Settles(r), AllowanceOK',
         NEW c \in Contracts, NEW e \in Employers, NEW ref,
         UNCHANGED used \/ (ref \in Refs /\ used' = used \cup {ReferenceHash(c, e, ref)}),
         UNCHANGED <<deployed, paused, terms, gifts, withdrawn>>
  PROVE  MoneyInv'
<1>1. StorageOK'  BY DEF MoneyInv, StorageOK, ReferenceHash
<1> QED  BY <1>1, SettledKeeps DEF MoneyInv

LEMMA SameTokenKeeps ==
  ASSUME MoneyInv, NEW e \in Employers, NEW token \in Tokens,
         NEW payments \in Batches("payroll", e), NEW ref \in Refs,
         SameTokenPayroll(e, token, payments, ref)
  PROVE  MoneyInv'
<1>1. PICK r : Settles(r)  BY SameTokenSettles DEF MoneyInv
<1>2. "payroll" \in Contracts  BY DEF Contracts
<1>3. TotalOf(payments) \in Nat /\ FeesOf(payments, FeeBps) \in Nat
  <2>1. FeeBps \in 0 .. BpsUnit  BY SettlementAssumption
  <2> QED  BY <1>2, <2>1, BatchIsPayments, BatchSums
<1>4. PICK amount \in Nat : amount = TotalOf(payments) + FeesOf(payments, FeeBps)  BY <1>3
<1>5. Spend(e, "payroll", token, amount)  BY <1>4 DEF SameTokenPayroll
<1>6. AllowanceOK'  BY <1>2, <1>5, SpendKeeps DEF MoneyInv
<1>7. /\ used' = used \cup {ReferenceHash("payroll", e, ref)}
      /\ UNCHANGED <<deployed, paused, terms, gifts, withdrawn>>
  BY DEF SameTokenPayroll
<1> QED  BY <1>1, <1>2, <1>6, <1>7, CallKeeps

LEMMA CrossTokenKeeps ==
  ASSUME MoneyInv, NEW e \in Employers, NEW tokenIn \in Tokens,
         NEW payments \in Batches("payroll", e), NEW gross \in Amounts, NEW minimum, NEW ref \in Refs,
         NEW router \in RouterOutcomes,
         CrossTokenPayroll(e, tokenIn, payments, gross, minimum, ref, router)
  PROVE  MoneyInv'
<1>1. PICK r : Settles(r)  BY CrossTokenSettles DEF MoneyInv
<1>2. "payroll" \in Contracts /\ gross \in Nat  BY SettlementAssumption DEF Contracts, Amounts
<1>3. Spend(e, "payroll", tokenIn, gross) \/ UNCHANGED allowance  BY DEF CrossTokenPayroll, SpendInput
<1>4. AllowanceOK'  BY <1>2, <1>3, SpendKeeps DEF MoneyInv
<1>5. /\ used' = used \cup {ReferenceHash("payroll", e, ref)}
      /\ UNCHANGED <<deployed, paused, terms, gifts, withdrawn>>
  BY DEF CrossTokenPayroll
<1> QED  BY <1>1, <1>2, <1>4, <1>5, CallKeeps

LEMMA BatchKeeps ==
  ASSUME MoneyInv, NEW e \in Employers, NEW payments \in Batches("direct", e), NEW ref \in Refs,
         NEW minimum, BatchRouteAndPay(e, payments, minimum, ref)
  PROVE  MoneyInv'
<1>1. PICK r : Settles(r)  BY BatchSettles DEF MoneyInv, StorageOK
<1>2. "direct" \in Contracts /\ "USDC" \in Tokens  BY DEF Contracts, Tokens
<1>3. PICK amount \in Nat : amount = TotalOf(payments)  BY <1>2, BatchIsPayments, BatchSums
<1>4. Spend(e, "direct", "USDC", amount)  BY <1>3 DEF BatchRouteAndPay
<1>5. AllowanceOK'  BY <1>2, <1>4, SpendKeeps DEF MoneyInv
<1>6. /\ used' = used \cup {ReferenceHash("direct", e, ref)}
      /\ UNCHANGED <<deployed, paused, terms, gifts, withdrawn>>
  BY DEF BatchRouteAndPay
<1> QED  BY <1>1, <1>2, <1>5, <1>6, CallKeeps

LEMMA SwapKeeps ==
  ASSUME MoneyInv, NEW e \in Employers, NEW tokenIn \in Tokens, NEW gross \in 0 .. MaxAmount,
         NEW minimum \in 0 .. 1, NEW router \in RouterOutcomes,
         ExecuteSwap(e, tokenIn, gross, minimum, router)
  PROVE  MoneyInv'
<1>1. PICK r : Settles(r)  BY SwapSettles DEF MoneyInv
<1>2. "executor" \in Contracts /\ gross \in Nat  BY SettlementAssumption DEF Contracts
<1>3. Spend(e, "executor", tokenIn, gross) \/ UNCHANGED allowance  BY DEF ExecuteSwap, SpendInput
<1>4. AllowanceOK'  BY <1>2, <1>3, SpendKeeps DEF MoneyInv
<1>5. UNCHANGED <<used, deployed, paused, terms, gifts, withdrawn>>  BY DEF ExecuteSwap
<1> QED  BY <1>1, <1>2, <1>4, <1>5, CallKeeps

LEMMA MoneyStepKeeps ==
  ASSUME MoneyInv, [SettlementNext]_settlementVars
  PROVE  MoneyInv'
<1>1. ASSUME NEW amount \in Amounts, EmergencyWithdraw(amount) PROVE MoneyInv'
  <2>1. AllowanceOK' /\ StorageOK'
    BY <1>1 DEF EmergencyWithdraw, MoneyInv, AllowanceOK, StorageOK
  <2> QED  BY <1>1, <2>1, WithdrawalKeeps DEF MoneyInv
<1>2. ASSUME NEW e \in Employers, NEW c \in Contracts, NEW t \in Tokens, Approve(e, c, t, Funds)
      PROVE  MoneyInv'
  <2>1. Funds \in 0 .. Funds  BY SettlementAssumption
  <2>2. AllowanceOK'  BY <1>2, <2>1 DEF Approve, MoneyInv, AllowanceOK
  <2>3. StorageOK'  BY <1>2 DEF Approve, MoneyInv, StorageOK
  <2> QED  BY <1>2, <2>2, <2>3, NothingMoved DEF Approve, MoneyInv
<1>3. ASSUME NEW e \in Employers, NEW c \in Contracts, NEW t \in Tokens, Donate(e, c, t)
      PROVE  MoneyInv'
  <2>1. AllowanceOK' /\ StorageOK'  BY <1>3 DEF Donate, MoneyInv, AllowanceOK, StorageOK
  <2> QED  BY <1>3, <2>1, DonationKeeps DEF MoneyInv
<1>4. CASE UNCHANGED settlementVars
  <2>1. AllowanceOK' /\ StorageOK'  BY <1>4 DEF settlementVars, MoneyInv, AllowanceOK, StorageOK
  <2> QED  BY <1>4, <2>1, NothingMoved DEF settlementVars, MoneyInv
<1> QED  BY <1>1, <1>2, <1>3, <1>4, AdministrationKeeps, SameTokenKeeps, CrossTokenKeeps, BatchKeeps, SwapKeeps
       DEF SettlementNext

LEMMA MoneyInvAccounts ==
  ASSUME MoneyInv
  PROVE  SettlementTypeOK /\ KeepsNothing /\ EventsAccountForBalances
BY DEF MoneyInv, EmployerLedger, AllowanceOK, StorageOK, Ledgers, SettlementTypeOK

(* For any employers, staff, amounts, fees and calls, and whatever the      *)
(* router does: no contract ends a call richer or poorer, the events and    *)
(* the withdrawals explain the balance of everyone who pays or is paid, no  *)
(* balance is overdrawn, a reference pays one batch and nothing moves       *)
(* before the owner allowed it.                                             *)
THEOREM EveryUnitIsExplained == SettlementSpec => []MoneyIsAccounted
<1>1. MoneyInv /\ ReferencePaysOnce /\ ActivatedByOwner => MoneyIsAccounted
  BY MoneyInvAccounts DEF MoneyIsAccounted
<1> QED  BY <1>1, MoneyStarts, MoneyStepKeeps, ReferencesPayOnce, PTL DEF SettlementSpec
=============================================================================
