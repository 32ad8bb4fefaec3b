---------------------------- MODULE ActivityFeed ----------------------------
(***************************************************************************)
(* The activity history: the backend's synchronisation of verified records *)
(* into activity rows (activity.service.ts and its backfill), the cursor   *)
(* pages of the list endpoint, the scan of payroll logs in block ranges,   *)
(* and the page's hook, which syncs once per session before it reads.      *)
(***************************************************************************)
EXTENDS Naturals, Sequences, FiniteSets

CONSTANTS
  Replicas,        \* backend processes, each with its own syncFlights map
  Sources,         \* verified records: [id, kind, own, run, base, token]
  SyncThrottle,    \* SYNC_THROTTLE_MS
  SyncLease,       \* SYNC_LEASE_MS
  MaxSyncTime,     \* bound on the clock
  MaxSyncFaults,   \* bound on projections that fail half way
  EntryIds,        \* ids of listed rows, in an order unrelated to time
  PageLimit,       \* the list endpoint's limit
  MaxEntryTime,    \* bound on row creation times
  Tokens,          \* session tokens the page may hold
  MaxSessions,     \* bound on session changes and retries
  FirstBlock,      \* PAYROLL_HISTORY_FROM_BLOCK
  ChunkSize,       \* PAYROLL_HISTORY_CHUNK_SIZE
  LastBlock        \* bound on the chain's height

ASSUME ActivityAssumption ==
  /\ PageLimit \in Nat \ {0} /\ EntryIds \subseteq Nat
  /\ {SyncThrottle, SyncLease, FirstBlock, ChunkSize} \subseteq Nat

VARIABLES
  syncTime, syncState, flight, verified, activity, syncFaults,  \* synchronisation
  entries, entryTime, reader,                                   \* paging
  feed, syncs, fetches, queryCache, sessions,                   \* the hook
  head, scan                                                    \* payroll logs

syncVars == <<syncTime, syncState, flight, verified, activity, syncFaults>>
pageVars == <<entries, entryTime, reader>>
feedVars == <<feed, syncs, fetches, queryCache, sessions>>
scanVars == <<head, scan>>
activityVars == <<syncVars, pageVars, feedVars, scanVars>>

(* --------------------------- synchronisation ---------------------------- *)

NoFlight == [at |-> "none", now |-> 0, until |-> 0, snap |-> {}, todo |-> {}]

\* payrollRunReference: batches of a run are told apart by token and number;
\* the two tokens of one base are one run.
PayrollRunReference(s, all) ==
  LET sibling == \E t \in all : t.kind = "payroll" /\ t.base = s.base /\ t.token # s.token
  IN [base |-> s.base, token |-> IF sibling THEN "" ELSE s.token]

\* The run a payroll intent belongs to: its task's runReferenceId first.
RunReference(s, all) ==
  IF s.run # "" THEN [base |-> s.run, token |-> ""] ELSE PayrollRunReference(s, all)

\* The idempotency key of the activity row that shows s.
KeyOf(s, all) ==
  IF s.kind = "payroll" THEN <<"payroll-run", RunReference(s, all)>> ELSE <<s.kind, s.id>>

Keys(all) == {KeyOf(s, all) : s \in all}

SyncInit ==
  /\ syncTime = 0
  /\ syncState = [holder |-> "none", until |-> 0, next |-> 0]
  /\ flight = [p \in Replicas |-> NoFlight]
  /\ verified = {}
  /\ activity = {}
  /\ syncFaults = 0

\* A payment, transfer, payroll batch, swap or bridge is verified.
VerifyRecord(s) ==
  /\ verified' = verified \cup {s}
  /\ UNCHANGED <<syncTime, syncState, flight, activity, syncFaults>>

SyncTick ==
  /\ syncTime < MaxSyncTime
  /\ syncTime' = syncTime + 1
  /\ UNCHANGED <<syncState, flight, verified, activity, syncFaults>>

\* sync and the start of runSync: a replica that already has a flight joins
\* it; a throttled call still projects what is persisted.
CallSync(p) ==
  /\ flight[p].at = "none"
  /\ flight' = [flight EXCEPT ![p] = [NoFlight EXCEPT
                  !.at = IF syncState.next > syncTime THEN "project" ELSE "claim",
                  !.now = syncTime]]
  /\ UNCHANGED <<syncTime, syncState, verified, activity, syncFaults>>

\* The maintenance backfill projects without lease or throttle.
CallBackfill(p) ==
  /\ flight[p].at = "none"
  /\ flight' = [flight EXCEPT ![p] = [NoFlight EXCEPT !.at = "project"]]
  /\ UNCHANGED <<syncTime, syncState, verified, activity, syncFaults>>

\* The claim's where clause, with the clock read when the call began.
Claimable(p) == /\ syncState.until <= flight[p].now
                /\ syncState.next <= flight[p].now

ClaimSync(p) ==
  /\ flight[p].at = "claim"
  /\ IF Claimable(p)
     THEN LET until == flight[p].now + SyncLease
          IN /\ syncState' = [syncState EXCEPT !.holder = p, !.until = until]
             /\ flight' = [flight EXCEPT ![p].at = "project", ![p].until = until]
     ELSE flight' = [flight EXCEPT ![p] = NoFlight] /\ UNCHANGED syncState
  /\ UNCHANGED <<syncTime, verified, activity, syncFaults>>

\* projectPersisted reads the verified records of the principal's wallet.
ReadVerified(p) ==
  /\ flight[p].at = "project"
  /\ LET snap == {s \in verified : s.own}
     IN flight' = [flight EXCEPT ![p].at = "upsert", ![p].snap = snap, ![p].todo = Keys(snap)]
  /\ UNCHANGED <<syncTime, syncState, verified, activity, syncFaults>>

\* One upsert: the row's columns are recomputed from the records read.
UpsertActivity(p, k) ==
  LET f == flight[p]
  IN /\ f.at = "upsert"
     /\ activity' = {r \in activity : r.key # k}
                    \cup {[key |-> k, records |-> {s \in f.snap : KeyOf(s, f.snap) = k}]}
     /\ flight' = [flight EXCEPT ![p].todo = @ \ {k}]
     /\ UNCHANGED <<syncTime, syncState, verified, syncFaults>>

\* variant: the state row is updated whoever holds it
AnyHolder(p) == TRUE

StillHolds(p) == syncState.holder = p

\* The lease is given back, after success and after failure alike.
FinishSync(p) ==
  /\ flight[p].at = "upsert"
  /\ \/ flight[p].todo = {} /\ UNCHANGED syncFaults
     \/ flight[p].todo # {} /\ syncFaults < MaxSyncFaults /\ syncFaults' = syncFaults + 1
  /\ syncState' = IF flight[p].until > 0 /\ StillHolds(p)
                  THEN [holder |-> "none", until |-> 0, next |-> syncTime + SyncThrottle]
                  ELSE syncState
  /\ flight' = [flight EXCEPT ![p] = NoFlight]
  /\ UNCHANGED <<syncTime, verified, activity>>

\* What is fair: the owner keeps opening the page, and calls return.
SyncStep(p) ==
  \/ CallSync(p) \/ ClaimSync(p) \/ ReadVerified(p) \/ FinishSync(p)
  \/ \E k \in flight[p].todo : UpsertActivity(p, k)

SyncNext ==
  \/ \E s \in Sources \ verified : VerifyRecord(s)
  \/ SyncTick
  \/ \E p \in Replicas : SyncStep(p) \/ CallBackfill(p)

(* -------------------------------- paging -------------------------------- *)

NoCursor == [on |-> FALSE, time |-> 0, id |-> 0]

PagingInit ==
  /\ entries = {}
  /\ entryTime = 1
  /\ reader = [at |-> "idle", cursor |-> NoCursor, existed |-> {}, got |-> {}, repeated |-> FALSE]

InsertEntry(i) ==
  /\ i \notin {e.id : e \in entries}
  /\ entries' = entries \cup {[time |-> entryTime, id |-> i]}
  /\ UNCHANGED <<entryTime, reader>>

EntryTick ==
  /\ entryTime < MaxEntryTime
  /\ entryTime' = entryTime + 1
  /\ UNCHANGED <<entries, reader>>

\* orderBy createdAt desc, id desc.
Before(d, e) == d.time > e.time \/ (d.time = e.time /\ d.id > e.id)

AfterCursor(e, c) == ~c.on \/ e.time < c.time \/ (e.time = c.time /\ e.id < c.id)

OpenList ==
  /\ reader.at = "idle"
  /\ reader' = [reader EXCEPT !.at = "reading", !.existed = entries]
  /\ UNCHANGED <<entries, entryTime>>

\* list: one page and the cursor of its last row.
ReadPage ==
  LET rest == {e \in entries : AfterCursor(e, reader.cursor)}
      items == {e \in rest : Cardinality({d \in rest : Before(d, e)}) < PageLimit}
      last == CHOOSE e \in items : \A d \in items \ {e} : Before(d, e)
      more == Cardinality(rest) > PageLimit
  IN /\ reader.at = "reading"
     /\ reader' = [reader EXCEPT
                     !.at = IF more THEN "reading" ELSE "done",
                     !.cursor = IF more THEN [on |-> TRUE, time |-> last.time, id |-> last.id]
                                ELSE NoCursor,
                     !.repeated = @ \/ items \cap reader.got # {},
                     !.got = @ \cup items]
     /\ UNCHANGED <<entries, entryTime>>

PagingNext == (\E i \in EntryIds : InsertEntry(i)) \/ EntryTick \/ OpenList \/ ReadPage

(* ------------------------------- the hook ------------------------------- *)

Signed == feed.token # "none"

FeedInit ==
  /\ feed = [token |-> "none", ready |-> "none", started |-> {}, generation |-> 0, failed |-> FALSE]
  /\ syncs = {}
  /\ fetches = {}
  /\ queryCache = {}
  /\ sessions = 0

\* variant: the effect's cleanup leaves the scope marked as started
CleanupKeeps(f) == [f EXCEPT !.generation = @ + 1]

\* The effect's cleanup: its sync no longer counts and may be started anew.
Cleanup(f) == [f EXCEPT !.generation = @ + 1, !.started = @ \ {f.token}]

\* The effect: one sync per scope that is neither ready nor started.
Starts(f) == f.token # "none" /\ f.ready # f.token /\ f.token \notin f.started

RunEffect(f) ==
  IF Starts(f)
  THEN /\ feed' = [f EXCEPT !.generation = @ + 1, !.started = @ \cup {f.token}]
       /\ syncs' = syncs \cup {[token |-> f.token, generation |-> f.generation + 1]}
  ELSE feed' = f /\ UNCHANGED syncs

\* The query key carries the session's scope.
QueryKey(t) == t

\* The session of the page changes: another sign-in, a sign-out. The other
\* scopes' queries are removed.
SwitchSession(t) ==
  /\ sessions < MaxSessions
  /\ t # feed.token
  /\ sessions' = sessions + 1
  /\ RunEffect([Cleanup(feed) EXCEPT !.token = t, !.failed = FALSE])
  /\ queryCache' = {c \in queryCache : c.key = QueryKey(t)}
  /\ UNCHANGED fetches

\* POST /activities/sync answers; a failed one may be started again.
SyncAnswers(s, ok) ==
  /\ LET current == feed.generation = s.generation
         after == syncs \ {s}
     IN IF ok
        THEN /\ feed' = IF current THEN [Cleanup(feed) EXCEPT !.ready = s.token] ELSE feed
             /\ syncs' = after
        ELSE /\ feed' = [feed EXCEPT !.started = @ \ {s.token}, !.failed = @ \/ current]
             /\ syncs' = after
  /\ UNCHANGED <<fetches, queryCache, sessions>>

\* The list query runs once the scope is ready.
CanRead == Signed /\ feed.ready = feed.token

FetchFeed ==
  /\ CanRead
  /\ ~\E c \in queryCache : c.key = QueryKey(feed.token)
  /\ feed.token \notin fetches
  /\ fetches' = fetches \cup {feed.token}
  /\ UNCHANGED <<feed, syncs, queryCache, sessions>>

FeedFetched(t) ==
  /\ fetches' = fetches \ {t}
  /\ queryCache' = {c \in queryCache : c.key # QueryKey(t)} \cup {[key |-> QueryKey(t), of |-> t]}
  /\ UNCHANGED <<feed, syncs, sessions>>

RetryFeed ==
  /\ Signed
  /\ sessions < MaxSessions
  /\ sessions' = sessions + 1
  /\ RunEffect([Cleanup(feed) EXCEPT !.failed = FALSE, !.ready = "none"])
  /\ UNCHANGED <<fetches, queryCache>>

\* What is fair: the page's requests are answered.
FeedStep ==
  \/ \E s \in syncs, ok \in BOOLEAN : SyncAnswers(s, ok)
  \/ FetchFeed
  \/ \E t \in fetches : FeedFetched(t)

FeedNext ==
  \/ FeedStep
  \/ \E t \in Tokens \cup {"none"} : SwitchSession(t)
  \/ RetryFeed

Shown == IF CanRead THEN {c.of : c \in {d \in queryCache : d.key = QueryKey(feed.token)}} ELSE {}

(* ------------------------------ payroll logs ---------------------------- *)

ScanInit ==
  /\ head = FirstBlock
  /\ scan = [at |-> "idle", upTo |-> 0, from |-> FirstBlock, seen |-> <<>>]

Grow ==
  /\ head < LastBlock
  /\ head' = head + 1
  /\ UNCHANGED scan

\* getWalletPayrollHistory reads the head once.
StartScan ==
  /\ scan.at = "idle"
  /\ scan' = [scan EXCEPT !.at = "scanning", !.upTo = head]
  /\ UNCHANGED head

NextFrom(to) == to + 1

FetchLogs ==
  LET to == IF scan.from + ChunkSize > scan.upTo THEN scan.upTo ELSE scan.from + ChunkSize
  IN /\ scan.at = "scanning"
     /\ IF scan.from > scan.upTo
        THEN scan' = [scan EXCEPT !.at = "done"]
        ELSE scan' = [scan EXCEPT !.from = NextFrom(to), !.seen = Append(@, <<scan.from, to>>)]
     /\ UNCHANGED head

ScanNext == Grow \/ StartScan \/ FetchLogs

ActivityInit == SyncInit /\ PagingInit /\ FeedInit /\ ScanInit

ActivityNext ==
  \/ SyncNext /\ UNCHANGED <<pageVars, feedVars, scanVars>>
  \/ PagingNext /\ UNCHANGED <<syncVars, feedVars, scanVars>>
  \/ FeedNext /\ UNCHANGED <<syncVars, pageVars, scanVars>>
  \/ ScanNext /\ UNCHANGED <<syncVars, pageVars, feedVars>>

ActivitySpec == ActivityInit /\ [][ActivityNext]_activityVars

(* ------------------------------ properties ------------------------------ *)

\* Of the synchronisations that hold a lease, at most one has a lease that
\* has not expired: a late finisher never frees the lease of the replica
\* that took over.
OneSyncPerLease ==
  Cardinality({p \in Replicas : flight[p].at \in {"project", "upsert"}
                                /\ flight[p].until > syncTime}) <= 1

\* Every verified record with a known run is shown by one activity row at
\* most, in whatever order the tokens of the run complete and whichever
\* replica, throttled call or backfill projected them.
ShownOnce ==
  \A s \in verified : s.run # "" \/ s.kind # "payroll"
    => Cardinality({r \in activity : s \in r.records}) <= 1

\* However stale the snapshots of overlapping projections, the rows finally
\* show every verified record of the owner, and keep showing it.
HistoryConverges ==
  <>[](\A s \in verified : s.own => \E r \in activity : s \in r.records)

\* Reading the list to its end while rows are added delivers every row that
\* existed when it was opened, and none twice.
PagesAreExact ==
  /\ ~reader.repeated
  /\ reader.at = "done" => reader.existed \subseteq reader.got

\* The page never shows rows fetched with another session's token.
ShownBelongsToSession == Shown \subseteq {feed.token}

\* The page does not load for ever: through any switching of sessions and
\* failed synchronisations it comes to show rows or an error.
FeedSettles == []<>(~Signed \/ feed.failed \/ Shown # {})

\* The scanned ranges cover the blocks up to the head read at the start,
\* each block exactly once, while the chain grows.
BlocksScannedOnce ==
  LET covers(b) == Cardinality({i \in DOMAIN scan.seen : b \in scan.seen[i][1]..scan.seen[i][2]})
  IN \A b \in FirstBlock..LastBlock :
       /\ covers(b) <= 1
       /\ scan.at = "done" => covers(b) = IF b <= scan.upTo THEN 1 ELSE 0

\* The feed is faithful to the records: no overlapping syncs, each operation
\* once, in exact pages, to its own session, from blocks scanned once.
FeedIsFaithful ==
    /\ OneSyncPerLease
    /\ ShownOnce
    /\ PagesAreExact
    /\ ShownBelongsToSession
    /\ BlocksScannedOnce
=============================================================================
