-------------------------- MODULE BridgeLifecycle --------------------------
(***************************************************************************)
(* BridgeLifecycleService: the BridgeTransaction rows of CCTP transfers and *)
(* the handlers of /bridge/intents.  Every handler reads the row once,      *)
(* checks that snapshot, perhaps asks Circle or the destination chain, and  *)
(* then writes the row by id: the UPDATEs name no status and replace the    *)
(* whole result document by the snapshot's plus the handler's own fields.   *)
(*                                                                          *)
(* A CCTP message is named by the burn it attests, so burn b, the message   *)
(* of b, its hash and its nonce are one value.  A request whose checks fail *)
(* changes nothing and is not modelled.                                     *)
(***************************************************************************)
EXTENDS Naturals, FiniteSets

CONSTANTS
    Ids,         \* BridgeTransaction ids
    RequestKeys, \* idempotency keys
    KeyOf,       \* KeyOf[i]: the idempotency key row i is created with
    Approvals,   \* approval transactions
    Burns,       \* source transactions
    Matching,    \* the burns whose message matches the intents' parameters
    Mints,       \* destination transactions
    Receives,    \* Receives[m]: the message that m delivers
    Leases,      \* destination leases, a bound on the authorizations
    Handlers,
    None         \* an absent value

ASSUME BridgeAssumption ==
    /\ KeyOf \in [Ids -> RequestKeys]
    /\ Matching \subseteq Burns
    /\ Receives \in [Mints -> Burns]
    /\ None \notin Ids \cup RequestKeys \cup Approvals \cup Burns \cup Mints \cup Leases

VARIABLES
    row,         \* status and result document
    nonce,       \* the unique nonce column
    messageHash, \* the unique messageHash column
    destinationHash, \* the unique destinationTransactionHash column
    lease,       \* destinationLeaseId and whether it is unexpired
    task,        \* status of the Task row
    readable,    \* the intent's destination chain has a configured RPC
    issued,      \* leases handed out so far
    iris,        \* what Circle's attestation service says of each burn
    chain,       \* the receipts of destination transactions
    pc, local

columns == <<nonce, messageHash, destinationHash>>
rowVars == <<row, columns, lease, task, readable>>
world == <<issued, iris, chain>>
handlerVars == <<pc, local>>
vars == <<rowVars, world, handlerVars>>

BridgeStatuses == {"idle", "approval_confirmed", "source_confirmed",
                   "waiting_for_attestation", "attestation_ready",
                   "awaiting_destination_signature", "verifying_destination",
                   "completed"}

(* BridgeLifecycleResult, with the fields that are written together as one. *)
Results == [approval : Approvals \cup {None}, source : Burns \cup {None},
            attested : Burns \cup {None}, dest : Mints \cup {None},
            completed : BOOLEAN, verified : BOOLEAN]

NoResult == [approval |-> None, source |-> None, attested |-> None, dest |-> None,
             completed |-> FALSE, verified |-> FALSE]

NoLease == [id |-> None, live |-> FALSE]

(* A request: the operation, the row, its arguments and the row's result as *)
(* read.                                                                    *)
Locals == [op : {"none", "create", "approval", "source", "attestation", "destination",
                 "authorize", "submit", "verify"},
           id : Ids \cup {None},
           arg : RequestKeys \cup Approvals \cup Burns \cup Mints \cup {None},
           message : Burns \cup {None},
           seen : Results]

Request(op, i, arg, message, seen) ==
    [op |-> op, id |-> i, arg |-> arg, message |-> message, seen |-> seen]

IdleLocal == Request("none", None, None, None, NoResult)

Init ==
    /\ row = [i \in Ids |-> [status |-> "absent", result |-> NoResult]]
    /\ nonce = [i \in Ids |-> None]
    /\ messageHash = [i \in Ids |-> None]
    /\ destinationHash = [i \in Ids |-> None]
    /\ lease = [i \in Ids |-> NoLease]
    /\ task = [i \in Ids |-> "absent"]
    /\ readable \in [Ids -> BOOLEAN]
    /\ issued = {}
    /\ iris = [b \in Burns |-> "not_indexed"]
    /\ chain = [m \in Mints |-> "unseen"]
    /\ pc = [p \in Handlers |-> "idle"]
    /\ local = [p \in Handlers |-> IdleLocal]

Exists(i) == row[i].status # "absent"
Result(i) == row[i].result

Begin(p, label, r) ==
    /\ pc[p] = "idle"
    /\ pc' = [pc EXCEPT ![p] = label]
    /\ local' = [local EXCEPT ![p] = r]
    /\ UNCHANGED <<rowVars, world>>

Return(p) == /\ pc' = [pc EXCEPT ![p] = "idle"]
             /\ local' = [local EXCEPT ![p] = IdleLocal]

(* prisma.bridgeTransaction.update({ where: { id } }) *)
WriteRow(p, s, result) ==
    row' = [row EXCEPT ![local[p].id] = [status |-> s, result |-> result]]

(* Variant: no unique index. *)
NoUniqueIndex(column, i, v) == TRUE

(* The unique indexes: SQL NULL never conflicts. *)
Free(column, i, v) == \A j \in Ids \ {i} : column[j] # v

-----------------------------------------------------------------------------
(* createIntent: look the idempotency key up, then create task and row. *)
CreateRead(p, key) ==
    /\ \A i \in Ids : KeyOf[i] = key => ~Exists(i)
    /\ Begin(p, "create", Request("create", None, key, None, NoResult))

CreateWrite(p) ==
    /\ pc[p] = "create"
    /\ \E i \in Ids :
        /\ KeyOf[i] = local[p].arg /\ ~Exists(i)
        /\ row' = [row EXCEPT ![i] = [status |-> "idle", result |-> NoResult]]
        /\ task' = [task EXCEPT ![i] = "bridge_intent"]
    /\ Return(p)
    /\ UNCHANGED <<columns, lease, readable, world>>

(* reportApproval *)
ApprovalRead(p, i, a) ==
    /\ Exists(i) /\ Result(i).approval = None
    /\ Begin(p, "write", Request("approval", i, a, None, Result(i)))

ApprovalWrite(p) ==
    /\ pc[p] = "write" /\ local[p].op = "approval"
    /\ WriteRow(p, "approval_confirmed", [local[p].seen EXCEPT !.approval = local[p].arg])
    /\ Return(p)
    /\ UNCHANGED <<columns, lease, task, readable, world>>

(* Variant: a second burn hash replaces the first. *)
ReplacingSource(p, i, b) ==
    Exists(i) /\ Begin(p, "write", Request("source", i, b, None, Result(i)))

(* reportSource *)
SourceRead(p, i, b) ==
    /\ Exists(i) /\ Result(i).source = None
    /\ Begin(p, "write", Request("source", i, b, None, Result(i)))

SourceWrite(p) ==
    /\ pc[p] = "write" /\ local[p].op = "source"
    /\ WriteRow(p, "source_confirmed", [local[p].seen EXCEPT !.source = local[p].arg])
    /\ Return(p)
    /\ UNCHANGED <<columns, lease, task, readable, world>>

-----------------------------------------------------------------------------
(* refreshAttestation, of getAttestation and reattest *)
AttestationRead(p, i) ==
    /\ Exists(i) /\ Result(i).source # None
    /\ Begin(p, "fetch", Request("attestation", i, None, None, Result(i)))

(* Variant: the fetched message is not compared with the intent. *)
AnyAttestation(p) ==
    LET b == local[p].seen.source IN
    /\ pc[p] = "fetch" /\ local[p].op = "attestation"
    /\ iris[b] = "complete"
    /\ pc' = [pc EXCEPT ![p] = "write"]
    /\ local' = [local EXCEPT ![p] = [@ EXCEPT !.message = b]]
    /\ UNCHANGED <<rowVars, world>>

(* matchesBridgeAttestation, of the burn's message *)
MatchesIntent(b) == b \in Matching

(* fetchAttestation: complete, pending, or unavailable (503). *)
AttestationFetch(p) ==
    LET b == local[p].seen.source IN
    /\ pc[p] = "fetch" /\ local[p].op = "attestation"
    /\ \/ /\ iris[b] = "complete" /\ MatchesIntent(b)
          /\ pc' = [pc EXCEPT ![p] = "write"]
          /\ local' = [local EXCEPT ![p] = [@ EXCEPT !.message = b]]
       \/ iris[b] # "complete" /\ pc' = [pc EXCEPT ![p] = "write"] /\ UNCHANGED local
       \/ Return(p)
    /\ UNCHANGED <<rowVars, world>>

AttestationWrite(p) ==
    LET r == local[p]
        i == r.id
        b == r.message
        free == Free(nonce, i, b) /\ Free(messageHash, i, b) IN
    /\ pc[p] = "write" /\ r.op = "attestation"
    /\ \/ b = None /\ WriteRow(p, "waiting_for_attestation", r.seen) /\ UNCHANGED columns
       \/ /\ b # None /\ free
          /\ WriteRow(p, "attestation_ready", [r.seen EXCEPT !.attested = b])
          /\ nonce' = [nonce EXCEPT ![i] = b]
          /\ messageHash' = [messageHash EXCEPT ![i] = b]
          /\ UNCHANGED destinationHash
       \/ b # None /\ ~free /\ UNCHANGED <<row, columns>>
    /\ Return(p)
    /\ UNCHANGED <<lease, task, readable, world>>

-----------------------------------------------------------------------------
(* reportDestination: the reported message is compared only with an         *)
(* attestation that is already there.  (A document without a destination    *)
(* hash has no message hash but that of its attestation.)                   *)
DestinationRead(p, i, m, b) ==
    /\ Exists(i) /\ Result(i).dest = None
    /\ Result(i).attested \in {None, b}
    /\ Begin(p, "write", Request("destination", i, m, b, Result(i)))

(* authorizeDestination *)
AuthorizeRead(p, i) ==
    /\ Exists(i) /\ row[i].status = "attestation_ready"
    /\ Begin(p, "write", Request("authorize", i, None, None, Result(i)))

AuthorizeWrite(p) ==
    LET i == local[p].id IN
    /\ pc[p] = "write" /\ local[p].op = "authorize"
    /\ row' = [row EXCEPT ![i].status = "awaiting_destination_signature"]
    /\ \E l \in Leases \ issued :
        /\ lease' = [lease EXCEPT ![i] = [id |-> l, live |-> TRUE]]
        /\ issued' = issued \cup {l}
    /\ Return(p)
    /\ UNCHANGED <<columns, task, readable, iris, chain>>

(* submitDestination *)
SubmitRead(p, i, m, b, l) ==
    /\ Exists(i) /\ lease[i] = [id |-> l, live |-> TRUE]
    /\ Begin(p, "write", Request("submit", i, m, b, Result(i)))

(* The UPDATE of reportDestination and of submitDestination, which also     *)
(* gives the lease back.                                                    *)
DestinationWrite(p) ==
    LET r == local[p]
        i == r.id
        free == Free(messageHash, i, r.message) /\ Free(destinationHash, i, r.arg) IN
    /\ pc[p] = "write" /\ r.op \in {"destination", "submit"}
    /\ \/ /\ free
          /\ WriteRow(p, "verifying_destination", [r.seen EXCEPT !.dest = r.arg])
          /\ messageHash' = [messageHash EXCEPT ![i] = r.message]
          /\ destinationHash' = [destinationHash EXCEPT ![i] = r.arg]
          /\ lease' = IF r.op = "submit" THEN [lease EXCEPT ![i] = NoLease] ELSE lease
       \/ ~free /\ UNCHANGED <<row, messageHash, destinationHash, lease>>
    /\ Return(p)
    /\ UNCHANGED <<nonce, task, readable, world>>

-----------------------------------------------------------------------------
(* verifyDestination *)
VerifyRead(p, i) ==
    /\ Exists(i) /\ Result(i).attested # None /\ Result(i).dest # None
    /\ Begin(p, "fetch", Request("verify", i, None, None, Result(i)))

(* proveDestinationReceipt: without an RPC there is nothing to prove; a     *)
(* missing receipt, an RPC failure and a mismatch end the request.          *)
Proves(m, b) == chain[m] = "success" /\ Receives[m] = b

VerifyProve(p) ==
    LET r == local[p] IN
    /\ pc[p] = "fetch" /\ r.op = "verify"
    /\ \/ /\ ~readable[r.id] \/ Proves(r.seen.dest, r.seen.attested)
          /\ pc' = [pc EXCEPT ![p] = "write"] /\ UNCHANGED local
       \/ readable[r.id] /\ Return(p)
    /\ UNCHANGED <<rowVars, world>>

VerifyWrite(p) ==
    LET r == local[p]
        i == r.id IN
    /\ pc[p] = "write" /\ r.op = "verify"
    /\ task' = [task EXCEPT ![i] = "completed"]
    /\ WriteRow(p, "completed", [r.seen EXCEPT !.completed = TRUE,
                                               !.verified = @ \/ readable[i]])
    /\ Return(p)
    /\ UNCHANGED <<columns, lease, readable, world>>

-----------------------------------------------------------------------------
Crash(p) == pc[p] # "idle" /\ Return(p) /\ UNCHANGED <<rowVars, world>>

(* Circle, the destination chain and the clock. *)
Attest(b) ==
    /\ iris[b] # "complete"
    /\ iris' = [iris EXCEPT ![b] = "complete"]
    /\ UNCHANGED <<issued, chain>>

Mine(m, outcome) ==
    /\ chain[m] = "unseen"
    /\ chain' = [chain EXCEPT ![m] = outcome]
    /\ UNCHANGED <<issued, iris>>

LeaseExpires(i) ==
    /\ lease[i].live
    /\ lease' = [lease EXCEPT ![i] = [@ EXCEPT !.live = FALSE]]
    /\ UNCHANGED <<row, columns, task, readable, world, handlerVars>>

World ==
    /\ \/ \E b \in Burns : Attest(b)
       \/ \E m \in Mints : \E outcome \in {"success", "reverted"} : Mine(m, outcome)
    /\ UNCHANGED <<rowVars, handlerVars>>

Read(p) ==
    \/ \E key \in RequestKeys : CreateRead(p, key)
    \/ \E i \in Ids :
        \/ \E a \in Approvals : ApprovalRead(p, i, a)
        \/ \E b \in Burns : SourceRead(p, i, b)
        \/ AttestationRead(p, i) \/ AuthorizeRead(p, i) \/ VerifyRead(p, i)
        \/ \E m \in Mints : \E b \in Burns :
            DestinationRead(p, i, m, b) \/ \E l \in Leases : SubmitRead(p, i, m, b, l)

Step(p) ==
    \/ CreateWrite(p) \/ ApprovalWrite(p) \/ SourceWrite(p)
    \/ AttestationFetch(p) \/ AttestationWrite(p)
    \/ AuthorizeWrite(p) \/ DestinationWrite(p)
    \/ VerifyProve(p) \/ VerifyWrite(p)

Next ==
    \/ \E p \in Handlers : Read(p) \/ Step(p) \/ Crash(p)
    \/ \E i \in Ids : LeaseExpires(i)
    \/ World

Spec == Init /\ [][Next]_vars

-----------------------------------------------------------------------------
TypeOK ==
    /\ row \in [Ids -> [status : BridgeStatuses \cup {"absent"}, result : Results]]
    /\ nonce \in [Ids -> Burns \cup {None}]
    /\ messageHash \in [Ids -> Burns \cup {None}]
    /\ destinationHash \in [Ids -> Mints \cup {None}]
    /\ lease \in [Ids -> [id : Leases \cup {None}, live : BOOLEAN]]
    /\ task \in [Ids -> {"absent", "bridge_intent", "completed"}]
    /\ readable \in [Ids -> BOOLEAN]
    /\ issued \subseteq Leases
    /\ iris \in [Burns -> {"not_indexed", "complete"}]
    /\ chain \in [Mints -> {"unseen", "success", "reverted"}]
    /\ pc \in [Handlers -> {"idle", "create", "fetch", "write"}]
    /\ local \in [Handlers -> Locals]

(* However requests overlap and overwrite each other, the result document   *)
(* stays coherent, because each write derives it from one snapshot: an      *)
(* attestation is Circle's attestation of the burn recorded beside it and   *)
(* matches the intent, and a completion rests on an attestation and a mint. *)
Coherent(r) ==
    /\ r.attested # None => /\ r.attested = r.source
                            /\ r.attested \in Matching
                            /\ iris[r.attested] = "complete"
    /\ r.completed => r.attested # None /\ r.dest # None
    /\ r.verified => r.completed

EvidenceIsCoherent ==
    \A i \in Ids : /\ Coherent(Result(i))
                   /\ row[i].status = "completed" => Result(i).completed /\ task[i] = "completed"

(* The task of an intent whose destination chain can be read is completed   *)
(* only when some destination transaction has delivered a message that      *)
(* Circle attested and that matches the intent (verifyDestination).         *)
CompletedIsMinted ==
    \A i \in Ids : task[i] = "completed" /\ readable[i] =>
        \E m \in Mints : /\ Proves(m, Receives[m])
                         /\ Receives[m] \in Matching
                         /\ iris[Receives[m]] = "complete"

(* The approval, the burn and the attestation of an intent are replaced or  *)
(* lost only by a request that works on a stale snapshot of the row: the    *)
(* checks of reportApproval, reportSource and refreshAttestation are enough *)
(* whenever requests do not overlap.                                        *)
Stale(p) == pc[p] = "write" /\ local[p].id # None /\ local[p].seen # Result(local[p].id)

EvidenceIsKept ==
    [][\A i \in Ids :
         \/ \A f \in {"approval", "source", "attested"} :
                Result(i)[f] # None => Result(i)'[f] = Result(i)[f]
         \/ \E p \in Handlers : Stale(p) /\ local[p].id = i /\ pc'[p] = "idle"]_vars

(* While requests do not overlap, a burn backs one intent only: the unique  *)
(* nonce column refuses to attest it for a second one (refreshAttestation). *)
OneIntentPerMessage ==
    \A i, j \in Ids : i # j /\ Result(i).attested # None
                      => Result(i).attested # Result(j).attested

(* The result of an intent is coherent with the chains: types, evidence     *)
(* that belongs together, and completion by a real mint.                    *)
ResultIsCoherent == TypeOK /\ EvidenceIsCoherent /\ CompletedIsMinted
=============================================================================
