-------------------------- MODULE ExecutionIntent --------------------------
(***************************************************************************)
(* ExecutionIntentController and ExecutionIntentService: the request        *)
(* handlers of /execution-intents.  A handler runs in a slot p; between two *)
(* awaited database or RPC calls any other slot may run.  What a handler    *)
(* read before an await is kept in its locals and may be stale when used.   *)
(* A handler that throws (409, 400, 422, 503) ends without further effect.  *)
(*                                                                          *)
(* Access keys (assertAccess) are immutable and derived from the request    *)
(* fingerprint: a request with the wrong key is refused before any step     *)
(* modelled here.                                                           *)
(***************************************************************************)
EXTENDS IntentStore

CONSTANTS
    Handlers,   \* concurrent request slots
    SendKeys,   \* intents of operation SEND: the only ones /verify can complete
    NoKey       \* the key of an idle slot

ASSUME HandlerAssumption == SendKeys \subseteq Keys /\ NoKey \notin Keys

VARIABLES
    pc,         \* the next await of the handler in slot p
    local       \* its request and what it has read

handlerVars == <<pc, local>>
vars == <<storeVars, handlerVars>>

Labels == {"idle",
           "prepareRead", "prepareLease", "prepareWrite",
           "recoverRead", "bindRead", "bindLease", "bindWrite",
           "cancelRead", "cancelWrite",
           "verifyRead", "verifyAdvance", "verifyReceipt",
           "completeRead", "completeWrite"}

Locals == [key : Keys \cup {NoKey},
           hash : Hashes \cup {NoHash},       \* request body, later the verified hash
           owner : Owners \cup {NoOwner},     \* request body leaseOwner
           recovery : BOOLEAN,                \* the recovery argument of bindTransactionHash
           seen : Statuses \cup {"ABSENT"},   \* status column of the last read
           stage : 0..3]                      \* last step of beginVerification taken

NewLocal(k, h, o, recovery) ==
    [key |-> k, hash |-> h, owner |-> o, recovery |-> recovery,
     seen |-> "ABSENT", stage |-> 0]

IdleLocal == NewLocal(NoKey, NoHash, NoOwner, FALSE)

Init == /\ StoreInit
        /\ pc = [p \in Handlers |-> "idle"]
        /\ local = [p \in Handlers |-> IdleLocal]

Goto(p, label) == pc' = [pc EXCEPT ![p] = label]

(* The handler answers, with a result or with an error. *)
Return(p) == /\ Goto(p, "idle")
             /\ local' = [local EXCEPT ![p] = IdleLocal]

Abandon(p) == Return(p) /\ UNCHANGED storeVars

-----------------------------------------------------------------------------
(* POST acquire: one serializable transaction. *)
Acquire(k, d) == AcquireCreate(k, d) /\ UNCHANGED handlerVars

(* A request for an existing intent arrives at a free slot. *)
Arrive(p, k, h, o, recovery, label) ==
    /\ pc[p] = "idle"
    /\ Exists(k)
    /\ Goto(p, label)
    /\ local' = [local EXCEPT ![p] = NewLocal(k, h, o, recovery)]
    /\ UNCHANGED storeVars

Request(p) ==
    \E k \in Keys :
        \/ \E o \in Owners : Arrive(p, k, NoHash, o, FALSE, "prepareRead")
        \/ \E h \in Hashes : \E o \in Owners \cup {NoOwner} :
                Arrive(p, k, h, o, FALSE, "bindRead")
        \/ \E h \in Hashes : Arrive(p, k, h, NoOwner, TRUE, "recoverRead")
        \/ Arrive(p, k, NoHash, NoOwner, FALSE, "cancelRead")
        \/ Arrive(p, k, NoHash, NoOwner, FALSE, "verifyRead")

-----------------------------------------------------------------------------
(* prepareWalletSignature *)
MayOpen(s, h) == s \in {"CREATED", "FAILED_RETRYABLE"} /\ h = NoHash

PrepareRead(p) ==
    LET k == local[p].key IN
    /\ pc[p] = "prepareRead"
    /\ \/ /\ MayOpen(status[k], transactionHash[k])
          /\ Goto(p, "prepareLease")
          /\ local' = [local EXCEPT ![p].seen = status[k]]
          /\ UNCHANGED storeVars
       \/ ~MayOpen(status[k], transactionHash[k]) /\ Abandon(p)

PrepareLease(p) ==
    LET k == local[p].key IN
    /\ pc[p] = "prepareLease"
    /\ \/ LeaseWrite(k, local[p].owner) /\ Goto(p, "prepareWrite") /\ UNCHANGED local
       \/ ~LeaseFree(k) /\ Abandon(p)

PrepareOpen(p) ==
    LET k == local[p].key IN
    /\ pc[p] = "prepareWrite"
    /\ \/ PrepareWrite(k, local[p].seen) /\ Return(p)
       \/ status[k] # local[p].seen /\ Abandon(p)

-----------------------------------------------------------------------------
(* bindKnownTransactionHash: the terminal check, then bindTransactionHash   *)
(* with recovery = true, which reads the row again.                         *)
RecoverRead(p) ==
    LET k == local[p].key IN
    /\ pc[p] = "recoverRead"
    /\ \/ /\ status[k] \notin Terminal \ {"COMPLETED"}
          /\ Goto(p, "bindRead")
          /\ UNCHANGED <<storeVars, local>>
       \/ status[k] \in Terminal \ {"COMPLETED"} /\ Abandon(p)

(* bindTransactionHash, its first read: an equal hash returns, a different  *)
(* one is a conflict; a wallet submission must name its lease.              *)
NeedsLease(p) == /\ status[local[p].key] = "AWAITING_WALLET_SIGNATURE"
                 /\ ~local[p].recovery

RetryingBindRead(p) ==   \* variant: a different bound hash is not refused
    /\ pc[p] = "bindRead"
    /\ Goto(p, "bindWrite")
    /\ UNCHANGED <<storeVars, local>>

BindRead(p) ==
    LET k == local[p].key
        unbound == transactionHash[k] = NoHash
        noLease == NeedsLease(p) /\ local[p].owner = NoOwner IN
    /\ pc[p] = "bindRead"
    /\ \/ /\ unbound /\ ~noLease
          /\ Goto(p, IF NeedsLease(p) THEN "bindLease" ELSE "bindWrite")
          /\ UNCHANGED <<storeVars, local>>
       \/ (~unbound \/ noLease) /\ Abandon(p)

(* assertLease *)
BindLease(p) ==
    LET k == local[p].key
        held == leaseOwner[k] = local[p].owner /\ leaseLive[k] IN
    /\ pc[p] = "bindLease"
    /\ \/ held /\ Goto(p, "bindWrite") /\ UNCHANGED <<storeVars, local>>
       \/ ~held /\ Abandon(p)

(* The UPDATE: no row updated runs the method again; a unique-index error   *)
(* is a conflict.                                                           *)
BindUpdate(p) ==
    LET k == local[p].key
        h == local[p].hash IN
    /\ pc[p] = "bindWrite"
    /\ \/ BindWrite(k, h) /\ Return(p)
       \/ transactionHash[k] # NoHash /\ Goto(p, "bindRead") /\ UNCHANGED <<storeVars, local>>
       \/ transactionHash[k] = NoHash /\ ~HashFree(h) /\ Abandon(p)

-----------------------------------------------------------------------------
(* cancelUnsubmitted *)
MayCancel(s, h) == /\ h = NoHash
                   /\ s \in {"CREATED", "AWAITING_WALLET_SIGNATURE", "FAILED_RETRYABLE"}

CancelRead(p) ==
    LET k == local[p].key IN
    /\ pc[p] = "cancelRead"
    /\ \/ /\ MayCancel(status[k], transactionHash[k])
          /\ Goto(p, "cancelWrite")
          /\ UNCHANGED <<storeVars, local>>
       \/ ~MayCancel(status[k], transactionHash[k]) /\ Abandon(p)

CancelUpdate(p) ==
    LET k == local[p].key IN
    /\ pc[p] = "cancelWrite"
    /\ \/ CancelWrite(k) /\ Return(p)
       \/ transactionHash[k] # NoHash /\ Abandon(p)

-----------------------------------------------------------------------------
(* POST verify: beginVerification, then the receipt, then completion.       *)
(* Every read of beginVerification (get, and the read a transition ends     *)
(* with) picks the next if that applies to what it saw.                     *)
Applies(s, stage) == s \in AdvanceFrom /\ AdvanceStage(s) > stage

VerifyRead(p) ==
    LET k == local[p].key
        more == Applies(status[k], local[p].stage) IN
    /\ pc[p] = "verifyRead"
    /\ \/ /\ more
          /\ Goto(p, "verifyAdvance")
          /\ local' = [local EXCEPT ![p].seen = status[k]]
          /\ UNCHANGED storeVars
       \/ /\ ~more /\ transactionHash[k] # NoHash /\ k \in SendKeys
          /\ Goto(p, "verifyReceipt")
          /\ local' = [local EXCEPT ![p].hash = transactionHash[k]]
          /\ UNCHANGED storeVars
       \/ /\ ~more /\ (transactionHash[k] = NoHash \/ k \notin SendKeys)
          /\ Abandon(p)

VerifyAdvance(p) ==
    LET k == local[p].key
        s == local[p].seen IN
    /\ pc[p] = "verifyAdvance"
    /\ \/ /\ AdvanceWrite(k, s)
          /\ Goto(p, "verifyRead")
          /\ local' = [local EXCEPT ![p].stage = AdvanceStage(s)]
       \/ status[k] # s /\ Abandon(p)

(* DirectTransferReceiptVerifierService.verify: a missing or unconfirmed    *)
(* receipt, an RPC failure and a mismatch all end the request; an exact and *)
(* confirmed receipt goes on.                                               *)
AnyReceipt(p) ==   \* variant: the receipt is there, but nothing compares it
    /\ pc[p] = "verifyReceipt"
    /\ chain[local[p].hash] # "unseen"
    /\ Goto(p, "completeRead")
    /\ UNCHANGED <<storeVars, local>>

VerifyReceipt(p) ==
    /\ pc[p] = "verifyReceipt"
    /\ \/ /\ ReceiptMatches(local[p].hash, payload[local[p].key])
          /\ Goto(p, "completeRead")
          /\ UNCHANGED <<storeVars, local>>
       \/ Abandon(p)

(* completeWithVerifiedReceipt *)
CompleteRead(p) ==
    LET k == local[p].key
        matches == /\ status[k] = "VERIFYING"
                   /\ transactionHash[k] = local[p].hash IN
    /\ pc[p] = "completeRead"
    /\ \/ matches /\ Goto(p, "completeWrite") /\ UNCHANGED <<storeVars, local>>
       \/ ~matches /\ Abandon(p)

CompleteUpdate(p) ==
    LET k == local[p].key IN
    /\ pc[p] = "completeWrite"
    /\ \/ CompleteWrite(k) /\ Return(p)
       \/ status[k] # "VERIFYING" /\ Abandon(p)

-----------------------------------------------------------------------------
(* The backend process restarts, or the request is dropped, at any await.   *)
Crash(p) == pc[p] # "idle" /\ Abandon(p)

Step(p) ==
    \/ PrepareRead(p) \/ PrepareLease(p) \/ PrepareOpen(p)
    \/ RecoverRead(p) \/ BindRead(p) \/ BindLease(p) \/ BindUpdate(p)
    \/ CancelRead(p) \/ CancelUpdate(p)
    \/ VerifyRead(p) \/ VerifyAdvance(p) \/ VerifyReceipt(p)
    \/ CompleteRead(p) \/ CompleteUpdate(p)

Next ==
    \/ \E k \in Keys : \E d \in Payloads : Acquire(k, d)
    \/ \E p \in Handlers : Request(p) \/ Step(p) \/ Crash(p)
    \/ Clock /\ UNCHANGED handlerVars

Spec == Init /\ [][Next]_vars

(* The event loop runs every pending continuation. *)
FairSpec == Spec /\ \A p \in Handlers : WF_vars(Step(p))

-----------------------------------------------------------------------------
TypeOK ==
    /\ StoreTypeOK
    /\ pc \in [Handlers -> Labels]
    /\ local \in [Handlers -> Locals]

(* Every request is answered: the retry loop of bindTransactionHash and the *)
(* ladder of beginVerification end, whatever the other requests do.         *)
RequestsReturn == \A p \in Handlers : pc[p] # "idle" ~> pc[p] = "idle"

(* Each await of a handler issues one of the store's statements or none:    *)
(* the handlers together implement the store's protocol, so what StoreSpec  *)
(* promises holds under every interleaving of requests.                     *)
ImplementsStore == StoreInit /\ [][StoreNext]_storeVars
=============================================================================
