----------------------- MODULE ExecutionIntentProofs -----------------------
(***************************************************************************)
(* The request handlers implement the store's protocol, so its invariants   *)
(* hold under every interleaving of any number of requests, crashes and     *)
(* lease expiries.                                                          *)
(***************************************************************************)
EXTENDS ExecutionIntent, IntentStoreProofs

(* What a suspended handler may still rely on after other requests ran.     *)
BindLabels == {"recoverRead", "bindRead", "bindLease", "bindWrite"}
PrepareLabels == {"prepareRead", "prepareLease", "prepareWrite"}

HandlerOK(p) ==
    LET k == local[p].key
        h == local[p].hash IN
    /\ pc[p] # "idle" => k \in Keys /\ Exists(k)
    /\ pc[p] \in BindLabels => h \in Hashes
    /\ pc[p] \in PrepareLabels => local[p].owner \in Owners
    /\ pc[p] \in {"prepareLease", "prepareWrite", "verifyAdvance"} => local[p].seen \in Statuses
    /\ pc[p] \in {"verifyReceipt", "completeRead", "completeWrite"} =>
           h \in Hashes /\ transactionHash[k] = h
    /\ pc[p] \in {"completeRead", "completeWrite"} => ReceiptMatches(h, payload[k])

IndInv == StoreInv /\ TypeOK /\ \A p \in Handlers : HandlerOK(p)

-----------------------------------------------------------------------------
(* A handler that does not run keeps what it relies on while others do. *)
LEMMA HandlerStable ==
    ASSUME StoreInv, TypeOK, [StoreNext]_storeVars,
           NEW p \in Handlers, HandlerOK(p), pc'[p] = pc[p], local'[p] = local[p]
    PROVE  HandlerOK(p)'
  BY StoreStable, NullAssumption
  DEF HandlerOK, TypeOK, Locals, ReceiptMatches, BindLabels, PrepareLabels

(* A handler that ends relies on nothing. *)
LEMMA IdleOK ==
    ASSUME TypeOK, NEW p \in Handlers, pc'[p] = "idle"
    PROVE  HandlerOK(p)'
  BY DEF HandlerOK, BindLabels, PrepareLabels

-----------------------------------------------------------------------------
(* Every await of a handler is a statement of the store or leaves the store *)
(* alone.                                                                   *)
LEMMA NextIsStoreStep == IndInv /\ [Next]_vars => [StoreNext]_storeVars
<1> SUFFICES ASSUME IndInv, [Next]_vars
             PROVE  [StoreNext]_storeVars
  OBVIOUS
<1>1. ASSUME NEW k \in Keys, NEW d \in Payloads, Acquire(k, d)
      PROVE  StoreNext
  BY <1>1 DEF Acquire, StoreNext
<1>2. ASSUME Clock
      PROVE  StoreNext
  BY <1>2 DEF StoreNext
<1>3. ASSUME NEW p \in Handlers, Request(p) \/ Crash(p)
      PROVE  UNCHANGED storeVars
  BY <1>3 DEF Request, Arrive, Crash, Abandon
<1>4. ASSUME NEW p \in Handlers, Step(p)
      PROVE  [StoreNext]_storeVars
  <2> DEFINE k == local[p].key
  <2>1. HandlerOK(p) /\ local[p] \in Locals
    BY DEF IndInv, TypeOK
  <2>2. CASE PrepareLease(p)
    BY <2>1, <2>2 DEF PrepareLease, Abandon, HandlerOK, PrepareLabels, StoreNext
  <2>3. CASE PrepareOpen(p)
    BY <2>1, <2>3 DEF PrepareOpen, Abandon, HandlerOK, StoreNext
  <2>4. CASE BindUpdate(p)
    BY <2>1, <2>4 DEF BindUpdate, Abandon, HandlerOK, BindLabels, StoreNext
  <2>5. CASE CancelUpdate(p)
    BY <2>1, <2>5 DEF CancelUpdate, Abandon, HandlerOK, StoreNext
  <2>6. CASE VerifyAdvance(p)
    BY <2>1, <2>6 DEF VerifyAdvance, Abandon, HandlerOK, StoreNext
  <2>7. CASE CompleteUpdate(p)
    BY <2>1, <2>7, NullAssumption DEF CompleteUpdate, Abandon, HandlerOK, StoreNext
  <2>8. CASE PrepareRead(p) \/ RecoverRead(p) \/ BindRead(p) \/ BindLease(p) \/ CancelRead(p)
    BY <2>8 DEF PrepareRead, RecoverRead, BindRead, BindLease, CancelRead, Abandon
  <2>9. CASE VerifyRead(p) \/ VerifyReceipt(p) \/ CompleteRead(p)
    BY <2>9 DEF VerifyRead, VerifyReceipt, CompleteRead, Abandon
  <2> QED BY <1>4, <2>2, <2>3, <2>4, <2>5, <2>6, <2>7, <2>8, <2>9 DEF Step
<1>5. CASE UNCHANGED vars
  BY <1>5 DEF vars
<1> QED BY <1>1, <1>2, <1>3, <1>4, <1>5 DEF Next

-----------------------------------------------------------------------------
(* The invariant holds before the first request. *)
LEMMA InitInv == Init => IndInv
<1> SUFFICES ASSUME Init PROVE IndInv
  OBVIOUS
<1>1. StoreInv
  BY StoreInitInv DEF Init
<1>2. TypeOK
  BY <1>1 DEF Init, StoreInv, TypeOK, Labels, Locals, IdleLocal, NewLocal
<1>3. \A p \in Handlers : HandlerOK(p)
  BY DEF Init, HandlerOK, BindLabels, PrepareLabels
<1> QED BY <1>1, <1>2, <1>3 DEF IndInv

(* What a step of slot p does to the slots: it moves p, with well-typed     *)
(* locals, and no other one.                                                *)
MovesOnly(p) ==
    /\ pc' \in [Handlers -> Labels]
    /\ local' \in [Handlers -> Locals]
    /\ \A q \in Handlers : q # p => pc'[q] = pc[q] /\ local'[q] = local[q]

LEMMA SlotStep ==
    ASSUME IndInv, NEW p \in Handlers, Request(p) \/ Step(p) \/ Crash(p)
    PROVE  MovesOnly(p)
<1>1. /\ pc \in [Handlers -> Labels]
      /\ local \in [Handlers -> Locals]
      /\ IdleLocal \in Locals
      /\ StoreTypeOK
  BY DEF IndInv, TypeOK, Locals, IdleLocal, NewLocal
<1>2. ASSUME NEW label \in Labels, NEW r \in Locals,
             Goto(p, label), local' = [local EXCEPT ![p] = r]
      PROVE  MovesOnly(p)
  BY <1>1, <1>2 DEF Goto, MovesOnly
<1>3. ASSUME NEW label \in Labels, Goto(p, label), UNCHANGED local
      PROVE  MovesOnly(p)
  BY <1>1, <1>3 DEF Goto, MovesOnly
<1>4. Return(p) => MovesOnly(p)
  BY <1>1, <1>2 DEF Return, Labels
<1>5. Abandon(p) => MovesOnly(p)
  BY <1>4 DEF Abandon
<1>6. ASSUME NEW k \in Keys, NEW h \in Hashes \cup {NoHash}, NEW o \in Owners \cup {NoOwner},
             NEW recovery \in BOOLEAN, NEW label \in Labels, Arrive(p, k, h, o, recovery, label)
      PROVE  MovesOnly(p)
  <2>1. NewLocal(k, h, o, recovery) \in Locals
    BY DEF NewLocal, Locals
  <2> QED BY <1>2, <1>6, <2>1 DEF Arrive
<1>7. Request(p) => MovesOnly(p)
  <2>1. {"prepareRead", "bindRead", "recoverRead", "cancelRead", "verifyRead"} \subseteq Labels
    BY DEF Labels
  <2> QED BY <1>6, <2>1 DEF Request
<1>8. CASE Step(p)
  <2>1. pc[p] # "idle" /\ local[p] \in Locals /\ HandlerOK(p)
    BY <1>1, <1>8 DEF IndInv, Step, PrepareRead, PrepareLease, PrepareOpen, RecoverRead,
       BindRead, BindLease, BindUpdate, CancelRead, CancelUpdate, VerifyRead, VerifyAdvance,
       VerifyReceipt, CompleteRead, CompleteUpdate
  <2> DEFINE k == local[p].key
  <2>2. k \in Keys /\ status[k] \in Statuses /\ transactionHash[k] \in Hashes \cup {NoHash}
    BY <1>1, <2>1 DEF HandlerOK, Exists, StoreTypeOK
  <2>3. [local[p] EXCEPT !.seen = status[k]] \in Locals
    BY <2>1, <2>2 DEF Locals
  <2>4. [local[p] EXCEPT !.hash = transactionHash[k]] \in Locals
    BY <2>1, <2>2 DEF Locals
  <2>5. [local[p] EXCEPT !.stage = AdvanceStage(local[p].seen)] \in Locals
    <3>1. AdvanceStage(local[p].seen) \in 0..3
      BY DEF AdvanceStage
    <3> QED BY <2>1, <3>1 DEF Locals
  <2>6. CASE PrepareRead(p)
    BY <1>2, <1>5, <2>3, <2>6 DEF PrepareRead, Labels
  <2>7. CASE VerifyRead(p)
    BY <1>2, <1>5, <2>3, <2>4, <2>7 DEF VerifyRead, Labels
  <2>8. CASE VerifyAdvance(p)
    BY <1>2, <1>5, <2>5, <2>8 DEF VerifyAdvance, Labels
  <2>9. CASE PrepareLease(p) \/ PrepareOpen(p) \/ RecoverRead(p) \/ BindRead(p)
    BY <1>3, <1>4, <1>5, <2>9 DEF PrepareLease, PrepareOpen, RecoverRead, BindRead, Labels
  <2>10. CASE BindLease(p) \/ BindUpdate(p) \/ CancelRead(p) \/ CancelUpdate(p)
    BY <1>3, <1>4, <1>5, <2>10 DEF BindLease, BindUpdate, CancelRead, CancelUpdate, Labels
  <2>11. CASE VerifyReceipt(p) \/ CompleteRead(p) \/ CompleteUpdate(p)
    BY <1>3, <1>4, <1>5, <2>11 DEF VerifyReceipt, CompleteRead, CompleteUpdate, Labels
  <2> QED BY <1>8, <2>6, <2>7, <2>8, <2>9, <2>10, <2>11 DEF Step
<1> QED BY <1>5, <1>7, <1>8 DEF Crash

(* The slot that moves establishes what its next await relies on. *)
LEMMA MovedOK ==
    ASSUME IndInv, StoreInv', NEW p \in Handlers, Request(p) \/ Step(p) \/ Crash(p)
    PROVE  HandlerOK(p)'
<1>1. /\ HandlerOK(p)
      /\ TypeOK
      /\ pc \in [Handlers -> Labels]
      /\ local \in [Handlers -> Locals]
      /\ StoreTypeOK
      /\ [StoreNext]_storeVars
  BY NextIsStoreStep DEF IndInv, TypeOK, Next
<1>2. Return(p) => HandlerOK(p)'
  BY <1>1, IdleOK DEF Return, Goto
<1>3. Abandon(p) => HandlerOK(p)'
  BY <1>2 DEF Abandon
<1> USE DEF Goto, HandlerOK, BindLabels, PrepareLabels, Exists, ReceiptMatches
<1>4. CASE Request(p)
  BY <1>1, <1>4 DEF Request, Arrive, NewLocal, storeVars
<1>5. CASE PrepareRead(p)
  BY <1>1, <1>3, <1>5 DEF PrepareRead, MayOpen, storeVars, Locals, Statuses
<1>6. CASE PrepareLease(p)
  BY <1>1, <1>3, <1>6 DEF PrepareLease, LeaseWrite, Locals, StoreInv, StoreTypeOK
<1>7. CASE PrepareOpen(p)
  BY <1>2, <1>3, <1>7 DEF PrepareOpen
<1>8. CASE RecoverRead(p) \/ BindRead(p) \/ BindLease(p)
  BY <1>1, <1>3, <1>8 DEF RecoverRead, BindRead, BindLease, storeVars
<1>9. CASE BindUpdate(p)
  BY <1>1, <1>2, <1>3, <1>9 DEF BindUpdate, storeVars
<1>10. CASE CancelRead(p) \/ CancelUpdate(p)
  BY <1>1, <1>2, <1>3, <1>10 DEF CancelRead, CancelUpdate, storeVars
<1>11. CASE VerifyRead(p)
  BY <1>1, <1>3, <1>11 DEF VerifyRead, storeVars, Locals, StoreTypeOK, Applies, AdvanceFrom, Statuses
<1>12. CASE VerifyAdvance(p)
  BY <1>1, <1>3, <1>12, StoreStable DEF VerifyAdvance, IndInv, Locals
<1>13. CASE VerifyReceipt(p) \/ CompleteRead(p)
  BY <1>1, <1>3, <1>13 DEF VerifyReceipt, CompleteRead, storeVars
<1>14. CASE CompleteUpdate(p)
  BY <1>2, <1>3, <1>14 DEF CompleteUpdate
<1> QED
  BY <1>3, <1>4, <1>5, <1>6, <1>7, <1>8, <1>9, <1>10, <1>11, <1>12, <1>13, <1>14
  DEF Step, Crash

(* Every step of every slot, and of time, preserves the invariant. *)
LEMMA NextInv == IndInv /\ [Next]_vars => IndInv'
<1> SUFFICES ASSUME IndInv, [Next]_vars
             PROVE  IndInv'
  OBVIOUS
<1>1. [StoreNext]_storeVars
  BY NextIsStoreStep
<1>2. StoreInv'
  BY <1>1, StoreNextInv DEF IndInv
<1>3. ASSUME NEW p \in Handlers, Request(p) \/ Step(p) \/ Crash(p)
      PROVE  IndInv'
  <2>1. MovesOnly(p)
    BY <1>3, SlotStep
  <2>2. TypeOK'
    BY <1>2, <2>1 DEF TypeOK, StoreInv, MovesOnly
  <2>3. HandlerOK(p)'
    BY <1>2, <1>3, MovedOK
  <2>4. \A q \in Handlers : q # p => HandlerOK(q)'
    BY <1>1, <2>1, HandlerStable DEF MovesOnly, IndInv
  <2> QED BY <1>2, <2>2, <2>3, <2>4 DEF IndInv
<1>4. CASE UNCHANGED handlerVars
  <2>1. TypeOK'
    BY <1>2, <1>4 DEF TypeOK, StoreInv, handlerVars, IndInv
  <2>2. \A q \in Handlers : HandlerOK(q)'
    BY <1>1, <1>4, HandlerStable DEF handlerVars, IndInv
  <2> QED BY <1>2, <2>1, <2>2 DEF IndInv
<1> QED BY <1>3, <1>4 DEF Next, Acquire, vars

-----------------------------------------------------------------------------
(* Type correctness of the handlers, for any number of slots. *)
THEOREM TypeCorrect == Spec => []TypeOK
<1>1. IndInv => TypeOK
  BY DEF IndInv
<1> QED BY <1>1, InitInv, NextInv, PTL DEF Spec

(* The request handlers implement the store's protocol: whatever a handler  *)
(* read before an await, the statement it issues after it is one the store  *)
(* allows in the state it finds.                                            *)
THEOREM HandlersImplementStore == Spec => ImplementsStore
<1>1. Init => StoreInit
  BY DEF Init
<1> QED BY <1>1, InitInv, NextInv, NextIsStoreStep, PTL DEF Spec, ImplementsStore

(* Under every interleaving of requests, crashes and lease expiries: a      *)
(* completed intent is proven by its own receipt.                           *)
THEOREM CompletedProven == Spec => []CompletedIsProven
<1>1. IndInv => CompletedIsProven
  BY DEF IndInv, StoreInv
<1> QED BY <1>1, InitInv, NextInv, PTL DEF Spec

(* Two business operations never settle on one transaction. *)
THEOREM EvidenceUnique == Spec => []EvidenceIsUnique
<1>1. IndInv => EvidenceIsUnique
  BY DEF IndInv, StoreInv
<1> QED BY <1>1, InitInv, NextInv, PTL DEF Spec

(* A bound hash is never hidden behind a cancelled or unsubmitted status. *)
THEOREM EvidenceVisible == Spec => []EvidenceIsVisible
<1>1. IndInv => EvidenceIsVisible
  BY DEF IndInv, StoreInv
<1> QED BY <1>1, InitInv, NextInv, PTL DEF Spec

(* The wallet is opened at most once per intent. *)
THEOREM WalletOpensOnce == Spec => []OneWalletOpening
<1>1. IndInv => OneWalletOpening
  BY DEF IndInv, StoreInv
<1> QED BY <1>1, InitInv, NextInv, PTL DEF Spec

(* The handlers never move evidence back. *)
THEOREM HandlersMoveForward == Spec => EvidenceMovesForward
  BY HandlersImplementStore, EvidenceForward DEF ImplementsStore, StoreSpec

(* The handlers implement the payment ledger. *)
THEOREM HandlersImplementLedger == Spec => ImplementsLedger
  BY HandlersImplementStore, StoreImplementsLedger DEF ImplementsStore, StoreSpec
=============================================================================
