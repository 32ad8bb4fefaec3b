---------------------- MODULE InvoiceSettlementProofs ----------------------
(***************************************************************************)
(* The rows of an invoice, its payment and its intent agree under every     *)
(* interleaving of requests, for any number of invoices, transactions and   *)
(* requests at a time.  In the second part the merchant's pages show what   *)
(* the invoice table says, for any merchants, rows and page size.           *)
(***************************************************************************)
EXTENDS InvoiceSettlement, IntentStoreProofs, MerchantInvoices, FiniteSetTheorems

(* A payment row names a transaction: it is never a row without a hash.     *)
PaymentHasHash ==
    \A k \in Keys : payment[k] # NoPayment =>
        payment[k].hash # NoHash /\ payment[k].status # "NONE"

RowsInv == PaidIsSettled /\ PaymentFollowsInvoice /\ CompletedIsLocked /\ PaymentHasHash

(* What a suspended request may still rely on.  From BoundLabels on the     *)
(* hash it was given is the intent's; from LockedLabels on it is also the   *)
(* payment's, so the invoice is locked; from ProvenLabels on it was looked  *)
(* up on chain; and at "settle" the intent is completed.  A payment seen in *)
(* the snapshot is still the invoice's payment.                             *)
CancelLabels == {"cancelExpire", "cancelWrite"}
ProvenLabels == {"completeRead", "completeWrite", "settle"}
LockedLabels == ProvenLabels \cup {"receipt", "retry", "reject"}
SnapshotLabels == {"intentRead", "beginRead", "beginWrite", "expire"}
BoundLabels == LockedLabels \cup {"beginRead", "beginWrite", "expire", "reuseRead", "lock"}

HandlerOK(p) ==
    LET k == local[p].key
        h == local[p].hash IN
    /\ pc[p] # "idle" => k \in Keys /\ invoice[k] # "ABSENT"
    /\ pc[p] \notin CancelLabels \cup {"idle"} => h \in Hashes
    /\ pc[p] \in BoundLabels => transactionHash[k] = h
    /\ pc[p] \in SnapshotLabels /\ local[p].paid # NoPayment =>
           local[p].paid.hash # NoHash /\ payment[k].hash = local[p].paid.hash
    /\ pc[p] \in LockedLabels => payment[k].hash = h
    /\ pc[p] \in ProvenLabels => PaysTerms(h, k)
    /\ pc[p] \in {"completeWrite", "settle"} => payload[k] = Pays[h]
    /\ pc[p] = "settle" => status[k] = "COMPLETED"

IndInv == StoreInv /\ TypeOK /\ RowsInv /\ \A p \in Handlers : HandlerOK(p)

-----------------------------------------------------------------------------
(* Every await of a request is a statement of the store or leaves the store *)
(* alone; the completion it issues is backed by the recorded transaction.   *)
LEMMA NextIsStoreStep == IndInv /\ [Next]_vars => [StoreNext]_storeVars
<1> SUFFICES ASSUME IndInv, [Next]_vars
             PROVE  [StoreNext]_storeVars
  OBVIOUS
<1>1. ASSUME NEW k \in Keys,
             Create(k) \/ Deadline(k) \/ Read(k) \/ \E d \in Payloads : AcquireSettlement(k, d)
      PROVE  [StoreNext]_storeVars
  BY <1>1 DEF Create, Deadline, Read, AcquireSettlement, StoreNext
<1>2. ASSUME NEW p \in Handlers, NEW k \in Keys,
             CancelRequest(p, k) \/ (\E h \in Hashes : VerifyRequest(p, k, h)) \/ Crash(p)
      PROVE  UNCHANGED storeVars
  BY <1>2 DEF CancelRequest, VerifyRequest, Crash
<1>3. ASSUME NEW p \in Handlers, Step(p)
      PROVE  [StoreNext]_storeVars
  <2> DEFINE k == local[p].key
  <2>1. HandlerOK(p)
    BY DEF IndInv
  <2>2. CASE BeginWrite(p)
    <3>1. k \in Keys /\ "SUBMITTED" \in Statuses
      BY <2>1, <2>2 DEF BeginWrite, HandlerOK, Statuses
    <3> QED BY <2>2, <3>1 DEF BeginWrite, StoreNext
  <2>3. CASE CompleteUpdate(p)
    <3>1. /\ k \in Keys
          /\ transactionHash[k] # NoHash
          /\ ReceiptMatches(transactionHash[k], payload[k])
      BY <2>1, <2>3, NullAssumption
      DEF CompleteUpdate, HandlerOK, BoundLabels, LockedLabels, ProvenLabels, CancelLabels,
          PaysTerms, ReceiptMatches
    <3> QED BY <2>3, <3>1 DEF CompleteUpdate, StoreNext
  <2>4. CASE CancelExpire(p) \/ CancelUpdate(p) \/ ReadInvoice(p) \/ IntentRead(p) \/ BeginRead(p)
    BY <2>4 DEF CancelExpire, CancelUpdate, ReadInvoice, IntentRead, BeginRead
  <2>5. CASE Expire(p) \/ ReuseRead(p) \/ Lock(p) \/ Receipt(p) \/ CompleteRead(p)
    BY <2>5 DEF Expire, ReuseRead, Lock, Receipt, CompleteRead
  <2>6. CASE Settle(p) \/ Retry(p) \/ Reject(p)
    BY <2>6 DEF Settle, Retry, Reject
  <2> QED BY <1>3, <2>2, <2>3, <2>4, <2>5, <2>6 DEF Step
<1>4. CASE OtherRequests
  BY <1>4 DEF OtherRequests, StoreNext
<1>5. CASE Chain
  BY <1>5 DEF Chain, StoreNext, Clock
<1>6. CASE UNCHANGED vars
  BY <1>6 DEF vars
<1>7. ASSUME NEW p \in Handlers, Crash(p)
      PROVE  UNCHANGED storeVars
  BY <1>7 DEF Crash
<1> QED BY <1>1, <1>2, <1>3, <1>4, <1>5, <1>6, <1>7 DEF Next

-----------------------------------------------------------------------------
(* What a step of slot p does to the slots: it moves p, with well-typed     *)
(* locals, and no other one.                                                *)
MovesOnly(p) ==
    /\ pc' \in [Handlers -> Labels]
    /\ local' \in [Handlers -> Locals]
    /\ \A q \in Handlers : q # p => pc'[q] = pc[q] /\ local'[q] = local[q]

HandlerAction(p) ==
    \/ \E k \in Keys : CancelRequest(p, k) \/ \E h \in Hashes : VerifyRequest(p, k, h)
    \/ Step(p)
    \/ Crash(p)

LEMMA SlotStep ==
    ASSUME IndInv, NEW p \in Handlers, HandlerAction(p)
    PROVE  MovesOnly(p)
<1>1. /\ pc \in [Handlers -> Labels]
      /\ local \in [Handlers -> Locals]
      /\ invoice \in [Keys -> InvoiceStatuses \cup {"ABSENT"}]
      /\ payment \in [Keys -> PaymentRows]
  BY DEF IndInv, TypeOK
<1>2. ASSUME NEW label \in Labels, NEW r \in Locals, Become(p, label, r)
      PROVE  MovesOnly(p)
  BY <1>1, <1>2 DEF Become, MovesOnly
<1>3. ASSUME NEW label \in Labels, Jump(p, label)
      PROVE  MovesOnly(p)
  BY <1>1, <1>3 DEF Jump, MovesOnly
<1>4. \A k \in Keys \cup {NoKey}, h \in Hashes \cup {NoHash} : Request(k, h) \in Locals
  BY DEF Request, Locals, NoPayment, Payment, PaymentRows
<1>5. Answer(p) => MovesOnly(p)
  BY <1>2, <1>4 DEF Answer, Labels
<1>6. ASSUME NEW k \in Keys, CancelRequest(p, k) \/ \E h \in Hashes : VerifyRequest(p, k, h)
      PROVE  MovesOnly(p)
  BY <1>2, <1>4, <1>6 DEF CancelRequest, VerifyRequest, Labels
<1>7. CASE ReadInvoice(p)
  <2> DEFINE k == local[p].key
             r == [local[p] EXCEPT !.seen = invoice[k], !.paid = payment[k]]
  <2>1. k \in Keys
    BY <1>7 DEF ReadInvoice, IndInv, HandlerOK
  <2>2. local[p] \in Locals /\ invoice[k] \in InvoiceStatuses \cup {"ABSENT"} /\ payment[k] \in PaymentRows
    BY <1>1, <2>1
  <2>3. r \in Locals
    BY <2>2 DEF Locals
  <2> QED BY <1>2, <1>7, <2>3 DEF ReadInvoice, Labels
<1>8. CASE CancelExpire(p) \/ CancelUpdate(p) \/ IntentRead(p) \/ BeginRead(p) \/ BeginWrite(p)
  BY <1>3, <1>5, <1>8 DEF CancelExpire, CancelUpdate, IntentRead, BeginRead, BeginWrite, Labels
<1>9. CASE Expire(p) \/ ReuseRead(p) \/ Lock(p) \/ Receipt(p)
  BY <1>3, <1>5, <1>9 DEF Expire, ReuseRead, Lock, Receipt, Labels
<1>10. CASE CompleteRead(p) \/ CompleteUpdate(p) \/ Settle(p) \/ Retry(p) \/ Reject(p)
  BY <1>3, <1>5, <1>10 DEF CompleteRead, CompleteUpdate, Settle, Retry, Reject, Labels
<1> QED
  BY <1>5, <1>6, <1>7, <1>8, <1>9, <1>10 DEF HandlerAction, Step, Crash

(* What any step may do to the rows of an invoice, as far as a suspended    *)
(* request depends on it: rows are not deleted and a payment keeps its hash.*)
RowsStay ==
    /\ \A k \in Keys : invoice[k] # "ABSENT" => invoice'[k] # "ABSENT"
    /\ \A k \in Keys : payment[k].hash # NoHash => payment'[k].hash = payment[k].hash

LEMMA RowsStable ==
    ASSUME IndInv, [Next]_vars
    PROVE  /\ RowsStay
           /\ invoice' \in [Keys -> InvoiceStatuses \cup {"ABSENT"}]
           /\ overdue' \in [Keys -> BOOLEAN]
           /\ payment' \in [Keys -> PaymentRows]
<1> DEFINE Goal == /\ RowsStay
                   /\ invoice' \in [Keys -> InvoiceStatuses \cup {"ABSENT"}]
                   /\ overdue' \in [Keys -> BOOLEAN]
                   /\ payment' \in [Keys -> PaymentRows]
<1>1. /\ invoice \in [Keys -> InvoiceStatuses \cup {"ABSENT"}]
      /\ overdue \in [Keys -> BOOLEAN]
      /\ payment \in [Keys -> PaymentRows]
      /\ PaymentHasHash
  BY DEF IndInv, TypeOK, RowsInv
<1>2. ASSUME UNCHANGED invoiceVars
      PROVE  Goal
  BY <1>1, <1>2 DEF RowsStay, invoiceVars
<1>3. ASSUME NEW k \in Keys, ExpireOpen(k), UNCHANGED <<overdue, payment>>
      PROVE  Goal
  BY <1>1, <1>3 DEF ExpireOpen, RowsStay, InvoiceStatuses
<1>4. ASSUME NEW k \in Keys, Create(k) \/ Deadline(k) \/ Read(k) \/ \E d \in Payloads : AcquireSettlement(k, d)
      PROVE  Goal
  <2>1. CASE Create(k)
    BY <1>1, <2>1 DEF Create, RowsStay, InvoiceStatuses
  <2>2. CASE Deadline(k)
    BY <1>1, <2>2 DEF Deadline, RowsStay
  <2>3. CASE Read(k)
    BY <1>3, <2>3 DEF Read
  <2>4. CASE \E d \in Payloads : AcquireSettlement(k, d)
    BY <1>2, <2>4 DEF AcquireSettlement
  <2> QED BY <1>4, <2>1, <2>2, <2>3, <2>4
<1>5. ASSUME NEW p \in Handlers, HandlerAction(p)
      PROVE  Goal
  <2> DEFINE k == local[p].key
             h == local[p].hash
  <2>1. HandlerOK(p)
    BY DEF IndInv
  <2>2. CASE CancelExpire(p) \/ Expire(p)
    <3>1. k \in Keys
      BY <2>1, <2>2 DEF CancelExpire, Expire, HandlerOK
    <3> QED BY <1>3, <2>2, <3>1 DEF CancelExpire, Expire
  <2>3. CASE CancelUpdate(p)
    <3>1. k \in Keys
      BY <2>1, <2>3 DEF CancelUpdate, HandlerOK
    <3> QED BY <1>1, <2>3, <3>1 DEF CancelUpdate, RowsStay, InvoiceStatuses
  <2>4. CASE Lock(p)
    <3>1. k \in Keys /\ h \in Hashes
      BY <2>1, <2>4 DEF Lock, HandlerOK, CancelLabels
    <3>2. Payment("VERIFYING", h) \in PaymentRows
      BY <3>1 DEF Payment, PaymentRows
    <3>3. payment[k] = NoPayment => payment[k].hash = NoHash
      BY DEF NoPayment, Payment
    <3> QED BY <1>1, <2>4, <3>1, <3>2, <3>3 DEF Lock, RowsStay, InvoiceStatuses
  <2>5. ASSUME NEW s \in {"VERIFYING", "VERIFIED", "REJECTED"}, SetPayment(p, s)
        PROVE  /\ payment' \in [Keys -> PaymentRows]
               /\ \A l \in Keys : payment'[l].hash = payment[l].hash
    <3>1. \A l \in Keys : Payment(s, payment[l].hash) \in PaymentRows
                          /\ Payment(s, payment[l].hash).hash = payment[l].hash
      BY <1>1 DEF Payment, PaymentRows
    <3> QED BY <1>1, <2>5, <3>1 DEF SetPayment
  <2>6. CASE Settle(p)
    BY <1>1, <2>1, <2>5, <2>6 DEF Settle, HandlerOK, RowsStay, InvoiceStatuses
  <2>7. CASE Retry(p) \/ Reject(p)
    BY <1>1, <2>5, <2>7 DEF Retry, Reject, RowsStay
  <2>8. CASE (\E l \in Keys : CancelRequest(p, l) \/ \E g \in Hashes : VerifyRequest(p, l, g)) \/ Crash(p)
    BY <1>2, <2>8 DEF CancelRequest, VerifyRequest, Crash
  <2>9. CASE ReadInvoice(p) \/ IntentRead(p) \/ BeginRead(p) \/ BeginWrite(p)
    BY <1>2, <2>9 DEF ReadInvoice, IntentRead, BeginRead, BeginWrite
  <2>10. CASE ReuseRead(p) \/ Receipt(p) \/ CompleteRead(p) \/ CompleteUpdate(p)
    BY <1>2, <2>10 DEF ReuseRead, Receipt, CompleteRead, CompleteUpdate
  <2> QED
    BY <1>5, <2>2, <2>3, <2>4, <2>6, <2>7, <2>8, <2>9, <2>10 DEF HandlerAction, Step
<1>6. CASE OtherRequests \/ Chain \/ UNCHANGED vars
  BY <1>2, <1>6 DEF OtherRequests, Chain, vars
<1> QED BY <1>4, <1>5, <1>6 DEF Next, HandlerAction

-----------------------------------------------------------------------------
(* A request that does not run keeps what it relies on while others do. *)
LEMMA HandlerStable ==
    ASSUME IndInv, [StoreNext]_storeVars, RowsStay,
           NEW p \in Handlers, pc'[p] = pc[p], local'[p] = local[p]
    PROVE  HandlerOK(p)'
<1> DEFINE k == local[p].key
           h == local[p].hash
<1>1. HandlerOK(p) /\ StoreInv /\ pc[p] \in Labels
  BY DEF IndInv, TypeOK
<1>2. CASE pc[p] = "idle"
  BY <1>2 DEF HandlerOK, CancelLabels, BoundLabels, SnapshotLabels, LockedLabels, ProvenLabels
<1>3. CASE pc[p] # "idle"
  <2>1. k \in Keys /\ invoice'[k] # "ABSENT"
    BY <1>1, <1>3 DEF HandlerOK, RowsStay
  <2>2. ASSUME pc[p] \in BoundLabels
        PROVE  h \in Hashes /\ transactionHash[k] = h /\ transactionHash'[k] = h
    BY <1>1, <2>1, <2>2, StoreStable, NullAssumption
    DEF HandlerOK, BoundLabels, LockedLabels, ProvenLabels, CancelLabels
  <2>3. ASSUME pc[p] \in LockedLabels
        PROVE  payment'[k].hash = h
    <3>1. payment[k].hash = h /\ h # NoHash
      BY <1>1, <2>2, <2>3, NullAssumption DEF HandlerOK, BoundLabels
    <3> QED BY <2>1, <3>1 DEF RowsStay
  <2>4. ASSUME pc[p] \in ProvenLabels
        PROVE  PaysTerms(h, k)'
    <3>1. PaysTerms(h, k) /\ h \in Hashes
      BY <1>1, <2>2, <2>4 DEF HandlerOK, BoundLabels, LockedLabels
    <3>2. chain'[h] = "success"
      BY <1>1, <3>1, StoreStable DEF PaysTerms
    <3> QED BY <3>1, <3>2 DEF PaysTerms
  <2>5. ASSUME pc[p] \in {"completeWrite", "settle"}
        PROVE  payload'[k] = Pays[h]
    <3>1. payload[k] = Pays[h] /\ transactionHash[k] # NoHash
      BY <1>1, <2>2, <2>5, NullAssumption DEF HandlerOK, BoundLabels, LockedLabels, ProvenLabels
    <3>2. Exists(k)
      BY <1>1, <2>1, <3>1 DEF StoreInv, RowsHavePayloads, Exists
    <3> QED BY <1>1, <2>1, <3>1, <3>2, StoreStable
  <2>6. ASSUME pc[p] = "settle"
        PROVE  status'[k] = "COMPLETED"
    BY <1>1, <2>1, <2>6, CompletedStays DEF HandlerOK
  <2>7. ASSUME pc[p] \in SnapshotLabels, local[p].paid # NoPayment
        PROVE  local[p].paid.hash # NoHash /\ payment'[k].hash = local[p].paid.hash
    BY <1>1, <2>1, <2>7 DEF HandlerOK, RowsStay
  <2>8. pc[p] \notin CancelLabels \cup {"idle"} => h \in Hashes
    BY <1>1 DEF HandlerOK
  <2> QED BY <2>1, <2>2, <2>3, <2>4, <2>5, <2>6, <2>7, <2>8 DEF HandlerOK
<1> QED BY <1>2, <1>3

(* The request that moves establishes what its next await relies on. *)
LEMMA MovedOK ==
    ASSUME IndInv, [Next]_vars, NEW p \in Handlers, HandlerAction(p)
    PROVE  HandlerOK(p)'
<1> DEFINE k == local[p].key
           h == local[p].hash
<1>1. /\ HandlerOK(p)
      /\ StoreTypeOK
      /\ pc \in [Handlers -> Labels]
      /\ local \in [Handlers -> Locals]
      /\ payment \in [Keys -> PaymentRows]
      /\ RowsInv
  BY DEF IndInv, TypeOK
<1>2. [StoreNext]_storeVars /\ RowsStay
  BY NextIsStoreStep, RowsStable
<1> USE DEF CancelLabels, BoundLabels, SnapshotLabels, LockedLabels, ProvenLabels
<1>3. ASSUME pc'[p] = "idle"
      PROVE  HandlerOK(p)'
  BY <1>3 DEF HandlerOK
<1>4. Answer(p) => HandlerOK(p)'
  BY <1>1, <1>3 DEF Answer, Become
<1>5. ASSUME NEW l \in Keys, CancelRequest(p, l)
      PROVE  HandlerOK(p)'
  BY <1>1, <1>5 DEF CancelRequest, Become, HandlerOK, Request, invoiceVars
<1>6. ASSUME NEW l \in Keys, NEW g \in Hashes, VerifyRequest(p, l, g)
      PROVE  HandlerOK(p)'
  BY <1>1, <1>6 DEF VerifyRequest, Become, HandlerOK, Request, invoiceVars
<1>7. CASE CancelExpire(p)
  BY <1>1, <1>2, <1>7 DEF CancelExpire, Jump, HandlerOK, RowsStay
<1>8. CASE CancelUpdate(p) \/ Settle(p) \/ Retry(p) \/ Reject(p) \/ Crash(p)
  BY <1>4, <1>8 DEF CancelUpdate, Settle, Retry, Reject, Crash
<1>9. CASE ReadInvoice(p)
  <2> DEFINE r == [local[p] EXCEPT !.seen = invoice[k], !.paid = payment[k]]
  <2>1. k \in Keys /\ invoice[k] # "ABSENT" /\ h \in Hashes /\ local[p] \in Locals
    BY <1>1, <1>9 DEF ReadInvoice, HandlerOK
  <2>2. r.key = k /\ r.hash = h /\ r.paid = payment[k]
    BY <2>1 DEF Locals
  <2>3. payment[k] # NoPayment => payment[k].hash # NoHash
    BY <1>1, <2>1 DEF RowsInv, PaymentHasHash
  <2>4. pc'[p] = "intentRead" /\ local'[p] = r /\ UNCHANGED <<invoice, payment>>
    BY <1>1, <1>9 DEF ReadInvoice, Become, invoiceVars
  <2> HIDE DEF r
  <2> QED BY <2>1, <2>2, <2>3, <2>4 DEF HandlerOK
<1>10. CASE IntentRead(p) \/ BeginRead(p) \/ ReuseRead(p)
  BY <1>1, <1>4, <1>10 DEF IntentRead, BeginRead, ReuseRead, Jump, HandlerOK, storeVars, invoiceVars
<1>11. CASE BeginWrite(p)
  BY <1>1, <1>4, <1>11 DEF BeginWrite, AdvanceWrite, TransitionWrite, Jump, HandlerOK, invoiceVars
<1>12. CASE Expire(p)
  <2>1. k \in Keys /\ h \in Hashes /\ transactionHash[k] = h
    BY <1>1, <1>12 DEF Expire, HandlerOK
  <2>2. local[p].paid.hash = h => local[p].paid # NoPayment
    BY <2>1, NullAssumption DEF NoPayment, Payment
  <2> QED BY <1>1, <1>2, <1>4, <1>12, <2>1, <2>2 DEF Expire, Jump, HandlerOK, RowsStay, storeVars
<1>13. CASE Lock(p)
  <2>1. k \in Keys /\ h \in Hashes /\ transactionHash[k] = h /\ invoice[k] # "ABSENT"
    BY <1>1, <1>13 DEF Lock, HandlerOK
  <2>2. Payment("VERIFYING", h).hash = h
    BY DEF Payment
  <2> QED BY <1>1, <1>2, <1>4, <1>13, <2>1, <2>2 DEF Lock, Jump, HandlerOK, RowsStay, storeVars
<1>14. CASE Receipt(p)
  BY <1>1, <1>14 DEF Receipt, Jump, HandlerOK, PaysTerms, storeVars, invoiceVars
<1>15. CASE CompleteRead(p)
  BY <1>1, <1>4, <1>15 DEF CompleteRead, Jump, HandlerOK, PaysTerms, storeVars, invoiceVars
<1>16. CASE CompleteUpdate(p)
  BY <1>1, <1>4, <1>16
  DEF CompleteUpdate, CompleteWrite, TransitionWrite, Jump, HandlerOK, PaysTerms, invoiceVars, StoreTypeOK
<1> QED
  BY <1>5, <1>6, <1>7, <1>8, <1>9, <1>10, <1>11, <1>12, <1>13, <1>14, <1>15, <1>16
  DEF HandlerAction, Step

-----------------------------------------------------------------------------
(* The rows of one invoice, as one formula per invoice.                     *)
RowOK(k) ==
    /\ invoice[k] = "PAID" =>
           /\ status[k] = "COMPLETED"
           /\ payment[k] = Payment("VERIFIED", transactionHash[k])
           /\ ReceiptMatches(transactionHash[k], payload[k])
           /\ payload[k] \in Terms[k] \ SelfTransfers
    /\ payment[k] # NoPayment <=> invoice[k] \in {"VERIFYING", "PAID"}
    /\ payment[k] # NoPayment =>
           /\ payment[k].hash = transactionHash[k]
           /\ payment[k].hash # NoHash
           /\ payment[k].status # "NONE"
    /\ payment[k].status = "VERIFIED" <=> invoice[k] = "PAID"
    /\ status[k] = "COMPLETED" => invoice[k] \in {"VERIFYING", "PAID"}

LEMMA RowByRow == RowsInv <=> \A k \in Keys : RowOK(k)
  BY DEF RowsInv, PaidIsSettled, PaymentFollowsInvoice, CompletedIsLocked, PaymentHasHash, RowOK

(* While the invoice's own rows stay, the store's statements keep the row   *)
(* right, unless they complete an intent whose invoice is not locked.       *)
LEMMA RowUnderStore ==
    ASSUME IndInv, [StoreNext]_storeVars, NEW k \in Keys,
           invoice'[k] = invoice[k], payment'[k] = payment[k],
           status'[k] = "COMPLETED" =>
               status[k] = "COMPLETED" \/ invoice[k] \in {"VERIFYING", "PAID"}
    PROVE  RowOK(k)'
<1>1. RowOK(k) /\ StoreInv
  BY RowByRow DEF IndInv
<1>2. payment[k] # NoPayment => transactionHash'[k] = transactionHash[k]
  BY <1>1, StoreStable DEF RowOK
<1>3. ASSUME invoice[k] = "PAID"
      PROVE  /\ status'[k] = "COMPLETED"
             /\ transactionHash'[k] = transactionHash[k]
             /\ payload'[k] = payload[k]
             /\ ReceiptMatches(transactionHash[k], payload[k])'
  <2>1. status[k] = "COMPLETED" /\ ReceiptMatches(transactionHash[k], payload[k])
    BY <1>1, <1>3 DEF RowOK
  <2>2. transactionHash[k] \in Hashes
    BY <1>1, <2>1 DEF StoreInv, StoreTypeOK, CompletedIsProven
  <2> QED BY <1>1, <2>1, <2>2, CompletedStays, StoreStable DEF ReceiptMatches
<1> QED BY <1>1, <1>2, <1>3 DEF RowOK

(* Every step keeps the rows of every invoice in agreement.                 *)
LEMMA RowsPreserved ==
    ASSUME IndInv, [Next]_vars
    PROVE  RowsInv'
<1> SUFFICES ASSUME NEW k \in Keys
             PROVE  RowOK(k)'
  BY DEF RowsInv, PaidIsSettled, PaymentFollowsInvoice, CompletedIsLocked, PaymentHasHash, RowOK
<1>1. /\ [StoreNext]_storeVars
      /\ RowOK(k)
      /\ invoice \in [Keys -> InvoiceStatuses \cup {"ABSENT"}]
      /\ payment \in [Keys -> PaymentRows]
      /\ StoreTypeOK
  BY NextIsStoreStep, RowByRow DEF IndInv, TypeOK
<1>2. ASSUME UNCHANGED <<invoice, payment>>, status'[k] = "COMPLETED" => status[k] = "COMPLETED"
      PROVE  RowOK(k)'
  BY <1>1, <1>2, RowUnderStore
<1>3. ASSUME UNCHANGED <<storeVars, invoice, payment>>
      PROVE  RowOK(k)'
  BY <1>2, <1>3 DEF storeVars
<1>4. ASSUME NEW l \in Keys, ExpireOpen(l), UNCHANGED <<storeVars, payment>>
      PROVE  RowOK(k)'
  BY <1>1, <1>4 DEF ExpireOpen, RowOK, ReceiptMatches, storeVars
<1>5. ASSUME NEW l \in Keys, Create(l) \/ Deadline(l) \/ Read(l) \/ \E d \in Payloads : AcquireSettlement(l, d)
      PROVE  RowOK(k)'
  <2>1. CASE Create(l)
    BY <1>1, <2>1 DEF Create, RowOK, ReceiptMatches, storeVars
  <2>2. CASE Deadline(l)
    BY <1>3, <2>2 DEF Deadline
  <2>3. CASE Read(l)
    BY <1>4, <2>3 DEF Read
  <2>4. CASE \E d \in Payloads : AcquireSettlement(l, d)
    BY <1>1, <1>2, <2>4 DEF AcquireSettlement, AcquireCreate, StoreTypeOK, invoiceVars
  <2> QED BY <1>5, <2>1, <2>2, <2>3, <2>4
<1>6. ASSUME NEW p \in Handlers, HandlerAction(p)
      PROVE  RowOK(k)'
  <2> DEFINE i == local[p].key
             h == local[p].hash
  <2>1. HandlerOK(p)
    BY DEF IndInv
  <2>2. CASE CancelExpire(p) \/ Expire(p)
    <3>1. i \in Keys
      BY <2>1, <2>2 DEF CancelExpire, Expire, HandlerOK
    <3> QED BY <1>4, <2>2, <3>1 DEF CancelExpire, Expire
  <2>3. CASE CancelUpdate(p)
    BY <1>1, <2>3 DEF CancelUpdate, RowOK, ReceiptMatches, storeVars
  <2>4. CASE BeginWrite(p)
    BY <1>1, <1>2, <1>3, <2>4
    DEF BeginWrite, AdvanceWrite, AdvanceTo, TransitionWrite, StoreTypeOK, invoiceVars
  <2>5. CASE Lock(p)
    <3>1. i \in Keys /\ h \in Hashes /\ transactionHash[i] = h
      BY <2>1, <2>5 DEF Lock, HandlerOK, BoundLabels, CancelLabels
    <3>2. CASE UNCHANGED <<invoice, payment>>
      BY <1>3, <2>5, <3>2 DEF Lock
    <3>3. CASE /\ invoice[i] = "OPEN"
               /\ invoice' = [invoice EXCEPT ![i] = "VERIFYING"]
               /\ payment' = [payment EXCEPT ![i] = Payment("VERIFYING", h)]
      <4>1. /\ Payment("VERIFYING", h) # NoPayment
            /\ Payment("VERIFYING", h).hash = h
            /\ Payment("VERIFYING", h).status = "VERIFYING"
        BY DEF Payment, NoPayment
      <4>2. CASE k = i
        BY <1>1, <2>5, <3>1, <3>3, <4>1, <4>2, NullAssumption DEF Lock, RowOK, storeVars
      <4>3. CASE k # i
        BY <1>1, <2>5, <3>3, <4>3 DEF Lock, RowOK, ReceiptMatches, storeVars
      <4> QED BY <4>2, <4>3
    <3> QED BY <2>5, <3>2, <3>3 DEF Lock
  <2>6. CASE CompleteUpdate(p)
    <3>1. CASE UNCHANGED storeVars
      BY <1>3, <2>6, <3>1 DEF CompleteUpdate, invoiceVars
    <3>2. CASE CompleteWrite(i)
      <4>1. i \in Keys /\ payment[i] # NoPayment
        BY <2>1, <2>6, NullAssumption
        DEF CompleteUpdate, HandlerOK, BoundLabels, LockedLabels, ProvenLabels, CancelLabels,
            NoPayment, Payment
      <4>2. invoice[i] \in {"VERIFYING", "PAID"}
        BY <4>1, RowByRow DEF IndInv, RowOK
      <4>3. status'[k] = "COMPLETED" => status[k] = "COMPLETED" \/ invoice[k] \in {"VERIFYING", "PAID"}
        BY <1>1, <3>2, <4>2 DEF CompleteWrite, TransitionWrite, StoreTypeOK
      <4> QED BY <1>1, <2>6, <4>3, RowUnderStore DEF CompleteUpdate, invoiceVars
    <3> QED BY <2>6, <3>1, <3>2 DEF CompleteUpdate
  <2>7. CASE Settle(p)
    <3>1. /\ i \in Keys /\ h \in Hashes /\ transactionHash[i] = h /\ payment[i].hash = h
          /\ PaysTerms(h, i) /\ payload[i] = Pays[h] /\ status[i] = "COMPLETED"
      BY <2>1, <2>7 DEF Settle, HandlerOK, BoundLabels, LockedLabels, ProvenLabels, CancelLabels
    <3>2. CASE k # i
      BY <1>1, <2>7, <3>2 DEF Settle, SetPayment, RowOK, ReceiptMatches, storeVars
    <3>3. CASE k = i
      <4>1. payment[k] # NoPayment /\ invoice[k] \in {"VERIFYING", "PAID"}
        BY <1>1, <3>1, <3>3, NullAssumption DEF NoPayment, Payment, RowOK
      <4>2. payment[k] \in PaymentRows /\ payment[k].status \in {"VERIFYING", "REJECTED", "VERIFIED"}
        BY <1>1, <4>1 DEF RowOK, PaymentRows
      <4>3. payment[k].status = "VERIFIED" => payment[k] = Payment("VERIFIED", h)
        BY <3>1, <3>3, <4>2 DEF PaymentRows, Payment
      <4>4. payment'[k] = Payment("VERIFIED", h)
        BY <1>1, <2>7, <3>1, <3>3, <4>2, <4>3 DEF Settle, SetPayment
      <4>5. invoice'[k] = "PAID"
        BY <1>1, <2>7, <3>3, <4>1 DEF Settle
      <4>6. ReceiptMatches(h, payload[k]) /\ payload[k] \in Terms[k] \ SelfTransfers
        BY <3>1, <3>3 DEF PaysTerms, ReceiptMatches
      <4>7. /\ Payment("VERIFIED", h) # NoPayment
            /\ Payment("VERIFIED", h).hash = h
            /\ Payment("VERIFIED", h).status = "VERIFIED"
        BY DEF Payment, NoPayment
      <4>8. UNCHANGED <<status, payload, transactionHash, chain>>
        BY <2>7 DEF Settle, storeVars
      <4> QED
        BY <3>1, <3>3, <4>4, <4>5, <4>6, <4>7, <4>8, NullAssumption DEF RowOK, ReceiptMatches
    <3> QED BY <3>2, <3>3
  <2>8. CASE Retry(p) \/ Reject(p)
    <3>1. PICK s \in {"VERIFYING", "REJECTED"} : SetPayment(p, s) /\ UNCHANGED <<storeVars, invoice>>
      BY <2>8 DEF Retry, Reject
    <3>2. payment'[k] = payment[k]
          \/ /\ payment'[k] = Payment(s, payment[k].hash)
             /\ payment[k].status \in {"VERIFYING", "REJECTED"}
      BY <1>1, <3>1 DEF SetPayment
    <3>3. /\ Payment(s, payment[k].hash).hash = payment[k].hash
          /\ Payment(s, payment[k].hash).status = s
          /\ NoPayment.status = "NONE"
      BY DEF Payment, NoPayment
    <3>4. payment[k].status \in {"VERIFYING", "REJECTED"} => payment[k] # NoPayment
      BY <3>3
    <3> QED BY <1>1, <3>1, <3>2, <3>3, <3>4 DEF RowOK, ReceiptMatches, storeVars
  <2>9. CASE (\E l \in Keys : CancelRequest(p, l) \/ \E g \in Hashes : VerifyRequest(p, l, g)) \/ Crash(p)
    BY <1>3, <2>9 DEF CancelRequest, VerifyRequest, Crash, invoiceVars
  <2>10. CASE ReadInvoice(p) \/ IntentRead(p) \/ BeginRead(p) \/ ReuseRead(p) \/ Receipt(p) \/ CompleteRead(p)
    BY <1>3, <2>10 DEF ReadInvoice, IntentRead, BeginRead, ReuseRead, Receipt, CompleteRead, invoiceVars
  <2> QED
    BY <1>6, <2>2, <2>3, <2>4, <2>5, <2>6, <2>7, <2>8, <2>9, <2>10 DEF HandlerAction, Step
<1>7. CASE OtherRequests
  <2>1. status'[k] = "COMPLETED" => status[k] = "COMPLETED"
    BY <1>1, <1>7
    DEF OtherRequests, PrepareWrite, AdvanceWrite, AdvanceTo, TransitionWrite, BindWrite,
        CancelWrite, CancelAs, StoreTypeOK
  <2> QED BY <1>2, <1>7, <2>1 DEF OtherRequests, invoiceVars
<1>8. CASE Chain
  BY <1>2, <1>8 DEF Chain, Mine, invoiceVars
<1>9. CASE UNCHANGED vars
  BY <1>3, <1>9 DEF vars, invoiceVars
<1> QED BY <1>5, <1>6, <1>7, <1>8, <1>9 DEF Next, HandlerAction

-----------------------------------------------------------------------------
(* The invariant holds before the first invoice. *)
LEMMA InitInv == Init => IndInv
<1> SUFFICES ASSUME Init PROVE IndInv
  OBVIOUS
<1>1. StoreInv
  BY StoreInitInv DEF Init
<1>2. TypeOK
  BY <1>1, InvoiceAssumption
  DEF Init, StoreInv, TypeOK, Labels, Locals, Request, NoPayment, Payment, PaymentRows
<1>3. RowsInv
  BY DEF Init, StoreInit, RowsInv, PaidIsSettled, PaymentFollowsInvoice, CompletedIsLocked,
         PaymentHasHash, NoPayment, Payment
<1>4. \A p \in Handlers : HandlerOK(p)
  BY DEF Init, HandlerOK, BoundLabels, SnapshotLabels, LockedLabels, ProvenLabels, CancelLabels
<1> QED BY <1>1, <1>2, <1>3, <1>4 DEF IndInv

(* Every step preserves it. *)
LEMMA NextInv == IndInv /\ [Next]_vars => IndInv'
<1> SUFFICES ASSUME IndInv, [Next]_vars
             PROVE  IndInv'
  OBVIOUS
<1>1. [StoreNext]_storeVars /\ StoreInv'
  BY NextIsStoreStep, StoreNextInv DEF IndInv
<1>2. RowsInv'
  BY RowsPreserved
<1>3. ASSUME NEW p \in Handlers, HandlerAction(p)
      PROVE  TypeOK' /\ \A q \in Handlers : HandlerOK(q)'
  <2>1. MovesOnly(p)
    BY <1>3, SlotStep
  <2>2. TypeOK'
    BY <1>1, <2>1, RowsStable DEF TypeOK, StoreInv, MovesOnly
  <2>3. HandlerOK(p)'
    BY <1>3, MovedOK
  <2>4. \A q \in Handlers : q # p => HandlerOK(q)'
    BY <1>1, <2>1, RowsStable, HandlerStable DEF MovesOnly
  <2> QED BY <2>2, <2>3, <2>4
<1>4. CASE UNCHANGED handlerVars
  <2>1. TypeOK'
    BY <1>1, <1>4, RowsStable DEF TypeOK, StoreInv, handlerVars, IndInv
  <2>2. \A q \in Handlers : HandlerOK(q)'
    BY <1>1, <1>4, RowsStable, HandlerStable DEF handlerVars
  <2> QED BY <1>1, <1>2, <2>1, <2>2 DEF IndInv
<1>5. (\E p \in Handlers : HandlerAction(p)) \/ UNCHANGED handlerVars
  BY DEF Next, HandlerAction, Create, Deadline, Read, AcquireSettlement, OtherRequests, Chain, vars
<1> QED BY <1>1, <1>2, <1>3, <1>4, <1>5 DEF IndInv

(* The inductive invariant holds in every reachable state. *)
THEOREM SettlementInvariant == Spec => []IndInv
  BY InitInv, NextInv, PTL DEF Spec

-----------------------------------------------------------------------------
(* The requests of the invoice service, with those of /execution-intents    *)
(* that touch its intents, issue only statements of the intent table.       *)
THEOREM SettlementImplementsStore == Spec => StoreSpec
<1>1. Init => StoreInit
  BY DEF Init
<1> QED BY <1>1, InitInv, NextInv, NextIsStoreStep, PTL DEF Spec, StoreSpec

(* So the invoice service implements the payment ledger, too.               *)
THEOREM SettlementImplementsLedger == Spec => ImplementsLedger
  BY SettlementImplementsStore, StoreImplementsLedger

(* The rows of an invoice, its payment and its intent agree: paid only by   *)
(* the verified transfer of the intent, a payment exactly when locked, and  *)
(* no payment consumed for an invoice that is cancelled or expired.         *)
THEOREM RowsAgree == Spec => []InvoiceRowsAgree
<1>1. IndInv => InvoiceRowsAgree
  BY DEF IndInv, RowsInv, InvoiceRowsAgree
<1> QED BY <1>1, SettlementInvariant, PTL

(* From a state of the invariant no step moves an invoice back or takes a   *)
(* verified payment away (ExpireOpen, CancelUpdate, Settle, Retry, Reject). *)
LEMMA InvoiceStepForward ==
    ASSUME IndInv, [Next]_vars, NEW k \in Keys
    PROVE  /\ invoice'[k] \in NextInvoiceStatuses(invoice[k])
           /\ payment[k].status = "VERIFIED" => payment'[k] = payment[k]
<1> DEFINE Goal == /\ invoice'[k] \in NextInvoiceStatuses(invoice[k])
                   /\ payment[k].status = "VERIFIED" => payment'[k] = payment[k]
<1>1. /\ RowOK(k)
      /\ invoice \in [Keys -> InvoiceStatuses \cup {"ABSENT"}]
      /\ payment \in [Keys -> PaymentRows]
  BY RowByRow DEF IndInv, TypeOK
<1>2. invoice[k] \in NextInvoiceStatuses(invoice[k])
  BY <1>1 DEF NextInvoiceStatuses, InvoiceStatuses
<1>3. UNCHANGED <<invoice, payment>> => Goal
  BY <1>2
<1>4. ASSUME NEW l \in Keys, ExpireOpen(l), UNCHANGED payment
      PROVE  Goal
  BY <1>1, <1>2, <1>4 DEF ExpireOpen, NextInvoiceStatuses
<1>5. ASSUME NEW l \in Keys, Create(l) \/ Deadline(l) \/ Read(l) \/ \E d \in Payloads : AcquireSettlement(l, d)
      PROVE  Goal
  <2>1. CASE Create(l)
    BY <1>1, <1>2, <2>1 DEF Create, NextInvoiceStatuses
  <2>2. CASE Read(l)
    BY <1>4, <2>2 DEF Read
  <2>3. CASE Deadline(l) \/ \E d \in Payloads : AcquireSettlement(l, d)
    BY <1>3, <2>3 DEF Deadline, AcquireSettlement, invoiceVars
  <2> QED BY <1>5, <2>1, <2>2, <2>3
<1>6. ASSUME NEW p \in Handlers, HandlerAction(p)
      PROVE  Goal
  <2>1. HandlerOK(p)
    BY DEF IndInv
  <2>2. CASE CancelExpire(p) \/ Expire(p)
    <3>1. local[p].key \in Keys
      BY <2>1, <2>2 DEF CancelExpire, Expire, HandlerOK
    <3> QED BY <1>4, <2>2, <3>1 DEF CancelExpire, Expire
  <2>3. CASE CancelUpdate(p)
    BY <1>1, <1>2, <2>3 DEF CancelUpdate, NextInvoiceStatuses
  <2>4. CASE Lock(p)
    BY <1>1, <1>2, <1>3, <2>4 DEF Lock, NextInvoiceStatuses, RowOK
  <2>5. \A s : SetPayment(p, s) /\ payment[k].status = "VERIFIED" => payment'[k] = payment[k]
    BY <1>1 DEF SetPayment
  <2>6. CASE Settle(p)
    BY <1>1, <1>2, <2>5, <2>6 DEF Settle, NextInvoiceStatuses
  <2>7. CASE Retry(p) \/ Reject(p)
    BY <1>2, <2>5, <2>7 DEF Retry, Reject
  <2>8. CASE (\E l \in Keys : CancelRequest(p, l) \/ \E g \in Hashes : VerifyRequest(p, l, g)) \/ Crash(p)
    BY <1>3, <2>8 DEF CancelRequest, VerifyRequest, Crash, invoiceVars
  <2>9. CASE ReadInvoice(p) \/ IntentRead(p) \/ BeginRead(p) \/ BeginWrite(p)
    BY <1>3, <2>9 DEF ReadInvoice, IntentRead, BeginRead, BeginWrite, invoiceVars
  <2>10. CASE ReuseRead(p) \/ Receipt(p) \/ CompleteRead(p) \/ CompleteUpdate(p)
    BY <1>3, <2>10 DEF ReuseRead, Receipt, CompleteRead, CompleteUpdate, invoiceVars
  <2> QED
    BY <1>6, <2>2, <2>3, <2>4, <2>6, <2>7, <2>8, <2>9, <2>10 DEF HandlerAction, Step
<1>7. CASE OtherRequests \/ Chain \/ UNCHANGED vars
  BY <1>3, <1>7 DEF OtherRequests, Chain, vars, invoiceVars
<1> QED BY <1>5, <1>6, <1>7 DEF Next, HandlerAction

(* PAID, EXPIRED and CANCELLED are for ever, a locked invoice only becomes  *)
(* PAID, and a verified payment is never overwritten by a slower request.   *)
THEOREM InvoiceForward == Spec => InvoiceMovesForward
<1> DEFINE Forward == \A k \in Keys :
               /\ invoice'[k] \in NextInvoiceStatuses(invoice[k])
               /\ payment[k].status = "VERIFIED" => payment'[k] = payment[k]
<1>1. IndInv /\ [Next]_vars => [Forward]_vars
  BY InvoiceStepForward
<1> QED BY <1>1, SettlementInvariant, PTL DEF Spec, InvoiceMovesForward

(* A settlement intent is never cancelled or hidden once its hash is bound, *)
(* and its evidence never moves back, whatever invoice requests do.         *)
THEOREM SettlementEvidenceForward == Spec => EvidenceMovesForward
  BY SettlementImplementsStore, EvidenceForward

-----------------------------------------------------------------------------
(* The merchant's pages.  Rows are only added, and keep their owner, their  *)
(* amount and their expiry.                                                 *)
RowStatuses == {"OPEN", "VERIFYING"} \cup FinalStatuses
UnitValues == {1} \cup {ParseUnits(a) : a \in AmountTexts}
RowRecords == [owner : Merchants, status : RowStatuses, units : UnitValues, expiresAt : Int, call : Nat]
ListQueries == [filter : {"All", "OPEN"}, offset : Nat]
Forms == [amount : AmountTexts, expiresAt : Int \cup {NoOne}, typed : LocalTimes \cup {NoOne},
          previewed : BOOLEAN]
ListItems == [id : Nat, owner : Merchants, status : RowStatuses]
Snapshots == [id : Nat, status : RowStatuses, units : UnitValues, expiresAt : Int]
PageCalls == [asked : {"list", "get", "cancel", "create"}, does : {"list", "get", "cancel", "create"},
              as : Merchants, query : ListQueries \cup {1} \cup Forms,
              at : {"sent", "expired", "found", "answered", "failed", "shown"},
              answer : {NoOne} \cup SUBSET ListItems \cup Snapshots,
              total : Nat, found : SUBSET Nat]

RowsTyped == invoiceRows \in Seq(RowRecords) /\ invoiceRows # <<>>

CallShape(c) ==
  /\ openPage = "list" => /\ c.asked = "list" /\ c.does = "list" /\ c.query \in ListQueries
                          /\ c.at \in {"found", "answered"} => c.answer \in SUBSET ListItems
  /\ openPage = "detail" => /\ c.query = 1
                            /\ \/ c.asked = "get" /\ c.does = "get"
                               \/ c.asked = "cancel" /\ c.does \in {"cancel", "get"}
                            /\ c.at # "found" /\ (c.at = "answered" => c.answer \in Snapshots)
  /\ openPage = "new" => /\ c.asked = "create" /\ c.does = "create" /\ c.query \in Forms
                         /\ c.at # "found" /\ (c.at = "answered" => c.answer \in Snapshots)

MerchantType ==
  /\ openPage \in {"list", "detail", "new"} /\ merchant \in Merchants \cup {NoOne}
  /\ RowsTyped /\ invoiceNow \in Int
  /\ calls \in Seq(PageCalls) /\ applied \in 0 .. Len(calls)
  /\ \A n \in DOMAIN calls : CallShape(calls[n])
  /\ listPage \in [filter : {"All", "OPEN"}, offset : Nat, items : SUBSET ListItems, total : Nat,
                   loading : BOOLEAN, error : BOOLEAN, due : BOOLEAN]
  /\ walk \in [rows : SUBSET Nat, seen : SUBSET Nat, on : BOOLEAN]
  /\ detailPage \in [invoice : Snapshots \cup {NoOne}, loading : BOOLEAN, cancelling : BOOLEAN,
                     error : BOOLEAN, due : BOOLEAN]
  /\ newPage \in [amount : AmountTexts, expiry : LocalTimes \cup {NoOne}, submitting : BOOLEAN,
                  created : Snapshots \cup {NoOne}, error : BOOLEAN, zone : Zones,
                  minimumExpiry : Int]

\* What every step leaves of the rows there are.
RowsGoOn ==
  /\ RowsTyped' /\ DOMAIN invoiceRows \subseteq DOMAIN invoiceRows'
  /\ \A i \in DOMAIN invoiceRows :
       /\ invoiceRows'[i].owner = invoiceRows[i].owner
       /\ invoiceRows'[i].units = invoiceRows[i].units
       /\ invoiceRows'[i].expiresAt = invoiceRows[i].expiresAt
       /\ invoiceRows'[i].call = invoiceRows[i].call
       /\ invoiceRows[i].status \in FinalStatuses => invoiceRows'[i].status = invoiceRows[i].status

\* Rows that differ from the old ones in the status at most.
LEMMA StatusChanges ==
  ASSUME RowsTyped, DOMAIN invoiceRows' = DOMAIN invoiceRows,
         invoiceRows' = [i \in DOMAIN invoiceRows |-> invoiceRows'[i]],
         \A i \in DOMAIN invoiceRows : \E s \in RowStatuses :
             /\ invoiceRows'[i] = [invoiceRows[i] EXCEPT !.status = s]
             /\ invoiceRows[i].status \in FinalStatuses => s = invoiceRows[i].status
  PROVE  RowsGoOn
<1>1. \A i \in DOMAIN invoiceRows : invoiceRows[i] \in RowRecords  BY DEF RowsTyped
<1>2. ASSUME NEW i \in DOMAIN invoiceRows
      PROVE  /\ invoiceRows'[i] \in RowRecords
             /\ invoiceRows'[i].owner = invoiceRows[i].owner
             /\ invoiceRows'[i].units = invoiceRows[i].units
             /\ invoiceRows'[i].expiresAt = invoiceRows[i].expiresAt
             /\ invoiceRows'[i].call = invoiceRows[i].call
             /\ invoiceRows[i].status \in FinalStatuses => invoiceRows'[i].status = invoiceRows[i].status
  <2>1. PICK s \in RowStatuses : /\ invoiceRows'[i] = [invoiceRows[i] EXCEPT !.status = s]
                                 /\ invoiceRows[i].status \in FinalStatuses => s = invoiceRows[i].status
    OBVIOUS
  <2>2. invoiceRows[i] \in RowRecords  BY <1>1
  <2> QED  BY <2>1, <2>2 DEF RowRecords
<1>3. invoiceRows' \in Seq(RowRecords)
  <2>1. DOMAIN invoiceRows = 1 .. Len(invoiceRows) /\ Len(invoiceRows) \in Nat  BY DEF RowsTyped
  <2>2. invoiceRows' \in [1 .. Len(invoiceRows) -> RowRecords]  BY <1>2, <2>1
  <2> QED  BY <2>1, <2>2
<1>4. invoiceRows' # <<>>
  <2>1. 1 \in DOMAIN invoiceRows  BY DEF RowsTyped
  <2> QED  BY <2>1
<1> QED  BY <1>2, <1>3, <1>4 DEF RowsGoOn, RowsTyped

LEMMA RowAdded ==
  ASSUME RowsTyped, NEW r \in RowRecords, invoiceRows' = Append(invoiceRows, r)
  PROVE  /\ RowsGoOn /\ Len(invoiceRows') = Len(invoiceRows) + 1
         /\ DOMAIN invoiceRows' = DOMAIN invoiceRows \cup {Len(invoiceRows) + 1}
         /\ invoiceRows'[Len(invoiceRows) + 1] = r
         /\ \A i \in DOMAIN invoiceRows : invoiceRows'[i] = invoiceRows[i]
BY DEF RowsTyped, RowsGoOn

LEMMA RowsLeft ==
  ASSUME RowsTyped, UNCHANGED invoiceRows PROVE RowsGoOn
BY DEF RowsTyped, RowsGoOn

LEMMA StatusesExpire ==
  ASSUME MerchantType, NEW n \in Waiting, ExpireOpenInvoices(n)
  PROVE  RowsGoOn /\ DOMAIN invoiceRows' = DOMAIN invoiceRows
<1>1. /\ DOMAIN invoiceRows' = DOMAIN invoiceRows
      /\ invoiceRows' = [i \in DOMAIN invoiceRows |-> invoiceRows'[i]]
  BY DEF ExpireOpenInvoices
<1>2. ASSUME NEW i \in DOMAIN invoiceRows
      PROVE  \E s \in RowStatuses :
               /\ invoiceRows'[i] = [invoiceRows[i] EXCEPT !.status = s]
               /\ invoiceRows[i].status \in FinalStatuses => s = invoiceRows[i].status
  <2>1. invoiceRows[i] \in RowRecords  BY DEF MerchantType, RowsTyped
  <2>2. CASE InScope(calls[n], i) /\ Overdue(i)
    <3>1. invoiceRows'[i] = [invoiceRows[i] EXCEPT !.status = "EXPIRED"]
      BY <2>2 DEF ExpireOpenInvoices
    <3> QED  BY <3>1, <2>2 DEF Overdue, FinalStatuses, RowStatuses
  <2>3. CASE ~(InScope(calls[n], i) /\ Overdue(i))
    <3>1. invoiceRows'[i] = invoiceRows[i]  BY <2>3 DEF ExpireOpenInvoices
    <3>2. invoiceRows[i] = [invoiceRows[i] EXCEPT !.status = invoiceRows[i].status]
          /\ invoiceRows[i].status \in RowStatuses
      BY <2>1 DEF RowRecords
    <3> QED  BY <3>1, <3>2
  <2> QED  BY <2>2, <2>3
<1> QED  BY <1>1, <1>2, StatusChanges DEF MerchantType

\* One row gets a status while it has none of the final ones.
LEMMA StatusIsSet ==
  ASSUME RowsTyped, NEW k \in DOMAIN invoiceRows, NEW s \in RowStatuses,
         invoiceRows[k].status \notin FinalStatuses,
         invoiceRows' = [invoiceRows EXCEPT ![k].status = s]
  PROVE  /\ RowsGoOn /\ DOMAIN invoiceRows' = DOMAIN invoiceRows
         /\ invoiceRows'[k].status = s
<1>1. /\ DOMAIN invoiceRows' = DOMAIN invoiceRows
      /\ invoiceRows' = [i \in DOMAIN invoiceRows |-> invoiceRows'[i]]
  BY DEF RowsTyped
<1>2. ASSUME NEW i \in DOMAIN invoiceRows
      PROVE  \E t \in RowStatuses :
               /\ invoiceRows'[i] = [invoiceRows[i] EXCEPT !.status = t]
               /\ invoiceRows[i].status \in FinalStatuses => t = invoiceRows[i].status
  <2>1. invoiceRows[i] \in RowRecords  BY DEF RowsTyped
  <2>2. CASE i = k
    <3>1. invoiceRows'[i] = [invoiceRows[i] EXCEPT !.status = s]  BY <2>2
    <3> QED  BY <3>1, <2>2
  <2>3. CASE i # k
    <3>1. invoiceRows'[i] = invoiceRows[i]  BY <2>3
    <3>2. invoiceRows[i] = [invoiceRows[i] EXCEPT !.status = invoiceRows[i].status]
          /\ invoiceRows[i].status \in RowStatuses
      BY <2>1 DEF RowRecords
    <3> QED  BY <3>1, <3>2
  <2> QED  BY <2>2, <2>3
<1>3. invoiceRows[k] \in RowRecords  BY DEF RowsTyped
<1>4. invoiceRows'[k].status = s  BY <1>3 DEF RowRecords
<1> QED  BY <1>1, <1>2, <1>4, StatusChanges

-----------------------------------------------------------------------------
(* The calls: one is added, or one goes on.                                 *)
CallGoesOn(n, c) ==
  /\ n \in DOMAIN calls /\ c \in PageCalls /\ calls' = [calls EXCEPT ![n] = c]
  /\ c.asked = calls[n].asked /\ c.as = calls[n].as /\ c.query = calls[n].query

LEMMA CallsAfter ==
  ASSUME MerchantType, NEW n, NEW c, CallGoesOn(n, c)
  PROVE  /\ calls' \in Seq(PageCalls) /\ Len(calls') = Len(calls) /\ DOMAIN calls' = DOMAIN calls
         /\ calls'[n] = c /\ \A m \in DOMAIN calls : m # n => calls'[m] = calls[m]
<1>1. calls \in Seq(PageCalls) /\ n \in DOMAIN calls /\ c \in PageCalls
      /\ calls' = [calls EXCEPT ![n] = c]
  BY DEF MerchantType, CallGoesOn
<1> QED  BY <1>1

\* A call is as it is answered.
LEMMA CallIs ==
  ASSUME MerchantType, NEW n \in DOMAIN calls
  PROVE  /\ calls[n] \in PageCalls /\ CallShape(calls[n])
         /\ DOMAIN calls = 1 .. Len(calls) /\ Len(calls) \in Nat /\ n \in Nat
<1>1. calls \in Seq(PageCalls)  BY DEF MerchantType
<1>2. calls[n] \in PageCalls /\ DOMAIN calls = 1 .. Len(calls) /\ Len(calls) \in Nat  BY <1>1
<1> QED  BY <1>2 DEF MerchantType

LEMMA ShapesLast ==
  ASSUME MerchantType, UNCHANGED openPage, NEW n, NEW c, CallGoesOn(n, c), CallShape(c)
  PROVE  (\A m \in DOMAIN calls : CallShape(calls[m]))'
<1>3. CallShape(c)  OBVIOUS
<1>4. \A m \in DOMAIN calls : CallShape(calls[m])  BY CallIs
<1>5. DOMAIN calls' = DOMAIN calls /\ calls'[n] = c /\ \A m \in DOMAIN calls : m # n => calls'[m] = calls[m]
  BY CallsAfter
<1>6. \A m \in DOMAIN calls' : CallShape(calls'[m])  BY <1>3, <1>4, <1>5
<1> QED  BY <1>6 DEF CallShape

LEMMA Expires ==
  ASSUME MerchantType, NEW n \in Waiting, ExpireOpenInvoices(n)
  PROVE  \E c : CallGoesOn(n, c) /\ c.at = "expired" /\ c.does = calls[n].does /\ c.answer = calls[n].answer
<1>1. n \in DOMAIN calls  BY DEF Waiting
<1>2. calls[n] \in PageCalls  BY <1>1, CallIs
<1>3. PICK c : c = [calls[n] EXCEPT !.at = "expired"]  OBVIOUS
<1>4. calls' = [calls EXCEPT ![n] = c]  BY <1>3 DEF ExpireOpenInvoices
<1>5. /\ c \in PageCalls /\ c.asked = calls[n].asked /\ c.as = calls[n].as /\ c.query = calls[n].query
      /\ c.at = "expired" /\ c.does = calls[n].does /\ c.answer = calls[n].answer
  BY <1>2, <1>3 DEF PageCalls
<1> QED  BY <1>1, <1>4, <1>5 DEF CallGoesOn

NewerIn(c, i) == Cardinality({j \in Matching(c) : j > i})
PageRows(c) == {k \in Matching(c) : NewerIn(c, k) \in c.query.offset .. c.query.offset + PageSize - 1}

LEMMA Finds ==
  ASSUME MerchantType, NEW n \in Waiting, FindMany(n)
  PROVE  /\ calls[n].at = "expired"
         /\ \E c : /\ CallGoesOn(n, c) /\ c.at = "found" /\ c.does = calls[n].does
                   /\ c.found = Matching(calls[n]) /\ c.answer \in SUBSET ListItems
                   /\ c.answer = {[id |-> i, owner |-> c.as, status |-> invoiceRows[i].status] :
                                     i \in PageRows(calls[n])}
<1>1. n \in DOMAIN calls  BY DEF Waiting
<1>2. calls[n] \in PageCalls  BY <1>1, CallIs
<1>3. PICK found, answer : /\ found = Matching(calls[n])
                           /\ answer = {[id |-> i, owner |-> calls[n].as, status |-> invoiceRows[i].status] :
                                           i \in PageRows(calls[n])}
  OBVIOUS
<1>4. PICK c : c = [calls[n] EXCEPT !.at = "found", !.found = found, !.answer = answer]  OBVIOUS
<1>5. calls' = [calls EXCEPT ![n] = c]
  BY <1>3, <1>4 DEF FindMany, PageRows, NewerIn
<1>6. found \in SUBSET Nat  BY <1>3 DEF Matching, MerchantType, RowsTyped
<1>7. answer \in SUBSET ListItems
  <2>1. ASSUME NEW i \in PageRows(calls[n])
        PROVE  [id |-> i, owner |-> calls[n].as, status |-> invoiceRows[i].status] \in ListItems
    <3>1. i \in DOMAIN invoiceRows /\ invoiceRows[i].owner = calls[n].as  BY DEF PageRows, Matching
    <3>2. i \in Nat /\ invoiceRows[i] \in RowRecords  BY <3>1 DEF MerchantType, RowsTyped
    <3> QED  BY <3>1, <3>2 DEF RowRecords, ListItems
  <2> QED  BY <2>1, <1>3
<1>8. /\ c \in PageCalls /\ c.asked = calls[n].asked /\ c.as = calls[n].as /\ c.query = calls[n].query
      /\ c.at = "found" /\ c.does = calls[n].does /\ c.found = found /\ c.answer = answer
  BY <1>2, <1>4, <1>6, <1>7 DEF PageCalls
<1>9. answer = {[id |-> i, owner |-> c.as, status |-> invoiceRows[i].status] : i \in PageRows(calls[n])}
  BY <1>3, <1>8
<1>10. CallGoesOn(n, c) /\ calls[n].at = "expired"  BY <1>1, <1>5, <1>8 DEF CallGoesOn, FindMany
<1>11. c.found = Matching(calls[n])  BY <1>3, <1>8
<1>12. c.answer \in SUBSET ListItems  BY <1>7, <1>8
<1>13. c.answer = {[id |-> i, owner |-> c.as, status |-> invoiceRows[i].status] : i \in PageRows(calls[n])}
  BY <1>8, <1>9
<1> QED  BY <1>8, <1>10, <1>11, <1>12, <1>13

\* Matching rows are rows, so a finite number of them.
LEMMA MatchingIsFinite ==
  ASSUME MerchantType, NEW S, S \subseteq DOMAIN invoiceRows
  PROVE  IsFiniteSet(S) /\ Cardinality(S) \in Nat
<1>1. DOMAIN invoiceRows = 1 .. Len(invoiceRows) /\ Len(invoiceRows) \in Nat
  BY DEF MerchantType, RowsTyped
<1>2. IsFiniteSet(1 .. Len(invoiceRows))  BY <1>1, FS_Interval
<1>3. IsFiniteSet(S)  BY <1>1, <1>2, FS_Subset
<1> QED  BY <1>3, FS_CardinalityType

\* Only a call of the list is between its two statements.
LEMMA FoundIsList ==
  ASSUME MerchantType, NEW n \in DOMAIN calls, calls[n].at = "found"
  PROVE  openPage = "list"
BY CallIs DEF MerchantType, CallShape

LEMMA Counts ==
  ASSUME MerchantType, NEW n \in Waiting, CountRows(n)
  PROVE  /\ calls[n].at = "found"
         /\ \E c : /\ CallGoesOn(n, c) /\ c.at = "answered" /\ c.does = calls[n].does
                   /\ c.found = calls[n].found /\ c.answer = calls[n].answer
                   /\ c.total = Cardinality(Matching(calls[n]))
<1>1. n \in DOMAIN calls  BY DEF Waiting
<1>2. calls[n] \in PageCalls  BY <1>1, CallIs
<1>3. PICK t : t = Cardinality(Matching(calls[n]))  OBVIOUS
<1>4. PICK c : c = [calls[n] EXCEPT !.at = "answered", !.total = t]  OBVIOUS
<1>5. calls' = [calls EXCEPT ![n] = c]  BY <1>3, <1>4 DEF CountRows
<1>6. t \in Nat
  <2>1. Matching(calls[n]) \subseteq DOMAIN invoiceRows  BY DEF Matching
  <2> QED  BY <1>3, <2>1, MatchingIsFinite
<1>7. /\ c \in PageCalls /\ c.asked = calls[n].asked /\ c.as = calls[n].as /\ c.query = calls[n].query
      /\ c.at = "answered" /\ c.does = calls[n].does /\ c.found = calls[n].found
      /\ c.answer = calls[n].answer /\ c.total = t
  BY <1>2, <1>4, <1>6 DEF PageCalls
<1> QED  BY <1>1, <1>3, <1>5, <1>7 DEF CallGoesOn, CountRows

\* A call fails, with no answer.
LEMMA Fails ==
  ASSUME MerchantType, NEW n \in DOMAIN calls, Refuse(n)
  PROVE  \E c : CallGoesOn(n, c) /\ c.at = "failed" /\ c.does = calls[n].does /\ c.answer = NoOne
<1>1. calls[n] \in PageCalls  BY CallIs
<1>2. PICK c : c = [calls[n] EXCEPT !.at = "failed", !.answer = NoOne]  OBVIOUS
<1>3. calls' = [calls EXCEPT ![n] = c]  BY <1>2 DEF Refuse
<1>4. /\ c \in PageCalls /\ c.asked = calls[n].asked /\ c.as = calls[n].as /\ c.query = calls[n].query
      /\ c.at = "failed" /\ c.does = calls[n].does /\ c.answer = NoOne
  BY <1>1, <1>2 DEF PageCalls
<1> QED  BY <1>3, <1>4 DEF CallGoesOn

\* A call is answered, with what there is of a row.
LEMMA Answers ==
  ASSUME MerchantType, NEW n \in DOMAIN calls, NEW s \in Snapshots,
         calls' = [calls EXCEPT ![n].at = "answered", ![n].answer = s]
  PROVE  \E c : CallGoesOn(n, c) /\ c.at = "answered" /\ c.does = calls[n].does /\ c.answer = s
<1>1. calls[n] \in PageCalls /\ calls \in Seq(PageCalls)  BY CallIs DEF MerchantType
<1>2. PICK c : c = [calls[n] EXCEPT !.at = "answered", !.answer = s]  OBVIOUS
<1>3. calls' = [calls EXCEPT ![n] = c]  BY <1>1, <1>2
<1>4. /\ c \in PageCalls /\ c.asked = calls[n].asked /\ c.as = calls[n].as /\ c.query = calls[n].query
      /\ c.at = "answered" /\ c.does = calls[n].does /\ c.answer = s
  BY <1>1, <1>2 DEF PageCalls
<1> QED  BY <1>3, <1>4 DEF CallGoesOn

LEMMA SnapshotIs ==
  ASSUME MerchantType, NEW i \in DOMAIN invoiceRows
  PROVE  Snapshot(i) \in Snapshots
<1>1. invoiceRows[i] \in RowRecords /\ i \in Nat  BY DEF MerchantType, RowsTyped
<1> QED  BY <1>1 DEF RowRecords, Snapshots, Snapshot

LEMMA FirstRow ==
  ASSUME MerchantType PROVE 1 \in DOMAIN invoiceRows
BY DEF MerchantType, RowsTyped

LEMMA Gets ==
  ASSUME MerchantType, NEW n \in Waiting, GetOwned(n)
  PROVE  /\ openPage = "detail" /\ calls[n].does = "get"
         /\ \E c : /\ CallGoesOn(n, c) /\ c.does = "get"
                   /\ \/ c.at = "answered" /\ c.answer = Snapshot(1)
                      \/ c.at = "failed"
<1>1. n \in DOMAIN calls  BY DEF Waiting
<1>2. calls[n].does = "get"  BY DEF GetOwned
<1>3. openPage = "detail" /\ calls[n].query = 1  BY <1>1, <1>2, CallIs DEF CallShape, MerchantType
<1>4. CASE AnswerWith(n, calls[n].query)
  <2>1. PICK s \in Snapshots : s = Snapshot(1)  BY FirstRow, SnapshotIs
  <2>2. calls' = [calls EXCEPT ![n].at = "answered", ![n].answer = s]  BY <1>3, <1>4, <2>1 DEF AnswerWith
  <2>3. PICK c : CallGoesOn(n, c) /\ c.at = "answered" /\ c.does = calls[n].does /\ c.answer = s
    BY <1>1, <2>2, Answers
  <2> QED  BY <1>2, <1>3, <2>1, <2>3
<1>5. CASE Refuse(n)  BY <1>1, <1>2, <1>3, <1>5, Fails
<1> QED  BY <1>4, <1>5 DEF GetOwned

LEMMA Cancels ==
  ASSUME MerchantType, NEW n \in Waiting, CancelRow(n)
  PROVE  /\ openPage = "detail" /\ calls[n].does = "cancel" /\ RowsGoOn
         /\ DOMAIN invoiceRows' = DOMAIN invoiceRows
         /\ \E c : /\ CallGoesOn(n, c) /\ c.answer \in {calls[n].answer, NoOne}
                   /\ \/ c.at = "sent" /\ c.does = "get" /\ invoiceRows'[1].status = "CANCELLED"
                      \/ c.at = "failed" /\ c.does = "cancel"
<1>1. n \in DOMAIN calls  BY DEF Waiting
<1>2. calls[n].does = "cancel"  BY DEF CancelRow
<1>3. openPage = "detail" /\ calls[n].query = 1  BY <1>1, <1>2, CallIs DEF CallShape, MerchantType
<1>4. CASE Cancellable(calls[n])
  <2>1. /\ invoiceRows[1].status = "OPEN"
        /\ invoiceRows' = [invoiceRows EXCEPT ![1].status = "CANCELLED"]
        /\ calls' = [calls EXCEPT ![n].does = "get", ![n].at = "sent"]
    BY <1>3, <1>4 DEF CancelRow, Cancellable
  <2>2. RowsGoOn /\ DOMAIN invoiceRows' = DOMAIN invoiceRows /\ invoiceRows'[1].status = "CANCELLED"
    BY <2>1, FirstRow, StatusIsSet DEF MerchantType, FinalStatuses, RowStatuses
  <2>3. calls[n] \in PageCalls /\ calls \in Seq(PageCalls)  BY <1>1, CallIs DEF MerchantType
  <2>4. PICK c : c = [calls[n] EXCEPT !.does = "get", !.at = "sent"]  OBVIOUS
  <2>5. calls' = [calls EXCEPT ![n] = c]  BY <1>1, <2>1, <2>3, <2>4
  <2>6. /\ c \in PageCalls /\ c.asked = calls[n].asked /\ c.as = calls[n].as /\ c.query = calls[n].query
        /\ c.at = "sent" /\ c.does = "get" /\ c.answer = calls[n].answer
    BY <2>3, <2>4 DEF PageCalls
  <2> QED  BY <1>1, <1>2, <1>3, <2>2, <2>5, <2>6 DEF CallGoesOn
<1>5. CASE ~Cancellable(calls[n])
  <2>1. Refuse(n) /\ UNCHANGED invoiceRows  BY <1>5 DEF CancelRow
  <2>2. RowsGoOn  BY <2>1, RowsLeft DEF MerchantType
  <2> QED  BY <1>1, <1>2, <1>3, <2>1, <2>2, Fails
<1> QED  BY <1>4, <1>5

LEMMA Creates ==
  ASSUME MerchantType, NEW n \in Waiting, CreateRow(n)
  PROVE  /\ openPage = "new" /\ calls[n].does = "create" /\ calls[n].query \in Forms
         /\ \E c : /\ CallGoesOn(n, c) /\ c.does = "create" /\ c.at \in {"answered", "failed"}
                   /\ c.at = "answered" => c.answer \in Snapshots
                   /\ \/ c.at = "failed" /\ UNCHANGED invoiceRows
                      \/ /\ Acceptable(c.query) /\ c.at = "answered"
                         /\ c.answer = [id |-> Len(invoiceRows) + 1, status |-> "OPEN",
                                        units |-> ParseUnits(c.query.amount),
                                        expiresAt |-> ExpiryOf(c.query)]
                         /\ \E r \in RowRecords :
                               /\ invoiceRows' = Append(invoiceRows, r) /\ r.call = n
                               /\ r.units = ParseUnits(c.query.amount)
                               /\ r.expiresAt = ExpiryOf(c.query)
<1>1. n \in DOMAIN calls  BY DEF Waiting
<1>2. calls[n].does = "create"  BY DEF CreateRow
<1>3. openPage = "new" /\ calls[n].query \in Forms /\ calls[n].as \in Merchants /\ n \in Nat
  BY <1>1, <1>2, CallIs DEF CallShape, MerchantType, PageCalls
<1>4. CASE ~Acceptable(calls[n].query)
  <2>1. Refuse(n) /\ UNCHANGED invoiceRows  BY <1>4 DEF CreateRow
  <2> QED  BY <1>1, <1>2, <1>3, <2>1, Fails
<1>5. CASE Acceptable(calls[n].query)
  <2>1. PICK u, e : u = ParseUnits(calls[n].query.amount) /\ e = ExpiryOf(calls[n].query)  OBVIOUS
  <2>2. u \in UnitValues  BY <1>3, <2>1 DEF Forms, UnitValues
  <2>3. e \in Int
    <3>1. CASE calls[n].query.expiresAt = NoOne
      BY <2>1, <3>1, MerchantAssumption DEF ExpiryOf, MerchantType
    <3>2. CASE calls[n].query.expiresAt # NoOne  BY <1>3, <2>1, <3>2 DEF ExpiryOf, Forms
    <3> QED  BY <3>1, <3>2
  <2>4. PICK s : s = [id |-> Len(invoiceRows) + 1, status |-> "OPEN", units |-> u, expiresAt |-> e]
    OBVIOUS
  <2>5. PICK r : r = [owner |-> calls[n].as, status |-> "OPEN", call |-> n, units |-> u, expiresAt |-> e]
    OBVIOUS
  <2>6. s \in Snapshots
    <3>1. Len(invoiceRows) + 1 \in Nat  BY DEF MerchantType, RowsTyped
    <3> QED  BY <2>2, <2>3, <2>4, <3>1 DEF Snapshots, RowStatuses
  <2>7. r \in RowRecords /\ r.call = n /\ r.units = u /\ r.expiresAt = e
    BY <1>3, <2>2, <2>3, <2>5 DEF RowRecords, RowStatuses
  <2>8. /\ invoiceRows' = Append(invoiceRows, r)
        /\ calls' = [calls EXCEPT ![n].at = "answered", ![n].answer = s]
    BY <1>5, <2>1, <2>4, <2>5 DEF CreateRow
  <2>9. PICK c : CallGoesOn(n, c) /\ c.at = "answered" /\ c.does = calls[n].does /\ c.answer = s
    BY <1>1, <2>6, <2>8, Answers
  <2>10. c.query = calls[n].query  BY <2>9 DEF CallGoesOn
  <2> QED  BY <1>2, <1>3, <1>5, <2>1, <2>4, <2>6, <2>7, <2>8, <2>9, <2>10
<1> QED  BY <1>4, <1>5

LEMMA Shows ==
  ASSUME MerchantType, NEW n \in Waiting, Shown(n)
  PROVE  /\ calls[n].at \in {"answered", "failed"} /\ applied' = n
         /\ \E c : CallGoesOn(n, c) /\ c.at = "shown" /\ c.does = calls[n].does /\ c.answer = calls[n].answer
<1>1. n \in DOMAIN calls  BY DEF Waiting
<1>2. calls[n] \in PageCalls  BY <1>1, CallIs
<1>3. PICK c : c = [calls[n] EXCEPT !.at = "shown", !.found = {}, !.total = 0]  OBVIOUS
<1>4. calls' = [calls EXCEPT ![n] = c]  BY <1>3 DEF Shown
<1>5. /\ c \in PageCalls /\ c.asked = calls[n].asked /\ c.as = calls[n].as /\ c.query = calls[n].query
      /\ c.at = "shown" /\ c.does = calls[n].does /\ c.answer = calls[n].answer
  BY <1>2, <1>3 DEF PageCalls
<1> QED  BY <1>1, <1>4, <1>5 DEF CallGoesOn, Shown

\* c is a new call, the last one.
AskedCall(c, asked, query) ==
  /\ calls' \in Seq(PageCalls) /\ Len(calls') = Len(calls) + 1
  /\ DOMAIN calls' = DOMAIN calls \cup {Len(calls) + 1}
  /\ calls'[Len(calls) + 1] = c /\ \A m \in DOMAIN calls : calls'[m] = calls[m]
  /\ c.asked = asked /\ c.does = asked /\ c.as = merchant /\ c.query = query /\ c.at = "sent"
  /\ c.answer = NoOne

LEMMA Asks ==
  ASSUME MerchantType, merchant # NoOne,
         NEW asked \in {"list", "get", "cancel", "create"},
         NEW query \in ListQueries \cup {1} \cup Forms, PageAsks(asked, query)
  PROVE  \E c \in PageCalls : AskedCall(c, asked, query)
<1>1. PICK c : c = [asked |-> asked, does |-> asked, as |-> merchant, query |-> query,
                    at |-> "sent", answer |-> NoOne, total |-> 0, found |-> {}]
  OBVIOUS
<1>2. /\ c \in PageCalls /\ c.asked = asked /\ c.does = asked /\ c.as = merchant /\ c.query = query
      /\ c.at = "sent" /\ c.answer = NoOne
  BY <1>1 DEF PageCalls, MerchantType
<1>3. calls' = Append(calls, c)  BY <1>1 DEF PageAsks
<1>4. calls \in Seq(PageCalls)  BY DEF MerchantType
<1>5. /\ calls' \in Seq(PageCalls) /\ Len(calls') = Len(calls) + 1
      /\ DOMAIN calls' = DOMAIN calls \cup {Len(calls) + 1}
      /\ calls'[Len(calls) + 1] = c /\ \A m \in DOMAIN calls : calls'[m] = calls[m]
  BY <1>2, <1>3, <1>4
<1> QED  BY <1>2, <1>5 DEF AskedCall

LEMMA ShapesGrow ==
  ASSUME MerchantType, UNCHANGED openPage, NEW c, CallShape(c),
         DOMAIN calls' = DOMAIN calls \cup {Len(calls) + 1}, calls'[Len(calls) + 1] = c,
         \A m \in DOMAIN calls : calls'[m] = calls[m]
  PROVE  (\A m \in DOMAIN calls : CallShape(calls[m]))'
<1>1. \A m \in DOMAIN calls : CallShape(calls[m])  BY CallIs
<1>2. \A m \in DOMAIN calls' : CallShape(calls'[m])  BY <1>1
<1> QED  BY <1>2 DEF CallShape

LEMMA SameShapes ==
  ASSUME MerchantType, UNCHANGED <<openPage, calls>>
  PROVE  (\A m \in DOMAIN calls : CallShape(calls[m]))'
BY DEF MerchantType, CallShape

-----------------------------------------------------------------------------
(* Types. *)
LEMMA ListActionsTyped ==
  ASSUME MerchantType, LoadList \/ SelectFilter \/ PreviousPage \/ NextPage
  PROVE  MerchantType' /\ RowsGoOn
<1>1. RowsTyped /\ UNCHANGED <<openPage, merchant, invoiceRows, invoiceNow, applied, detailPage, newPage>>
  BY DEF MerchantType, LoadList, SelectFilter, PreviousPage, NextPage, OtherThanListState
<1>2. RowsGoOn  BY <1>1, RowsLeft
<1>3. NoWalk \in [rows : SUBSET Nat, seen : SUBSET Nat, on : BOOLEAN]  BY DEF NoWalk
<1>4. CASE LoadList /\ merchant = NoOne
  <2>1. calls' = calls /\ walk' = walk /\ listPage' = [listPage EXCEPT !.due = FALSE]
    BY <1>4 DEF LoadList
  <2>2. listPage' \in [filter : {"All", "OPEN"}, offset : Nat, items : SUBSET ListItems, total : Nat,
                       loading : BOOLEAN, error : BOOLEAN, due : BOOLEAN]
    BY <2>1 DEF MerchantType
  <2> QED  BY <1>1, <1>2, <2>1, <2>2, SameShapes DEF MerchantType, RowsGoOn
<1>5. CASE LoadList /\ merchant # NoOne
  <2>1. /\ walk' = walk /\ listPage' = [listPage EXCEPT !.due = FALSE, !.loading = TRUE, !.error = FALSE]
        /\ PageAsks("list", [filter |-> listPage.filter, offset |-> listPage.offset])
        /\ openPage = "list"
    BY <1>5 DEF LoadList
  <2>2. [filter |-> listPage.filter, offset |-> listPage.offset] \in ListQueries
    BY DEF MerchantType, ListQueries
  <2>3. PICK c \in PageCalls : AskedCall(c, "list", [filter |-> listPage.filter, offset |-> listPage.offset])
    <3>1. "list" \in {"list", "get", "cancel", "create"}
          /\ [filter |-> listPage.filter, offset |-> listPage.offset] \in ListQueries \cup {1} \cup Forms
      BY <2>2
    <3>2. merchant # NoOne  BY <1>5
    <3> QED  BY <2>1, <3>1, <3>2, Asks
  <2>4. CallShape(c)  BY <2>1, <2>2, <2>3 DEF CallShape, AskedCall
  <2>5. (\A m \in DOMAIN calls : CallShape(calls[m]))'  BY <1>1, <2>3, <2>4, ShapesGrow DEF AskedCall
  <2>6. applied' \in 0 .. Len(calls')  BY <1>1, <2>3 DEF MerchantType, AskedCall
  <2>7. listPage' \in [filter : {"All", "OPEN"}, offset : Nat, items : SUBSET ListItems, total : Nat,
                       loading : BOOLEAN, error : BOOLEAN, due : BOOLEAN]
    BY <2>1 DEF MerchantType
  <2> QED  BY <1>1, <1>2, <2>1, <2>3, <2>5, <2>6, <2>7 DEF MerchantType, RowsGoOn, AskedCall
<1>6. CASE SelectFilter \/ PreviousPage \/ NextPage
  <2>1. calls' = calls /\ (walk' = walk \/ walk' = NoWalk)
    BY <1>6 DEF SelectFilter, PreviousPage, NextPage, OtherThanListState
  <2>2. PICK filter \in {"All", "OPEN"}, offset \in Nat : ShowPage(filter, offset)
    <3>1. CASE SelectFilter  BY <3>1 DEF SelectFilter
    <3>2. CASE PreviousPage
      <4>1. listPage.offset \in Nat /\ listPage.filter \in {"All", "OPEN"}  BY DEF MerchantType
      <4>2. (IF listPage.offset > PageSize THEN listPage.offset - PageSize ELSE 0) \in Nat
        BY <4>1, MerchantAssumption
      <4> QED  BY <3>2, <4>1, <4>2 DEF PreviousPage
    <3>3. CASE NextPage
      <4>1. listPage.offset + PageSize \in Nat /\ listPage.filter \in {"All", "OPEN"}
        BY MerchantAssumption DEF MerchantType
      <4> QED  BY <3>3, <4>1 DEF NextPage
    <3> QED  BY <1>6, <3>1, <3>2, <3>3
  <2>3. listPage' \in [filter : {"All", "OPEN"}, offset : Nat, items : SUBSET ListItems, total : Nat,
                       loading : BOOLEAN, error : BOOLEAN, due : BOOLEAN]
    <3>1. PICK d \in BOOLEAN : listPage' = [listPage EXCEPT !.filter = filter, !.offset = offset, !.due = d]
      BY <2>2 DEF ShowPage, MerchantType
    <3> QED  BY <3>1 DEF MerchantType
  <2> QED  BY <1>1, <1>2, <1>3, <2>1, <2>3, SameShapes DEF MerchantType, RowsGoOn
<1> QED  BY <1>4, <1>5, <1>6

LEMMA DetailActionsTyped ==
  ASSUME MerchantType, LoadDetail \/ ClickCancel
  PROVE  MerchantType' /\ RowsGoOn
<1>1. /\ RowsTyped /\ openPage = "detail"
      /\ UNCHANGED <<openPage, merchant, invoiceRows, invoiceNow, applied, listPage, walk, newPage>>
  BY DEF MerchantType, LoadDetail, ClickCancel, OtherThanDetail
<1>2. RowsGoOn  BY <1>1, RowsLeft
<1>3. /\ detailPage' \in [invoice : Snapshots \cup {NoOne}, loading : BOOLEAN, cancelling : BOOLEAN,
                        error : BOOLEAN, due : BOOLEAN]
      /\ detailPage'.invoice = detailPage.invoice
  BY DEF MerchantType, LoadDetail, ClickCancel
<1>4. CASE UNCHANGED calls  BY <1>1, <1>2, <1>3, <1>4, SameShapes DEF MerchantType, RowsGoOn
<1>5. ASSUME NEW asked \in {"get", "cancel"}, merchant # NoOne, PageAsks(asked, 1)
      PROVE  MerchantType'
  <2>1. PICK c \in PageCalls : AskedCall(c, asked, 1)
    <3>1. asked \in {"list", "get", "cancel", "create"} /\ 1 \in ListQueries \cup {1} \cup Forms
      OBVIOUS
    <3> QED  BY <3>1, <1>5, Asks
  <2>2. CallShape(c)  BY <1>1, <2>1 DEF CallShape, AskedCall
  <2>3. (\A m \in DOMAIN calls : CallShape(calls[m]))'  BY <1>1, <2>1, <2>2, ShapesGrow DEF AskedCall
  <2>4. applied' \in 0 .. Len(calls')  BY <1>1, <2>1 DEF MerchantType, AskedCall
  <2> QED  BY <1>1, <1>2, <1>3, <2>1, <2>3, <2>4 DEF MerchantType, RowsGoOn, AskedCall
<1> QED  BY <1>2, <1>4, <1>5 DEF LoadDetail, ClickCancel

LEMMA FormIs ==
  ASSUME MerchantType PROVE Form \in Forms
<1>1. /\ newPage.expiry \in LocalTimes \cup {NoOne} /\ newPage.amount \in AmountTexts
      /\ newPage.zone \in Zones /\ HasPreview(newPage.amount) \in BOOLEAN
  BY DEF MerchantType, HasPreview
<1>2. Zones \subseteq Int /\ LocalTimes \subseteq Int  BY MerchantAssumption
<1>3. newPage.expiry # NoOne => newPage.expiry \in Int /\ newPage.zone \in Int  BY <1>1, <1>2
<1>4. newPage.expiry # NoOne => ToUtc(newPage.expiry) \in Int  BY <1>3 DEF ToUtc
<1> QED  BY <1>1, <1>4 DEF Form, Forms

LEMMA FormActionsTyped ==
  ASSUME MerchantType, EditForm \/ Submit \/ CreateAnother
  PROVE  MerchantType' /\ RowsGoOn
<1>1. /\ RowsTyped /\ openPage = "new" /\ merchant # NoOne
      /\ UNCHANGED <<openPage, merchant, invoiceRows, invoiceNow, applied, listPage, walk, detailPage>>
  BY DEF MerchantType, EditForm, Submit, CreateAnother
<1>2. RowsGoOn  BY <1>1, RowsLeft
<1>3. newPage' \in [amount : AmountTexts, expiry : LocalTimes \cup {NoOne}, submitting : BOOLEAN,
                    created : Snapshots \cup {NoOne}, error : BOOLEAN, zone : Zones,
                    minimumExpiry : Int]
  <2>1. CASE EditForm
    <3>1. PICK a \in AmountTexts, t \in LocalTimes \cup {NoOne} :
             newPage' = [newPage EXCEPT !.amount = a, !.expiry = t]
      BY <2>1 DEF EditForm
    <3> QED  BY <3>1 DEF MerchantType
  <2>2. CASE Submit  BY <2>2 DEF MerchantType, Submit
  <2>3. CASE CreateAnother  BY <2>3 DEF MerchantType, CreateAnother
  <2> QED  BY <2>1, <2>2, <2>3
<1>4. CASE UNCHANGED calls  BY <1>1, <1>2, <1>3, <1>4, SameShapes DEF MerchantType, RowsGoOn
<1>5. CASE PageAsks("create", Form)
  <2>1. PICK c \in PageCalls : AskedCall(c, "create", Form)
    <3>1. "create" \in {"list", "get", "cancel", "create"} /\ Form \in ListQueries \cup {1} \cup Forms
      BY FormIs
    <3> QED  BY <1>1, <1>5, <3>1, Asks
  <2>2. CallShape(c)  BY <1>1, <2>1, FormIs DEF CallShape, AskedCall
  <2>3. (\A m \in DOMAIN calls : CallShape(calls[m]))'  BY <1>1, <2>1, <2>2, ShapesGrow DEF AskedCall
  <2>4. applied' \in 0 .. Len(calls')  BY <1>1, <2>1 DEF MerchantType, AskedCall
  <2> QED  BY <1>1, <1>2, <1>3, <2>1, <2>3, <2>4 DEF MerchantType, RowsGoOn, AskedCall
<1> QED  BY <1>2, <1>4, <1>5 DEF EditForm, Submit, CreateAnother

LEMMA BackendTyped ==
  ASSUME MerchantType, Backend
  PROVE  MerchantType' /\ RowsGoOn
<1>1. RowsTyped /\ UNCHANGED <<openPage, merchant, invoiceNow, applied, listPage, walk, detailPage, newPage>>
  BY DEF MerchantType, Backend, ExpireOpenInvoices, FindMany, CountRows, GetOwned, CancelRow, CreateRow,
         OnlyCallsMove
<1>2. ASSUME NEW n, NEW c, CallGoesOn(n, c), RowsGoOn, CallShape(c)
      PROVE  MerchantType' /\ RowsGoOn
  <2>1. calls' \in Seq(PageCalls) /\ Len(calls') = Len(calls)  BY <1>2, CallsAfter
  <2>2. (\A m \in DOMAIN calls : CallShape(calls[m]))'  BY <1>1, <1>2, ShapesLast
  <2> QED  BY <1>1, <1>2, <2>1, <2>2 DEF MerchantType, RowsGoOn
<1>3. PICK n \in Waiting : \/ ExpireOpenInvoices(n) \/ FindMany(n) \/ CountRows(n)
                           \/ GetOwned(n) \/ CancelRow(n) \/ CreateRow(n)
  BY DEF Backend
<1>4. n \in DOMAIN calls /\ CallShape(calls[n])
  <2>1. n \in DOMAIN calls  BY DEF Waiting
  <2> QED  BY <2>1, CallIs
<1>5. CASE ExpireOpenInvoices(n)
  <2>1. PICK c : CallGoesOn(n, c) /\ c.at = "expired" /\ c.does = calls[n].does  BY <1>5, Expires
  <2>2. CallShape(c)  BY <1>4, <2>1 DEF CallShape, CallGoesOn
  <2> QED  BY <1>2, <1>5, <2>1, <2>2, StatusesExpire
<1>6. CASE FindMany(n)
  <2>1. PICK c : CallGoesOn(n, c) /\ c.at = "found" /\ c.does = calls[n].does /\ c.answer \in SUBSET ListItems
    BY <1>6, Finds
  <2>2. CallShape(c)
    <3>1. openPage = "list"  BY <1>4, <1>6 DEF CallShape, FindMany, MerchantType
    <3> QED  BY <1>4, <2>1, <3>1 DEF CallShape, CallGoesOn
  <2> QED  BY <1>1, <1>2, <1>6, <2>1, <2>2, RowsLeft DEF FindMany
<1>7. CASE CountRows(n)
  <2>1. PICK c : /\ CallGoesOn(n, c) /\ c.at = "answered" /\ c.does = calls[n].does
                 /\ c.answer = calls[n].answer
    BY <1>7, Counts
  <2>2. CallShape(c)
    <3>1. calls[n].at = "found" /\ openPage = "list"
      BY <1>4, <1>7, FoundIsList DEF CountRows
    <3> QED  BY <1>4, <2>1, <3>1 DEF CallShape, CallGoesOn
  <2> QED  BY <1>1, <1>2, <1>7, <2>1, <2>2, RowsLeft DEF CountRows
<1>8. CASE GetOwned(n)
  <2>1. PICK c : /\ CallGoesOn(n, c) /\ c.does = "get"
                 /\ \/ c.at = "answered" /\ c.answer = Snapshot(1)
                    \/ c.at = "failed"
    BY <1>8, Gets
  <2>2. openPage = "detail" /\ calls[n].does = "get" /\ Snapshot(1) \in Snapshots
    BY <1>8, Gets, FirstRow, SnapshotIs
  <2>3. CallShape(c)  BY <1>4, <2>1, <2>2 DEF CallShape, CallGoesOn
  <2> QED  BY <1>1, <1>2, <1>8, <2>1, <2>3, RowsLeft DEF GetOwned
<1>9. CASE CancelRow(n)
  <2>1. PICK c : /\ CallGoesOn(n, c)
                 /\ \/ c.at = "sent" /\ c.does = "get"
                    \/ c.at = "failed" /\ c.does = "cancel"
    BY <1>9, Cancels
  <2>2. openPage = "detail" /\ calls[n].does = "cancel" /\ RowsGoOn  BY <1>9, Cancels
  <2>3. CallShape(c)  BY <1>4, <2>1, <2>2 DEF CallShape, CallGoesOn
  <2> QED  BY <1>2, <1>9, <2>1, <2>2, <2>3
<1>10. CASE CreateRow(n)
  <2>1. PICK c : /\ CallGoesOn(n, c) /\ c.does = "create" /\ c.at # "found" /\ (c.at = "answered" => c.answer \in Snapshots)
                 /\ UNCHANGED invoiceRows \/ \E r \in RowRecords : invoiceRows' = Append(invoiceRows, r)
    BY <1>10, Creates
  <2>2. RowsGoOn  BY <1>1, <2>1, RowsLeft, RowAdded
  <2>3. openPage = "new"  BY <1>10, Creates
  <2>4. CallShape(c)  BY <1>4, <2>1, <2>3 DEF CallShape, CallGoesOn
  <2> QED  BY <1>2, <1>10, <2>1, <2>2, <2>4
<1> QED  BY <1>3, <1>5, <1>6, <1>7, <1>8, <1>9, <1>10

\* The answers reach the page: the invoice of the detail page, the panel of the
\* form and the items of the list have the right type.
LEMMA AnswersTyped ==
  ASSUME MerchantType, NEW n \in Waiting, ShowList(n) \/ ShowInvoice(n) \/ ShowCreated(n)
  PROVE  MerchantType' /\ RowsGoOn
<1>1. /\ n \in DOMAIN calls /\ calls[n] \in PageCalls /\ CallShape(calls[n]) /\ DOMAIN calls = 1 .. Len(calls)
  <2>1. n \in DOMAIN calls  BY DEF Waiting
  <2> QED  BY <2>1, CallIs
<1>2. Shown(n)  BY DEF ShowList, ShowInvoice, ShowCreated
<1>3. PICK c : CallGoesOn(n, c) /\ c.at = "shown" /\ c.does = calls[n].does
  BY <1>2, Shows
<1>4. CallShape(c)  BY <1>1, <1>3 DEF CallShape, CallGoesOn
<1>5. RowsTyped /\ UNCHANGED <<openPage, merchant, invoiceRows, invoiceNow>> /\ applied' = n
      /\ calls[n].at \in {"answered", "failed"}
  BY <1>2 DEF MerchantType, Shown
<1>6. /\ calls' \in Seq(PageCalls) /\ applied' \in 0 .. Len(calls') /\ (\A m \in DOMAIN calls : CallShape(calls[m]))'
  <2>1. calls' \in Seq(PageCalls) /\ Len(calls') = Len(calls) /\ Len(calls) \in Nat
    BY <1>1, <1>3, CallsAfter, CallIs
  <2>2. n \in 0 .. Len(calls)  BY <1>1, <2>1
  <2> QED  BY <1>3, <1>4, <1>5, <2>1, <2>2, ShapesLast
<1>7. RowsGoOn  BY <1>5, RowsLeft
<1>8. /\ calls[n].asked = "list" => openPage = "list"
      /\ calls[n].asked \in {"get", "cancel"} => openPage = "detail"
      /\ calls[n].asked = "create" => openPage = "new"
  BY <1>1 DEF CallShape, MerchantType
<1>9. CASE ShowList(n)
  <2>1. calls[n].at = "answered" => calls[n].answer \in SUBSET ListItems /\ calls[n].total \in Nat
    BY <1>1, <1>8, <1>9 DEF CallShape, ShowList, PageCalls
  <2>2. WalkOn(calls[n], n) \in [rows : SUBSET Nat, seen : SUBSET Nat, on : BOOLEAN]
        \/ calls[n].at # "answered"
    <3>1. SUFFICES ASSUME calls[n].at = "answered"
                   PROVE  WalkOn(calls[n], n) \in [rows : SUBSET Nat, seen : SUBSET Nat, on : BOOLEAN]
      OBVIOUS
    <3>2. PICK ids \in SUBSET Nat : ids = {item.id : item \in calls[n].answer}
      BY <2>1, <3>1 DEF ListItems
    <3>3. calls[n].found \in SUBSET Nat  BY <1>1 DEF PageCalls
    <3>4. WalkOn(calls[n], n) \in {[rows |-> calls[n].found, seen |-> ids, on |-> TRUE],
                                  [walk EXCEPT !.seen = @ \cup ids], NoWalk}
      BY <3>2 DEF WalkOn
    <3>5. [walk EXCEPT !.seen = @ \cup ids] \in [rows : SUBSET Nat, seen : SUBSET Nat, on : BOOLEAN]
      BY <3>2 DEF MerchantType
    <3>6. /\ [rows |-> calls[n].found, seen |-> ids, on |-> TRUE] \in [rows : SUBSET Nat, seen : SUBSET Nat, on : BOOLEAN]
          /\ NoWalk \in [rows : SUBSET Nat, seen : SUBSET Nat, on : BOOLEAN]
      BY <3>2, <3>3 DEF NoWalk
    <3> QED  BY <3>4, <3>5, <3>6
  <2>3. CASE calls[n].at = "answered"
    <3>1. listPage' = [listPage EXCEPT !.items = calls[n].answer, !.total = calls[n].total, !.loading = FALSE]
          /\ walk' = WalkOn(calls[n], n) /\ UNCHANGED <<detailPage, newPage>>
      BY <1>9, <2>3 DEF ShowList
    <3>2. listPage' \in [filter : {"All", "OPEN"}, offset : Nat, items : SUBSET ListItems, total : Nat,
                         loading : BOOLEAN, error : BOOLEAN, due : BOOLEAN]
      BY <2>1, <2>3, <3>1 DEF MerchantType
    <3> QED  BY <1>5, <1>6, <1>7, <2>2, <2>3, <3>1, <3>2 DEF MerchantType, RowsGoOn
  <2>4. CASE calls[n].at # "answered"
    <3>1. listPage' = [listPage EXCEPT !.loading = FALSE, !.error = TRUE]
          /\ walk' = walk /\ UNCHANGED <<detailPage, newPage>>
      BY <1>9, <2>4 DEF ShowList
    <3>2. listPage' \in [filter : {"All", "OPEN"}, offset : Nat, items : SUBSET ListItems, total : Nat,
                         loading : BOOLEAN, error : BOOLEAN, due : BOOLEAN]
      BY <3>1 DEF MerchantType
    <3> QED  BY <1>5, <1>6, <1>7, <3>1, <3>2 DEF MerchantType, RowsGoOn
  <2> QED  BY <2>3, <2>4
<1>10. CASE ShowInvoice(n)
  <2>1. calls[n].at = "answered" => calls[n].answer \in Snapshots
    BY <1>1, <1>8, <1>10 DEF CallShape, ShowInvoice
  <2>2. detailPage' \in [invoice : Snapshots \cup {NoOne}, loading : BOOLEAN, cancelling : BOOLEAN,
                        error : BOOLEAN, due : BOOLEAN]
    BY <1>10, <2>1 DEF ShowInvoice, MerchantType
  <2> QED  BY <1>5, <1>6, <1>7, <1>10, <2>2 DEF MerchantType, RowsGoOn, ShowInvoice
<1>11. CASE ShowCreated(n)
  <2>1. calls[n].at = "answered" => calls[n].answer \in Snapshots
    BY <1>1, <1>8, <1>11 DEF CallShape, ShowCreated
  <2>2. newPage' \in [amount : AmountTexts, expiry : LocalTimes \cup {NoOne}, submitting : BOOLEAN,
                      created : Snapshots \cup {NoOne}, error : BOOLEAN, zone : Zones,
                      minimumExpiry : Int]
    BY <1>11, <2>1 DEF ShowCreated, MerchantType
  <2> QED  BY <1>5, <1>6, <1>7, <1>11, <2>2 DEF MerchantType, RowsGoOn, ShowCreated
<1> QED  BY <1>9, <1>10, <1>11

LEMMA Loses ==
  ASSUME MerchantType, LoseCall
  PROVE  \E n \in Waiting : \E c : CallGoesOn(n, c) /\ c.at = "failed" /\ c.does = calls[n].does /\ c.answer = NoOne
<1>1. PICK n \in Waiting : Refuse(n)  BY DEF LoseCall
<1>2. n \in DOMAIN calls  BY DEF Waiting
<1> QED  BY <1>1, <1>2, Fails

LEMMA LossTyped ==
  ASSUME MerchantType, LoseCall
  PROVE  MerchantType' /\ RowsGoOn
<1>1. /\ RowsTyped
      /\ UNCHANGED <<openPage, merchant, invoiceRows, invoiceNow, applied, listPage, walk, detailPage, newPage>>
  BY DEF MerchantType, LoseCall
<1>2. PICK n \in Waiting : \E c : CallGoesOn(n, c) /\ c.at = "failed" /\ c.does = calls[n].does
  BY Loses
<1>3. PICK c : CallGoesOn(n, c) /\ c.at = "failed" /\ c.does = calls[n].does  BY <1>2
<1>4. CallShape(calls[n])
  <2>1. n \in DOMAIN calls  BY DEF Waiting
  <2> QED  BY <2>1, CallIs
<1>5. CallShape(c)  BY <1>3, <1>4 DEF CallShape, CallGoesOn
<1>6. calls' \in Seq(PageCalls) /\ Len(calls') = Len(calls)  BY <1>3, CallsAfter
<1>7. (\A m \in DOMAIN calls : CallShape(calls[m]))'  BY <1>1, <1>3, <1>5, ShapesLast
<1>8. RowsGoOn  BY <1>1, RowsLeft
<1> QED  BY <1>1, <1>6, <1>7, <1>8 DEF MerchantType, RowsGoOn

LEMMA SessionTyped ==
  ASSUME MerchantType, SessionChanges
  PROVE  MerchantType' /\ RowsGoOn
<1>1. /\ RowsTyped /\ UNCHANGED <<openPage, invoiceRows, invoiceNow, calls, applied, newPage>>
      /\ merchant' \in Merchants \cup {NoOne} /\ walk' = NoWalk
      /\ listPage' = [listPage EXCEPT !.due = TRUE] /\ detailPage' = [detailPage EXCEPT !.due = TRUE]
  BY DEF MerchantType, SessionChanges
<1>2. RowsGoOn  BY <1>1, RowsLeft
<1>3. /\ listPage' \in [filter : {"All", "OPEN"}, offset : Nat, items : SUBSET ListItems, total : Nat,
                         loading : BOOLEAN, error : BOOLEAN, due : BOOLEAN]
      /\ detailPage' \in [invoice : Snapshots \cup {NoOne}, loading : BOOLEAN, cancelling : BOOLEAN,
                        error : BOOLEAN, due : BOOLEAN]
      /\ walk' \in [rows : SUBSET Nat, seen : SUBSET Nat, on : BOOLEAN]
  BY <1>1 DEF MerchantType, NoWalk
<1> QED  BY <1>1, <1>2, <1>3, SameShapes DEF MerchantType, RowsGoOn

\* What the world does to the rows: a status moves, or a row is added that no call made.
LEMMA WorldRows ==
  ASSUME MerchantType, World
  PROVE  /\ RowsGoOn
         /\ \A i \in DOMAIN invoiceRows' : i \in DOMAIN invoiceRows \/ invoiceRows'[i].call = 0
<1>1. RowsTyped /\ invoiceNow \in Int  BY DEF MerchantType
<1>2. CASE UNCHANGED invoiceRows  BY <1>1, <1>2, RowsLeft
<1>3. CASE \E i \in DOMAIN invoiceRows : PaymentMoves(i)
  <2>1. PICK i \in DOMAIN invoiceRows, s \in RowStatuses :
          /\ invoiceRows[i].status \notin FinalStatuses
          /\ invoiceRows' = [invoiceRows EXCEPT ![i].status = s]
    BY <1>3 DEF PaymentMoves, RowStatuses, FinalStatuses
  <2> QED  BY <1>1, <2>1, StatusIsSet
<1>4. CASE \E m \in Merchants : invoiceRows' = Append(invoiceRows, [owner |-> m, status |-> "OPEN", units |-> 1,
                                                                 expiresAt |-> invoiceNow + 1, call |-> 0])
  <2>1. PICK m \in Merchants : \E r : /\ r = [owner |-> m, status |-> "OPEN", units |-> 1,
                                        expiresAt |-> invoiceNow + 1, call |-> 0]
                                 /\ invoiceRows' = Append(invoiceRows, r)
    BY <1>4
  <2>2. PICK r : /\ r = [owner |-> m, status |-> "OPEN", units |-> 1, expiresAt |-> invoiceNow + 1, call |-> 0]
                 /\ invoiceRows' = Append(invoiceRows, r)
    BY <2>1
  <2>3. r \in RowRecords /\ r.call = 0  BY <1>1, <2>2 DEF RowRecords, RowStatuses, UnitValues
  <2> QED  BY <1>1, <2>3, <2>2, RowAdded
<1> QED  BY <1>2, <1>3, <1>4 DEF World

LEMMA WorldTyped ==
  ASSUME MerchantType, World
  PROVE  MerchantType' /\ RowsGoOn
<1>1. UNCHANGED <<openPage, merchant, calls, applied, listPage, walk, detailPage, newPage>>
  BY DEF World
<1>3. invoiceNow' \in Int
  <2>1. invoiceNow \in Int  BY DEF MerchantType
  <2>2. invoiceNow' = invoiceNow + 1 \/ invoiceNow' = invoiceNow  BY DEF World, PaymentMoves
  <2> QED  BY <2>1, <2>2
<1>2. RowsGoOn  BY WorldRows
<1> QED  BY <1>1, <1>2, <1>3, SameShapes DEF MerchantType, RowsGoOn

LEMMA MerchantTypeKeeps ==
  ASSUME MerchantType, [MerchantNext]_merchantVars
  PROVE  MerchantType' /\ RowsGoOn
<1>1. CASE UNCHANGED merchantVars
  <2>1. RowsTyped  BY DEF MerchantType
  <2> QED  BY <1>1, <2>1, SameShapes, RowsLeft DEF merchantVars, MerchantType, RowsGoOn
<1>2. CASE MerchantNext
  BY <1>2, ListActionsTyped, DetailActionsTyped, FormActionsTyped, BackendTyped, AnswersTyped, LossTyped,
     SessionTyped, WorldTyped DEF MerchantNext
<1> QED  BY <1>1, <1>2

LEMMA MerchantStarts == MerchantInit => MerchantType
<1> SUFFICES ASSUME MerchantInit PROVE MerchantType  OBVIOUS
<1>1. PICK R : R = invoiceRows  OBVIOUS
<1>2. invoiceRows \in Seq(RowRecords) /\ invoiceRows # <<>>
  <2>1. Old \in Seq([owner : Merchants, status : RowStatuses]) /\ Old # <<>>
    BY MerchantAssumption DEF RowStatuses
  <2>2. DOMAIN Old = 1 .. Len(Old) /\ Len(Old) \in Nat /\ Len(Old) # 0  BY <2>1
  <2>3. \A i \in 1 .. Len(Old) : Old[i].owner \in Merchants /\ Old[i].status \in RowStatuses
    <3>1. PICK S : S = [owner : Merchants, status : RowStatuses]  OBVIOUS
    <3>2. Old \in Seq(S)  BY <2>1, <3>1
    <3>3. \A i \in 1 .. Len(Old) : Old[i] \in S  BY <3>2
    <3> QED  BY <3>1, <3>3
  <2>4. invoiceRows \in [1 .. Len(Old) -> RowRecords]
    BY <2>2, <2>3 DEF MerchantInit, RowRecords, UnitValues
  <2>5. invoiceRows \in Seq(RowRecords) /\ Len(invoiceRows) = Len(Old)  BY <2>2, <2>4
  <2> QED  BY <2>2, <2>5
<1>3. calls \in Seq(PageCalls) /\ DOMAIN calls = {} /\ applied \in 0 .. Len(calls)  BY DEF MerchantInit
<1>4. /\ openPage \in {"list", "detail", "new"} /\ merchant \in Merchants \cup {NoOne} /\ invoiceNow \in Int
      /\ listPage \in [filter : {"All", "OPEN"}, offset : Nat, items : SUBSET ListItems, total : Nat,
                         loading : BOOLEAN, error : BOOLEAN, due : BOOLEAN]
      /\ walk \in [rows : SUBSET Nat, seen : SUBSET Nat, on : BOOLEAN]
      /\ detailPage \in [invoice : Snapshots \cup {NoOne}, loading : BOOLEAN, cancelling : BOOLEAN,
                        error : BOOLEAN, due : BOOLEAN]
  BY DEF MerchantInit, NoWalk
<1>5. newPage \in [amount : AmountTexts, expiry : LocalTimes \cup {NoOne}, submitting : BOOLEAN,
                   created : Snapshots \cup {NoOne}, error : BOOLEAN, zone : Zones,
                   minimumExpiry : Int]
  BY DEF MerchantInit
<1> QED  BY <1>2, <1>3, <1>4, <1>5 DEF MerchantType, RowsTyped

LEMMA OpenStays ==
  ASSUME [MerchantNext]_merchantVars PROVE UNCHANGED openPage
BY DEF MerchantNext, merchantVars, LoadList, SelectFilter, PreviousPage, NextPage, OtherThanListState,
       LoadDetail, ClickCancel, OtherThanDetail, EditForm, Submit, CreateAnother, Backend, ExpireOpenInvoices,
       FindMany, CountRows, GetOwned, CancelRow, CreateRow, OnlyCallsMove, LoseCall, ShowList, ShowInvoice,
       ShowCreated, Shown, SessionChanges, World

-----------------------------------------------------------------------------
(* The detail page: a final status is final, in the table and in answers.   *)
HoldsOfRow(s) == s.status \in FinalStatuses => invoiceRows[1].status = s.status

DetailCallOK(c) ==
  /\ c.asked = "cancel" => IF c.does = "get" THEN invoiceRows[1].status = "CANCELLED" ELSE c.answer = NoOne
  /\ c.at = "answered" => HoldsOfRow(c.answer)

DetailInv ==
  IF openPage = "detail"
  THEN /\ \A n \in DOMAIN calls : DetailCallOK(calls[n])
       /\ detailPage.invoice # NoOne => HoldsOfRow(detailPage.invoice)
  ELSE detailPage.invoice = NoOne

LEMMA DetailCallsLast ==
  ASSUME MerchantType, RowsGoOn, NEW c, DetailCallOK(c)
  PROVE  /\ c.asked = "cancel" => IF c.does = "get" THEN invoiceRows'[1].status = "CANCELLED" ELSE c.answer = NoOne
         /\ c.at = "answered" => (c.answer.status \in FinalStatuses => invoiceRows'[1].status = c.answer.status)
<1>1. invoiceRows[1].status \in FinalStatuses => invoiceRows'[1].status = invoiceRows[1].status
  BY FirstRow DEF RowsGoOn
<1> QED  BY <1>1 DEF DetailCallOK, HoldsOfRow, FinalStatuses

\* A call goes on to c, which is fine; nothing else happens to the page.
LEMMA DetailGoesOn ==
  ASSUME MerchantType, DetailInv, RowsGoOn, UNCHANGED <<openPage, detailPage>>, openPage = "detail",
         NEW n, NEW c, CallGoesOn(n, c),
         c.asked = "cancel" => IF c.does = "get" THEN invoiceRows'[1].status = "CANCELLED" ELSE c.answer = NoOne,
         c.at = "answered" => (c.answer.status \in FinalStatuses => invoiceRows'[1].status = c.answer.status)
  PROVE  DetailInv'
<1>1. DOMAIN calls' = DOMAIN calls /\ calls'[n] = c /\ \A m \in DOMAIN calls : m # n => calls'[m] = calls[m]
  BY CallsAfter
<1>2. \A m \in DOMAIN calls : DetailCallOK(calls[m])  BY DEF DetailInv
<1>3. ASSUME NEW m \in DOMAIN calls'
      PROVE  DetailCallOK(calls[m])'
  <2>1. PICK d : d = calls'[m]  OBVIOUS
  <2>2. /\ d.asked = "cancel" => IF d.does = "get" THEN invoiceRows'[1].status = "CANCELLED" ELSE d.answer = NoOne
        /\ d.at = "answered" => (d.answer.status \in FinalStatuses => invoiceRows'[1].status = d.answer.status)
    <3>1. CASE m = n  BY <1>1, <2>1, <3>1
    <3>2. CASE m # n
      <4>1. DetailCallOK(d)  BY <1>1, <1>2, <1>3, <2>1, <3>2
      <4> QED  BY <4>1, DetailCallsLast
    <3> QED  BY <3>1, <3>2
  <2> QED  BY <2>1, <2>2 DEF DetailCallOK, HoldsOfRow
<1>4. invoiceRows[1].status \in FinalStatuses => invoiceRows'[1].status = invoiceRows[1].status
  BY FirstRow DEF RowsGoOn
<1>5. (detailPage.invoice # NoOne => HoldsOfRow(detailPage.invoice))'
  BY <1>4 DEF DetailInv, HoldsOfRow
<1> QED  BY <1>3, <1>5 DEF DetailInv

LEMMA DetailKeeps ==
  ASSUME MerchantType, DetailInv, [MerchantNext]_merchantVars
  PROVE  DetailInv'
<1>1. RowsGoOn /\ MerchantType'  BY MerchantTypeKeeps
<1>2. invoiceRows[1].status \in FinalStatuses => invoiceRows'[1].status = invoiceRows[1].status
  BY <1>1, FirstRow DEF RowsGoOn
<1>3. openPage' = openPage  BY OpenStays
<1>4. CASE openPage # "detail"
  <2>1. detailPage'.invoice = detailPage.invoice
    <3>1. ASSUME NEW n \in Waiting, ShowInvoice(n) PROVE FALSE
      <4>1. n \in DOMAIN calls  BY DEF Waiting
      <4>2. CallShape(calls[n])  BY <4>1, CallIs
      <4> QED  BY <1>4, <3>1, <4>2 DEF CallShape, ShowInvoice, MerchantType
    <3>2. detailPage' \in {detailPage, [detailPage EXCEPT !.due = TRUE]}
      BY <1>4, <3>1
         DEF MerchantNext, merchantVars, LoadList, SelectFilter, PreviousPage, NextPage, OtherThanListState,
         LoadDetail, ClickCancel, EditForm, Submit, CreateAnother, Backend, ExpireOpenInvoices,
         FindMany, CountRows, GetOwned, CancelRow, CreateRow, OnlyCallsMove, LoseCall, ShowList,
         ShowCreated, SessionChanges, World
    <3> QED  BY <3>2 DEF MerchantType
  <2> QED  BY <1>3, <1>4, <2>1 DEF DetailInv
<1>5. ASSUME openPage = "detail", UNCHANGED calls, detailPage'.invoice = detailPage.invoice
      PROVE  DetailInv'
  <2>1. ASSUME NEW m \in DOMAIN calls PROVE DetailCallOK(calls[m])'
    <3>1. PICK d : d = calls[m]  OBVIOUS
    <3>2. DetailCallOK(d)  BY <1>5, <2>1, <3>1 DEF DetailInv
    <3> QED  BY <1>1, <1>5, <3>1, <3>2, DetailCallsLast DEF DetailCallOK, HoldsOfRow
  <2> QED  BY <1>2, <1>3, <1>5, <2>1 DEF DetailInv, HoldsOfRow
<1>6. ASSUME openPage = "detail", UNCHANGED <<invoiceRows>>, detailPage'.invoice = detailPage.invoice,
             NEW asked \in {"get", "cancel"}, merchant # NoOne, PageAsks(asked, 1)
      PROVE  DetailInv'
  <2>1. PICK c \in PageCalls : AskedCall(c, asked, 1)
    <3>1. asked \in {"list", "get", "cancel", "create"} /\ 1 \in ListQueries \cup {1} \cup Forms
      OBVIOUS
    <3> QED  BY <3>1, <1>6, Asks
  <2>2. \A m \in DOMAIN calls : DetailCallOK(calls[m])  BY <1>6 DEF DetailInv
  <2>3. DetailCallOK(c)  BY <1>6, <2>1 DEF AskedCall, DetailCallOK
  <2>4. \A m \in DOMAIN calls' : DetailCallOK(calls'[m])  BY <2>1, <2>2, <2>3 DEF AskedCall
  <2> QED  BY <1>3, <1>6, <2>4 DEF DetailInv, DetailCallOK, HoldsOfRow
<1>7. CASE openPage = "detail"
  <2>1. CASE LoadDetail \/ ClickCancel
    <3>1. detailPage'.invoice = detailPage.invoice /\ UNCHANGED invoiceRows
      BY <2>1 DEF LoadDetail, ClickCancel, OtherThanDetail, MerchantType
    <3>2. \/ UNCHANGED calls
          \/ merchant # NoOne /\ \E asked \in {"get", "cancel"} : PageAsks(asked, 1)
      BY <2>1 DEF LoadDetail, ClickCancel
    <3> QED  BY <1>5, <1>6, <1>7, <3>1, <3>2
  <2>2. CASE SessionChanges \/ World \/ UNCHANGED merchantVars
    <3>1. UNCHANGED calls /\ detailPage'.invoice = detailPage.invoice
      BY <2>2 DEF SessionChanges, World, merchantVars, MerchantType
    <3> QED  BY <1>5, <1>7, <3>1
  <2>3. CASE LoseCall
    <3>1. PICK n \in Waiting : \E c : /\ CallGoesOn(n, c) /\ c.at = "failed" /\ c.does = calls[n].does
                                    /\ c.answer = NoOne
      BY <2>3, Loses
    <3>2. PICK c : CallGoesOn(n, c) /\ c.at = "failed" /\ c.does = calls[n].does /\ c.answer = NoOne
      BY <3>1
    <3>3. n \in DOMAIN calls  BY DEF Waiting
    <3>4. DetailCallOK(calls[n]) /\ c.asked = calls[n].asked  BY <1>7, <3>2, <3>3 DEF DetailInv, CallGoesOn
    <3>5. c.asked = "cancel" => IF c.does = "get" THEN invoiceRows'[1].status = "CANCELLED" ELSE c.answer = NoOne
      BY <1>2, <3>2, <3>4 DEF DetailCallOK, FinalStatuses
    <3>6. UNCHANGED <<openPage, detailPage>>  BY <2>3 DEF LoseCall
    <3> QED  BY <1>1, <1>7, <3>2, <3>5, <3>6, DetailGoesOn
  <2>4. CASE Backend
    <3>1. UNCHANGED <<openPage, detailPage>>
      BY <2>4 DEF Backend, ExpireOpenInvoices, FindMany, CountRows, GetOwned, CancelRow, CreateRow, OnlyCallsMove
    <3>2. PICK n \in Waiting : \/ ExpireOpenInvoices(n) \/ FindMany(n) \/ CountRows(n)
                               \/ GetOwned(n) \/ CancelRow(n) \/ CreateRow(n)
      BY <2>4 DEF Backend
    <3>3. n \in DOMAIN calls  BY DEF Waiting
    <3>4. DetailCallOK(calls[n]) /\ CallShape(calls[n])  BY <1>7, <3>3, CallIs DEF DetailInv
    <3>5. ~FindMany(n) /\ ~CountRows(n) /\ ~CreateRow(n)
      BY <1>7, <3>4 DEF CallShape, FindMany, CountRows, CreateRow
    <3>6. CASE ExpireOpenInvoices(n)
      <4>1. PICK c : CallGoesOn(n, c) /\ c.at = "expired" /\ c.does = calls[n].does /\ c.answer = calls[n].answer
        BY <3>6, Expires
      <4>2. c.asked = "cancel" => IF c.does = "get" THEN invoiceRows'[1].status = "CANCELLED" ELSE c.answer = NoOne
        BY <1>2, <3>4, <4>1 DEF DetailCallOK, FinalStatuses, CallGoesOn
      <4> QED  BY <1>1, <1>7, <3>1, <4>1, <4>2, DetailGoesOn
    <3>7. CASE GetOwned(n)
      <4>1. PICK c : /\ CallGoesOn(n, c) /\ c.does = "get"
                     /\ \/ c.at = "answered" /\ c.answer = Snapshot(1)
                        \/ c.at = "failed"
        BY <3>7, Gets
      <4>2. calls[n].does = "get" /\ UNCHANGED invoiceRows  BY <3>7 DEF GetOwned
      <4>3. c.asked = "cancel" => invoiceRows'[1].status = "CANCELLED"
        BY <3>4, <4>1, <4>2 DEF DetailCallOK, CallGoesOn
      <4>4. c.at = "answered" => invoiceRows'[1].status = c.answer.status
        BY <4>1, <4>2 DEF Snapshot
      <4> QED  BY <1>1, <1>7, <3>1, <4>1, <4>3, <4>4, DetailGoesOn
    <3>8. CASE CancelRow(n)
      <4>1. PICK c : /\ CallGoesOn(n, c) /\ c.answer \in {calls[n].answer, NoOne}
                     /\ \/ c.at = "sent" /\ c.does = "get" /\ invoiceRows'[1].status = "CANCELLED"
                        \/ c.at = "failed" /\ c.does = "cancel"
        BY <3>8, Cancels
      <4>2. calls[n].does = "cancel"  BY <3>8, Cancels
      <4>3. c.asked = "cancel" => IF c.does = "get" THEN invoiceRows'[1].status = "CANCELLED" ELSE c.answer = NoOne
        BY <3>4, <4>1, <4>2 DEF DetailCallOK, CallGoesOn
      <4> QED  BY <1>1, <1>7, <3>1, <4>1, <4>3, DetailGoesOn
    <3> QED  BY <3>2, <3>5, <3>6, <3>7, <3>8
  <2>5. CASE \E n \in Waiting : ShowList(n) \/ ShowInvoice(n) \/ ShowCreated(n)
    <3>1. PICK n \in Waiting : ShowList(n) \/ ShowInvoice(n) \/ ShowCreated(n)  BY <2>5
    <3>2. n \in DOMAIN calls  BY DEF Waiting
    <3>3. DetailCallOK(calls[n]) /\ CallShape(calls[n])  BY <1>7, <3>2, CallIs DEF DetailInv
    <3>4. ShowInvoice(n)  BY <1>7, <3>1, <3>3 DEF CallShape, ShowList, ShowCreated
    <3>5. PICK c : CallGoesOn(n, c) /\ c.at = "shown" /\ c.does = calls[n].does /\ c.answer = calls[n].answer
      BY <3>4, Shows DEF ShowInvoice
    <3>6. DOMAIN calls' = DOMAIN calls /\ calls'[n] = c /\ \A m \in DOMAIN calls : m # n => calls'[m] = calls[m]
      BY <3>5, CallsAfter
    <3>7. DetailCallOK(c)  BY <3>3, <3>5 DEF DetailCallOK, CallGoesOn
    <3>8. \A m \in DOMAIN calls' : DetailCallOK(calls'[m])  BY <1>7, <3>6, <3>7 DEF DetailInv
    <3>9. UNCHANGED invoiceRows  BY <3>4 DEF ShowInvoice, Shown
    <3>10. \/ detailPage'.invoice = detailPage.invoice
           \/ calls[n].at = "answered" /\ detailPage'.invoice = calls[n].answer
      <4>1. PICK over : /\ over = IF calls[n].asked = "get" THEN [detailPage EXCEPT !.loading = FALSE]
                                  ELSE [detailPage EXCEPT !.cancelling = FALSE]
                        /\ detailPage' = IF calls[n].at = "answered" THEN [over EXCEPT !.invoice = calls[n].answer]
                                         ELSE [over EXCEPT !.error = TRUE]
        BY <3>4 DEF ShowInvoice
      <4>2. over \in [invoice : Snapshots \cup {NoOne}, loading : BOOLEAN, cancelling : BOOLEAN,
                      error : BOOLEAN, due : BOOLEAN]
            /\ over.invoice = detailPage.invoice
        BY <4>1 DEF MerchantType
      <4> QED  BY <4>1, <4>2
    <3>11. (detailPage.invoice # NoOne => HoldsOfRow(detailPage.invoice))'
      BY <1>7, <3>3, <3>9, <3>10 DEF DetailInv, DetailCallOK, HoldsOfRow
    <3> QED  BY <1>3, <1>7, <3>8, <3>9, <3>11 DEF DetailInv, DetailCallOK, HoldsOfRow
  <2>6. ~(LoadList \/ SelectFilter \/ PreviousPage \/ NextPage \/ EditForm \/ Submit \/ CreateAnother)
    BY <1>7 DEF LoadList, SelectFilter, PreviousPage, NextPage, EditForm, Submit, CreateAnother
  <2> QED  BY <2>1, <2>2, <2>3, <2>4, <2>5, <2>6 DEF MerchantNext
<1> QED  BY <1>4, <1>7

LEMMA FinalIsTrue ==
  ASSUME MerchantType, DetailInv
  PROVE  FinalStatusIsTrue
<1>1. detailPage.invoice # NoOne /\ detailPage.invoice.status \in FinalStatuses
        => invoiceRows[1].status = detailPage.invoice.status
  BY DEF DetailInv, HoldsOfRow
<1>2. ASSUME NEW n \in DOMAIN calls, calls[n].asked = "cancel", calls[n].answer # NoOne
      PROVE  invoiceRows[1].status = "CANCELLED"
  <2>1. CallShape(calls[n])  BY CallIs
  <2>2. openPage = "detail"  BY <1>2, <2>1 DEF CallShape, MerchantType
  <2> QED  BY <1>2, <2>2 DEF DetailInv, DetailCallOK
<1> QED  BY <1>1, <1>2 DEF FinalStatusIsTrue

-----------------------------------------------------------------------------
(* The form: a stored row is that of its call, whose query is the form that *)
(* was submitted.                                                           *)
StoredAs(s) ==
  /\ s.id \in DOMAIN invoiceRows
  /\ invoiceRows[s.id].units = s.units /\ invoiceRows[s.id].expiresAt = s.expiresAt

FormIsTyped(form) ==
  /\ form.previewed = HasPreview(form.amount)
  /\ form.typed # NoOne => form.expiresAt \in Int /\ form.expiresAt + newPage.zone = form.typed

RowOf(r, form) ==
  /\ Canonical(form.amount) /\ ParseUnits(form.amount) > 0 /\ r.units = ParseUnits(form.amount)
  /\ form.typed # NoOne => r.expiresAt = form.expiresAt

NewRow(i) ==
  invoiceRows[i].call # 0 => /\ invoiceRows[i].call \in DOMAIN calls
                             /\ RowOf(invoiceRows[i], calls[invoiceRows[i].call].query)

FormInv ==
  IF openPage = "new"
  THEN /\ \A n \in DOMAIN calls : /\ FormIsTyped(calls[n].query)
                                  /\ calls[n].at = "answered" => StoredAs(calls[n].answer)
       /\ \A i \in DOMAIN invoiceRows : NewRow(i)
       /\ newPage.created # NoOne => StoredAs(newPage.created)
  ELSE newPage.created = NoOne /\ \A i \in DOMAIN invoiceRows : invoiceRows[i].call = 0

StoredThen(s) ==
  /\ s.id \in DOMAIN invoiceRows'
  /\ invoiceRows'[s.id].units = s.units /\ invoiceRows'[s.id].expiresAt = s.expiresAt

LEMMA StoredLasts ==
  ASSUME RowsGoOn, NEW s, StoredAs(s) PROVE StoredThen(s)
BY DEF RowsGoOn, StoredAs, StoredThen

\* The calls keep what they asked for, the rows what they are; what is new is
\* typed, answered with a stored row, or a row of its call.
LEMMA FormGoesOn ==
  ASSUME MerchantType, FormInv, openPage = "new", openPage' = openPage, RowsGoOn,
         newPage'.zone = newPage.zone, DOMAIN calls \subseteq DOMAIN calls',
         \A m \in DOMAIN calls : calls'[m].query = calls[m].query,
         \A m \in DOMAIN calls' : \/ m \in DOMAIN calls /\ calls'[m] = calls[m]
                                 \/ /\ FormIsTyped(calls'[m].query)
                                    /\ calls'[m].at = "answered" => StoredThen(calls'[m].answer),
         \A i \in DOMAIN invoiceRows' :
            \/ i \in DOMAIN invoiceRows \/ invoiceRows'[i].call = 0
            \/ /\ invoiceRows'[i].call \in DOMAIN calls
               /\ RowOf(invoiceRows'[i], calls[invoiceRows'[i].call].query),
         newPage'.created # NoOne => newPage'.created = newPage.created \/ StoredThen(newPage'.created)
  PROVE  FormInv'
<1>1. ASSUME NEW m \in DOMAIN calls'
      PROVE  /\ FormIsTyped(calls'[m].query)
             /\ calls'[m].at = "answered" => StoredThen(calls'[m].answer)
  BY <1>1, StoredLasts DEF FormInv
<1>2. ASSUME NEW i \in DOMAIN invoiceRows'
      PROVE  invoiceRows'[i].call # 0 => /\ invoiceRows'[i].call \in DOMAIN calls'
                                         /\ RowOf(invoiceRows'[i], calls'[invoiceRows'[i].call].query)
  <2>1. CASE i \in DOMAIN invoiceRows
    <3>1. NewRow(i)  BY <2>1 DEF FormInv
    <3>2. /\ invoiceRows'[i].call = invoiceRows[i].call /\ invoiceRows'[i].units = invoiceRows[i].units
          /\ invoiceRows'[i].expiresAt = invoiceRows[i].expiresAt
      BY <2>1 DEF RowsGoOn
    <3> QED  BY <3>1, <3>2 DEF NewRow, RowOf
  <2>2. CASE i \notin DOMAIN invoiceRows
    <3>1. PICK k : k = invoiceRows'[i].call  OBVIOUS
    <3>2. k # 0 => k \in DOMAIN calls /\ RowOf(invoiceRows'[i], calls[k].query)  BY <1>2, <2>2, <3>1
    <3>3. k # 0 => k \in DOMAIN calls' /\ calls'[k].query = calls[k].query  BY <3>2
    <3> QED  BY <3>1, <3>2, <3>3
  <2> QED  BY <2>1, <2>2
<1>3. newPage'.created # NoOne => StoredThen(newPage'.created)  BY StoredLasts DEF FormInv
<1>4. (\A n \in DOMAIN calls : /\ FormIsTyped(calls[n].query)
                               /\ calls[n].at = "answered" => StoredAs(calls[n].answer))'
  BY <1>1 DEF FormIsTyped, StoredAs, StoredThen
<1>5. (\A i \in DOMAIN invoiceRows : NewRow(i))'  BY <1>2 DEF NewRow, RowOf
<1>6. (newPage.created # NoOne => StoredAs(newPage.created))'  BY <1>3 DEF StoredAs, StoredThen
<1> QED  BY <1>4, <1>5, <1>6 DEF FormInv

\* Nothing but answers and rows that no call made.
LEMMA FormRests ==
  ASSUME MerchantType, FormInv, openPage = "new", openPage' = openPage, RowsGoOn, UNCHANGED calls,
         newPage'.zone = newPage.zone, newPage'.created \in {newPage.created, NoOne},
         \A i \in DOMAIN invoiceRows' : i \in DOMAIN invoiceRows \/ invoiceRows'[i].call = 0
  PROVE  FormInv'
<1>1. PICK C : C = calls  OBVIOUS
<1>2. /\ DOMAIN calls \subseteq DOMAIN calls' /\ \A m \in DOMAIN calls : calls'[m].query = calls[m].query
      /\ \A m \in DOMAIN calls' : m \in DOMAIN calls /\ calls'[m] = calls[m]
  BY <1>1
<1> QED  BY <1>2, FormGoesOn

\* One call goes on, with an answer that is stored; any new row is its row.
LEMMA FormCallGoesOn ==
  ASSUME MerchantType, FormInv, openPage = "new", openPage' = openPage, RowsGoOn,
         newPage'.zone = newPage.zone, NEW n, NEW c, CallGoesOn(n, c),
         c.at = "answered" => StoredThen(c.answer),
         \A i \in DOMAIN invoiceRows' :
            \/ i \in DOMAIN invoiceRows
            \/ invoiceRows'[i].call = n /\ RowOf(invoiceRows'[i], c.query),
         newPage'.created # NoOne => newPage'.created = newPage.created \/ StoredThen(newPage'.created)
  PROVE  FormInv'
<1>1. n \in DOMAIN calls /\ c.query = calls[n].query  BY DEF CallGoesOn
<1>2. DOMAIN calls' = DOMAIN calls /\ calls'[n] = c /\ \A m \in DOMAIN calls : m # n => calls'[m] = calls[m]
  BY CallsAfter
<1>3. \A m \in DOMAIN calls : calls'[m].query = calls[m].query  BY <1>1, <1>2
<1>4. FormIsTyped(c.query)  BY <1>1 DEF FormInv
<1>5. \A m \in DOMAIN calls' : \/ m \in DOMAIN calls /\ calls'[m] = calls[m]
                              \/ /\ FormIsTyped(calls'[m].query)
                                 /\ calls'[m].at = "answered" => StoredThen(calls'[m].answer)
  BY <1>2, <1>4
<1>6. \A i \in DOMAIN invoiceRows' :
            \/ i \in DOMAIN invoiceRows \/ invoiceRows'[i].call = 0
            \/ /\ invoiceRows'[i].call \in DOMAIN calls
               /\ RowOf(invoiceRows'[i], calls[invoiceRows'[i].call].query)
  BY <1>1
<1> QED  BY <1>2, <1>3, <1>5, <1>6, FormGoesOn

\* On the other two pages no row is made and no panel shown.
LEMMA NoFormElsewhere ==
  ASSUME MerchantType, FormInv, openPage # "new", [MerchantNext]_merchantVars
  PROVE  FormInv'
<1>1. RowsGoOn /\ UNCHANGED openPage  BY MerchantTypeKeeps, OpenStays
<1>2. \A n \in Waiting : n \in DOMAIN calls /\ CallShape(calls[n])  BY CallIs DEF Waiting
<1>3. \A n \in Waiting : ~CreateRow(n) /\ ~ShowCreated(n)
  BY <1>2 DEF CallShape, CreateRow, ShowCreated, MerchantType
<1>4. UNCHANGED newPage
  BY <1>3 DEF MerchantNext, merchantVars, LoadList, SelectFilter, PreviousPage, NextPage, OtherThanListState,
       LoadDetail, ClickCancel, OtherThanDetail, EditForm, Submit, CreateAnother, Backend, ExpireOpenInvoices,
       FindMany, CountRows, GetOwned, CancelRow, CreateRow, OnlyCallsMove, LoseCall, ShowList, ShowInvoice,
       ShowCreated, Shown, SessionChanges, World
<1>5. \A i \in DOMAIN invoiceRows' : i \in DOMAIN invoiceRows \/ invoiceRows'[i].call = 0
  <2>1. CASE World  BY <2>1, WorldRows
  <2>2. CASE Backend
    <3>1. PICK n \in Waiting : \/ ExpireOpenInvoices(n) \/ FindMany(n) \/ CountRows(n)
                               \/ GetOwned(n) \/ CancelRow(n)
      BY <1>3, <2>2 DEF Backend
    <3>2. CASE ExpireOpenInvoices(n)  BY <3>2, StatusesExpire
    <3>3. CASE CancelRow(n)  BY <3>3, Cancels
    <3>4. CASE FindMany(n) \/ CountRows(n) \/ GetOwned(n)  BY <3>4 DEF FindMany, CountRows, GetOwned
    <3> QED  BY <3>1, <3>2, <3>3, <3>4
  <2>3. CASE UNCHANGED invoiceRows  BY <2>3
  <2> QED  BY <2>1, <2>2, <2>3 DEF MerchantNext, merchantVars, LoadList, SelectFilter, PreviousPage, NextPage,
        OtherThanListState, LoadDetail, ClickCancel, OtherThanDetail, EditForm, Submit, CreateAnother, LoseCall,
        ShowList, ShowInvoice, ShowCreated, Shown, SessionChanges
<1> QED  BY <1>1, <1>4, <1>5 DEF FormInv, RowsGoOn

LEMMA FormIsAsTyped ==
  ASSUME MerchantType PROVE FormIsTyped(Form)
<1>1. newPage.expiry \in LocalTimes \cup {NoOne} /\ newPage.zone \in Zones  BY DEF MerchantType
<1>2. PICK e, z : e = newPage.expiry /\ z = newPage.zone /\ z \in Int /\ (e # NoOne => e \in Int)
  BY <1>1, MerchantAssumption
<1>3. Form.previewed = HasPreview(Form.amount)  BY DEF Form
<1>4. Form.typed = e /\ (e # NoOne => Form.expiresAt = e - z)  BY <1>2 DEF Form, ToUtc
<1>5. e # NoOne => e - z \in Int /\ e - z + z = e  BY <1>2
<1> QED  BY <1>2, <1>3, <1>4, <1>5 DEF FormIsTyped

LEMMA CreateKeepsForm ==
  ASSUME MerchantType, FormInv, openPage = "new", openPage' = openPage, RowsGoOn,
         NEW n \in Waiting, CreateRow(n)
  PROVE  FormInv'
<1>1. UNCHANGED newPage  BY DEF CreateRow, OnlyCallsMove
<1>2. PICK c : /\ CallGoesOn(n, c) /\ c.at \in {"answered", "failed"}
               /\ \/ c.at = "failed" /\ UNCHANGED invoiceRows
                  \/ /\ Acceptable(c.query) /\ c.at = "answered"
                     /\ c.answer = [id |-> Len(invoiceRows) + 1, status |-> "OPEN",
                                    units |-> ParseUnits(c.query.amount),
                                    expiresAt |-> ExpiryOf(c.query)]
                     /\ \E r \in RowRecords :
                           /\ invoiceRows' = Append(invoiceRows, r) /\ r.call = n
                           /\ r.units = ParseUnits(c.query.amount)
                           /\ r.expiresAt = ExpiryOf(c.query)
  BY Creates
<1>3. CASE UNCHANGED invoiceRows /\ c.at = "failed"
  BY <1>1, <1>2, <1>3, FormCallGoesOn
<1>4. CASE Acceptable(c.query) /\ c.at = "answered"
  <2>1. PICK r \in RowRecords : /\ invoiceRows' = Append(invoiceRows, r) /\ r.call = n
                                /\ r.units = ParseUnits(c.query.amount)
                                /\ r.expiresAt = ExpiryOf(c.query)
    BY <1>2, <1>4
  <2>2. RowsTyped  BY DEF MerchantType
  <2>3. /\ DOMAIN invoiceRows' = DOMAIN invoiceRows \cup {Len(invoiceRows) + 1}
        /\ invoiceRows'[Len(invoiceRows) + 1] = r
    BY <2>1, <2>2, RowAdded
  <2>4. /\ c.answer.id = Len(invoiceRows) + 1 /\ c.answer.units = ParseUnits(c.query.amount)
        /\ c.answer.expiresAt = ExpiryOf(c.query)
    BY <1>2, <1>4
  <2>5. StoredThen(c.answer)  BY <2>1, <2>3, <2>4 DEF StoredThen
  <2>6. RowOf(r, c.query)
    <3>1. c.query.typed # NoOne => c.query.expiresAt # NoOne
      <4>1. n \in DOMAIN calls /\ c.query = calls[n].query  BY <1>2 DEF CallGoesOn
      <4>2. FormIsTyped(c.query)  BY <4>1 DEF FormInv
      <4> QED  BY <4>2, MerchantAssumption DEF FormIsTyped
    <3> QED  BY <1>4, <2>1, <3>1 DEF RowOf, Acceptable, ExpiryOf
  <2>7. \A i \in DOMAIN invoiceRows' :
            \/ i \in DOMAIN invoiceRows
            \/ invoiceRows'[i].call = n /\ RowOf(invoiceRows'[i], c.query)
    BY <2>1, <2>3, <2>6
  <2> QED  BY <1>1, <1>2, <2>5, <2>7, FormCallGoesOn
<1> QED  BY <1>2, <1>3, <1>4

LEMMA FormKeeps ==
  ASSUME MerchantType, FormInv, [MerchantNext]_merchantVars
  PROVE  FormInv'
<1>1. RowsGoOn /\ openPage' = openPage  BY MerchantTypeKeeps, OpenStays
<1>2. CASE openPage # "new"  BY <1>2, NoFormElsewhere
<1>3. CASE openPage = "new"
  <2>1. \A n \in Waiting : n \in DOMAIN calls /\ CallShape(calls[n])  BY CallIs DEF Waiting
  <2>2. CASE EditForm \/ CreateAnother \/ SessionChanges \/ World \/ UNCHANGED merchantVars
    <3>1. UNCHANGED calls
      BY <2>2 DEF EditForm, CreateAnother, SessionChanges, World, merchantVars
    <3>2. newPage'.zone = newPage.zone /\ newPage'.created \in {newPage.created, NoOne}
      BY <2>2 DEF EditForm, CreateAnother, SessionChanges, World, merchantVars, MerchantType
    <3>3. \A i \in DOMAIN invoiceRows' : i \in DOMAIN invoiceRows \/ invoiceRows'[i].call = 0
      BY <2>2, WorldRows DEF EditForm, CreateAnother, SessionChanges, merchantVars
    <3> QED  BY <1>1, <1>3, <3>1, <3>2, <3>3, FormRests
  <2>3. CASE Submit
    <3>1. "create" \in {"list", "get", "cancel", "create"} /\ Form \in ListQueries \cup {1} \cup Forms
      BY FormIs
    <3>2. PICK c \in PageCalls : AskedCall(c, "create", Form)  BY <2>3, <3>1, Asks DEF Submit
    <3>3. newPage'.zone = newPage.zone /\ newPage'.created = newPage.created /\ UNCHANGED invoiceRows
      BY <2>3 DEF Submit, MerchantType
    <3>4. /\ DOMAIN calls \subseteq DOMAIN calls'
          /\ \A m \in DOMAIN calls : calls'[m].query = calls[m].query
      BY <3>2 DEF AskedCall
    <3>5. \A m \in DOMAIN calls' : \/ m \in DOMAIN calls /\ calls'[m] = calls[m]
                                  \/ /\ FormIsTyped(calls'[m].query)
                                     /\ calls'[m].at = "answered" => StoredThen(calls'[m].answer)
      BY <3>2, FormIsAsTyped DEF AskedCall
    <3> QED  BY <1>1, <1>3, <3>3, <3>4, <3>5, FormGoesOn
  <2>4. CASE LoseCall
    <3>1. PICK n \in Waiting : \E c : CallGoesOn(n, c) /\ c.at = "failed"  BY <2>4, Loses
    <3>2. PICK c : CallGoesOn(n, c) /\ c.at = "failed"  BY <3>1
    <3>3. UNCHANGED <<invoiceRows, newPage>>  BY <2>4 DEF LoseCall
    <3> QED  BY <1>1, <1>3, <3>2, <3>3, FormCallGoesOn
  <2>5. CASE Backend
    <3>1. PICK n \in Waiting : \/ ExpireOpenInvoices(n) \/ FindMany(n) \/ CountRows(n)
                               \/ GetOwned(n) \/ CancelRow(n) \/ CreateRow(n)
      BY <2>5 DEF Backend
    <3>2. CreateRow(n)
      BY <1>3, <2>1, <3>1 DEF CallShape, ExpireOpenInvoices, FindMany, CountRows, GetOwned, CancelRow
    <3> QED  BY <1>1, <1>3, <3>2, CreateKeepsForm
  <2>6. CASE \E n \in Waiting : ShowList(n) \/ ShowInvoice(n) \/ ShowCreated(n)
    <3>1. PICK n \in Waiting : ShowList(n) \/ ShowInvoice(n) \/ ShowCreated(n)  BY <2>6
    <3>2. ShowCreated(n)  BY <1>3, <2>1, <3>1 DEF CallShape, ShowList, ShowInvoice
    <3>3. PICK c : CallGoesOn(n, c) /\ c.at = "shown"  BY <3>2, Shows DEF ShowCreated
    <3>4. UNCHANGED invoiceRows  BY <3>2 DEF ShowCreated, Shown
    <3>5. newPage'.zone = newPage.zone
          /\ (newPage'.created # newPage.created => calls[n].at = "answered" /\ newPage'.created = calls[n].answer)
      BY <3>2 DEF ShowCreated, MerchantType
    <3>6. calls[n].at = "answered" => StoredAs(calls[n].answer)  BY <1>3, <2>1 DEF FormInv
    <3>7. newPage'.created # NoOne => newPage'.created = newPage.created \/ StoredThen(newPage'.created)
      BY <1>1, <3>5, <3>6, StoredLasts
    <3> QED  BY <1>1, <1>3, <3>3, <3>4, <3>5, <3>7, FormCallGoesOn
  <2>7. ~(LoadList \/ SelectFilter \/ PreviousPage \/ NextPage \/ LoadDetail \/ ClickCancel)
    BY <1>3 DEF LoadList, SelectFilter, PreviousPage, NextPage, LoadDetail, ClickCancel
  <2> QED  BY <2>2, <2>3, <2>4, <2>5, <2>6, <2>7 DEF MerchantNext
<1> QED  BY <1>2, <1>3

\* Amounts with at most as many digits as decimals are not rounded.
LEMMA CanonicalIsExact ==
  ASSUME NEW a \in AmountTexts, Canonical(a)
  PROVE  ParseUnits(a) * 10 ^ a.digits = (a.whole * 10 ^ a.digits + a.frac) * 10 ^ Decimals
<1>1. a.whole \in Nat /\ a.frac \in Nat /\ a.digits \in Nat  BY MerchantAssumption
<1>2. 10 ^ 1 = 10 /\ 10 ^ 0 = 1  OBVIOUS
<1>3. a.digits \in {0, 1}  BY <1>1 DEF Canonical, Decimals
<1>4. PICK w, f \in Nat : w = a.whole /\ f = a.frac  BY <1>1
<1>5. CASE a.digits = 0
  <2>1. ParseUnits(a) = w * 10 + f * 10  BY <1>2, <1>4, <1>5 DEF ParseUnits, Decimals
  <2> QED  BY <1>2, <1>4, <1>5, <2>1 DEF Decimals
<1>6. CASE a.digits = 1
  <2>1. ParseUnits(a) = w * 10 + f  BY <1>2, <1>4, <1>6 DEF ParseUnits, Decimals
  <2> QED  BY <1>2, <1>4, <1>6, <2>1 DEF Decimals
<1> QED  BY <1>3, <1>5, <1>6

LEMMA CreatedIsTyped ==
  ASSUME MerchantType, FormInv
  PROVE  CreatedAsTyped
<1>1. ASSUME NEW i \in DOMAIN invoiceRows, invoiceRows[i].call # 0
      PROVE  LET row == invoiceRows[i]
                 form == calls[row.call].query
             IN  /\ form.previewed
                 /\ row.units * 10 ^ form.amount.digits
                      = (form.amount.whole * 10 ^ form.amount.digits + form.amount.frac) * 10 ^ Decimals
                 /\ form.typed # NoOne => row.expiresAt + newPage.zone = form.typed
  <2>1. openPage = "new"  BY <1>1 DEF FormInv
  <2>2. PICK k : k = invoiceRows[i].call  OBVIOUS
  <2>3. k \in DOMAIN calls /\ RowOf(invoiceRows[i], calls[k].query) /\ FormIsTyped(calls[k].query)
    BY <1>1, <2>1, <2>2 DEF FormInv, NewRow
  <2>4. calls[k].query \in Forms  BY <2>1, <2>3, CallIs DEF CallShape
  <2>5. calls[k].query.amount \in AmountTexts  BY <2>4 DEF Forms
  <2>6. HasPreview(calls[k].query.amount)  BY <2>3 DEF RowOf, HasPreview, Canonical
  <2>7. invoiceRows[i].units = ParseUnits(calls[k].query.amount) /\ Canonical(calls[k].query.amount)
    BY <2>3 DEF RowOf
  <2>8. invoiceRows[i].units * 10 ^ calls[k].query.amount.digits
          = (calls[k].query.amount.whole * 10 ^ calls[k].query.amount.digits + calls[k].query.amount.frac) * 10 ^ Decimals
    BY <2>5, <2>7, CanonicalIsExact
  <2> QED  BY <2>2, <2>3, <2>6, <2>8 DEF RowOf, FormIsTyped
<1>2. newPage.created # NoOne => StoredAs(newPage.created)  BY DEF FormInv
<1> QED  BY <1>1, <1>2 DEF CreatedAsTyped, StoredAs

-----------------------------------------------------------------------------
(* The list.  Newer counts a merchant's rows above a row: pages are cut by  *)
(* it, and it only grows, so what a page leaves unseen stays beyond it.     *)
Owned(m) == {i \in DOMAIN invoiceRows : invoiceRows[i].owner = m}
Newer(i, m) == Cardinality({j \in Owned(m) : j > i})
Ids(answer) == {item.id : item \in answer}
ItemOK(item, c) == item.id \in Owned(c.as) /\ c.query.filter \in {"All", item.status}

ListCallOK(c) ==
  c.at \in {"found", "answered"} =>
    /\ \A item \in c.answer : ItemOK(item, c)
    /\ c.found \subseteq Owned(c.as)
    /\ c.query.filter = "All" /\ c.query.offset = 0 =>
         \A i \in c.found \ Ids(c.answer) :
            Newer(i, c.as) >= PageSize /\ (c.at = "answered" => c.total > PageSize)

LastIsView ==
  /\ calls # <<>> /\ calls[Len(calls)].as = merchant
  /\ calls[Len(calls)].query = [filter |-> listPage.filter, offset |-> listPage.offset]

Unseen == walk.rows \ walk.seen
PageEnd == listPage.offset + PageSize

\* On a walk, what is unseen lies beyond the page that was read.
WalkOK ==
  walk.on =>
    /\ merchant # NoOne /\ listPage.filter = "All" /\ walk.rows \subseteq Owned(merchant)
    /\ \A i \in Unseen : Newer(i, merchant) >= listPage.offset
    /\ ListSettled => \A i \in Unseen : Newer(i, merchant) >= PageEnd /\ listPage.total > PageEnd
    /\ \A n \in DOMAIN calls :
         n = Len(calls) /\ ~listPage.due /\ calls[n].at \in {"found", "answered"} =>
           \A i \in Unseen \ Ids(calls[n].answer) :
              Newer(i, merchant) >= PageEnd /\ (calls[n].at = "answered" => calls[n].total > PageEnd)

ListInv ==
  openPage = "list" =>
    /\ \A n \in DOMAIN calls : ListCallOK(calls[n])
    /\ ~listPage.due /\ merchant # NoOne => LastIsView
    /\ applied # 0 /\ applied = Len(calls) /\ ~listPage.error =>
         \A item \in listPage.items : ItemOK(item, calls[applied])
    /\ WalkOK

LEMMA NewerIsNatural ==
  ASSUME MerchantType, NEW m, NEW i
  PROVE  /\ Newer(i, m) \in Nat /\ Cardinality(Owned(m)) \in Nat
         /\ i \in Owned(m) => Cardinality(Owned(m)) > Newer(i, m)
<1>1. PICK S, T : S = Owned(m) /\ T = {j \in Owned(m) : j > i}  OBVIOUS
<1>2. S \subseteq DOMAIN invoiceRows /\ T \subseteq S  BY <1>1 DEF Owned
<1>3. IsFiniteSet(S) /\ IsFiniteSet(T) /\ Cardinality(S) \in Nat /\ Cardinality(T) \in Nat
  BY <1>2, MatchingIsFinite
<1>4. ASSUME i \in S PROVE Cardinality(S) > Cardinality(T)
  <2>1. i \in Nat  BY <1>2, <1>4 DEF MerchantType, RowsTyped
  <2>2. i \notin T  BY <1>1, <2>1
  <2>3. Cardinality(T \cup {i}) = Cardinality(T) + 1  BY <1>3, <2>2, FS_AddElement
  <2>4. T \cup {i} \subseteq S  BY <1>2, <1>4
  <2>5. Cardinality(T \cup {i}) <= Cardinality(S)  BY <1>3, <2>4, FS_Subset
  <2>6. Cardinality(T \cup {i}) \in Nat  BY <1>3, <2>3
  <2> QED  BY <1>3, <2>3, <2>5
<1> QED  BY <1>1, <1>3, <1>4 DEF Newer

\* The same, of the rows after a step.
OwnedThen(m) == {i \in DOMAIN invoiceRows' : invoiceRows'[i].owner = m}
NewerThen(i, m) == Cardinality({j \in OwnedThen(m) : j > i})

LEMMA NewerGrows ==
  ASSUME MerchantType, RowsGoOn, NEW m
  PROVE  /\ Owned(m) \subseteq OwnedThen(m)
         /\ \A i : NewerThen(i, m) \in Nat /\ NewerThen(i, m) >= Newer(i, m)
<1>1. Owned(m) \subseteq OwnedThen(m)  BY DEF Owned, OwnedThen, RowsGoOn
<1>2. ASSUME NEW i PROVE NewerThen(i, m) \in Nat /\ NewerThen(i, m) >= Newer(i, m)
  <2>1. PICK S, T : S = {j \in Owned(m) : j > i} /\ T = {j \in OwnedThen(m) : j > i}  OBVIOUS
  <2>2. S \subseteq T  BY <1>1, <2>1
  <2>3. IsFiniteSet(T)
    <3>1. DOMAIN invoiceRows' = 1 .. Len(invoiceRows') /\ Len(invoiceRows') \in Nat
      BY DEF RowsGoOn, RowsTyped
    <3>2. T \subseteq 1 .. Len(invoiceRows')  BY <2>1, <3>1 DEF OwnedThen
    <3>3. IsFiniteSet(1 .. Len(invoiceRows'))  BY <3>1, FS_Interval
    <3> QED  BY <3>2, <3>3, FS_Subset
  <2>4. Cardinality(S) <= Cardinality(T) /\ Cardinality(T) \in Nat  BY <2>2, <2>3, FS_Subset, FS_CardinalityType
  <2>5. Cardinality(S) \in Nat  BY <2>2, <2>3, FS_Subset, FS_CardinalityType
  <2> QED  BY <2>1, <2>4, <2>5 DEF Newer, NewerThen
<1> QED  BY <1>1, <1>2

ItemThen(item, c) == item.id \in OwnedThen(c.as) /\ c.query.filter \in {"All", item.status}

ListCallThen(c) ==
  c.at \in {"found", "answered"} =>
    /\ \A item \in c.answer : ItemThen(item, c)
    /\ c.found \subseteq OwnedThen(c.as)
    /\ c.query.filter = "All" /\ c.query.offset = 0 =>
         \A i \in c.found \ Ids(c.answer) :
            NewerThen(i, c.as) >= PageSize /\ (c.at = "answered" => c.total > PageSize)

LEMMA ListCallsLast ==
  ASSUME MerchantType, RowsGoOn, NEW c, ListCallOK(c)
  PROVE  ListCallThen(c)
<1>1. /\ Owned(c.as) \subseteq OwnedThen(c.as)
      /\ \A i : NewerThen(i, c.as) \in Nat /\ NewerThen(i, c.as) >= Newer(i, c.as) /\ Newer(i, c.as) \in Nat
  BY NewerGrows, NewerIsNatural
<1>2. PageSize \in Nat  BY MerchantAssumption
<1>3. ASSUME NEW i, Newer(i, c.as) >= PageSize PROVE NewerThen(i, c.as) >= PageSize
  BY <1>1, <1>2, <1>3
<1> QED  BY <1>1, <1>3 DEF ListCallOK, ListCallThen, ItemOK, ItemThen

WalkThen ==
  walk'.on =>
    /\ merchant' # NoOne /\ listPage'.filter = "All" /\ walk'.rows \subseteq OwnedThen(merchant')
    /\ \A i \in walk'.rows \ walk'.seen : NewerThen(i, merchant') >= listPage'.offset
    /\ ListSettled' => \A i \in walk'.rows \ walk'.seen :
                         /\ NewerThen(i, merchant') >= listPage'.offset + PageSize
                         /\ listPage'.total > listPage'.offset + PageSize
    /\ \A n \in DOMAIN calls' :
         n = Len(calls') /\ ~listPage'.due /\ calls'[n].at \in {"found", "answered"} =>
           \A i \in (walk'.rows \ walk'.seen) \ Ids(calls'[n].answer) :
              /\ NewerThen(i, merchant') >= listPage'.offset + PageSize
              /\ calls'[n].at = "answered" => calls'[n].total > listPage'.offset + PageSize

LEMMA ListPieces ==
  ASSUME \A n \in DOMAIN calls' : ListCallThen(calls'[n]),
         ~listPage'.due /\ merchant' # NoOne => LastIsView',
         applied' # 0 /\ applied' = Len(calls') /\ ~listPage'.error =>
           \A item \in listPage'.items : ItemThen(item, calls'[applied']),
         WalkThen
  PROVE  ListInv'
<1>1. (\A n \in DOMAIN calls : ListCallOK(calls[n]))'
  BY DEF ListCallThen, ListCallOK, ItemThen, ItemOK, OwnedThen, Owned, NewerThen, Newer, Ids
<1>2. (~listPage.due /\ merchant # NoOne => LastIsView)'  OBVIOUS
<1>3. (applied # 0 /\ applied = Len(calls) /\ ~listPage.error =>
         \A item \in listPage.items : ItemOK(item, calls[applied]))'
  BY DEF ItemThen, ItemOK, OwnedThen, Owned
<1>4. WalkOK'  BY DEF WalkThen, WalkOK, Unseen, PageEnd, OwnedThen, Owned, NewerThen, Newer, Ids
<1> QED  BY <1>1, <1>2, <1>3, <1>4 DEF ListInv

\* What was beyond a page stays beyond it.
LEMMA BeyondStays ==
  ASSUME MerchantType, RowsGoOn, NEW m, NEW i, NEW k \in Nat, Newer(i, m) >= k
  PROVE  NewerThen(i, m) >= k
BY NewerGrows, NewerIsNatural

LEMMA PageBounds ==
  ASSUME MerchantType
  PROVE  listPage.offset \in Nat /\ PageEnd \in Nat /\ PageEnd > listPage.offset /\ PageSize \in Nat
BY MerchantAssumption DEF MerchantType, PageEnd

\* A call that is not yet shown goes on; the page stays as it is.
LEMMA ListGoesOn ==
  ASSUME MerchantType, ListInv, openPage = "list", RowsGoOn,
         UNCHANGED <<openPage, merchant, applied, listPage, walk>>,
         NEW n, NEW c, CallGoesOn(n, c), c.at # "shown", ListCallThen(c),
         walk.on /\ n = Len(calls) /\ ~listPage.due /\ c.at \in {"found", "answered"} =>
           \A i \in Unseen \ Ids(c.answer) :
              Newer(i, merchant) >= PageEnd /\ (c.at = "answered" => c.total > PageEnd)
  PROVE  ListInv'
<1>1. /\ n \in DOMAIN calls /\ c.as = calls[n].as /\ c.query = calls[n].query
      /\ DOMAIN calls = 1 .. Len(calls) /\ Len(calls) \in Nat
  BY CallIs DEF CallGoesOn
<1>2. /\ DOMAIN calls' = DOMAIN calls /\ Len(calls') = Len(calls) /\ calls'[n] = c
      /\ \A m \in DOMAIN calls : m # n => calls'[m] = calls[m]
  BY CallsAfter
<1>3. \A m \in DOMAIN calls : calls'[m].as = calls[m].as /\ calls'[m].query = calls[m].query
  BY <1>1, <1>2
<1>4. \A m \in DOMAIN calls' : ListCallThen(calls'[m])
  <2>1. \A m \in DOMAIN calls : ListCallThen(calls[m])  BY ListCallsLast DEF ListInv
  <2> QED  BY <1>2, <2>1
<1>5. ~listPage'.due /\ merchant' # NoOne => LastIsView'
  <2>1. CASE ~listPage.due /\ merchant # NoOne
    <3>1. LastIsView /\ Len(calls) \in DOMAIN calls  BY <1>1, <2>1 DEF ListInv
    <3>2. calls' # <<>>  BY <1>1, <1>2
    <3> QED  BY <1>2, <1>3, <3>1, <3>2 DEF LastIsView
  <2> QED  BY <2>1
<1>6. applied' # 0 /\ applied' = Len(calls') /\ ~listPage'.error =>
        \A item \in listPage'.items : ItemThen(item, calls'[applied'])
  <2>1. SUFFICES ASSUME applied # 0, applied = Len(calls), ~listPage.error, NEW item \in listPage.items
                 PROVE  ItemThen(item, calls'[applied])
    BY <1>2
  <2>2. ItemOK(item, calls[applied]) /\ applied \in DOMAIN calls  BY <1>1, <2>1 DEF ListInv
  <2>3. PICK d, e : d = calls[applied] /\ e = calls'[applied]  OBVIOUS
  <2>4. e.as = d.as /\ e.query = d.query  BY <1>3, <2>2, <2>3
  <2>5. Owned(d.as) \subseteq OwnedThen(d.as)  BY NewerGrows
  <2> QED  BY <2>2, <2>3, <2>4, <2>5 DEF ItemOK, ItemThen
<1>7. WalkThen
  <2>1. SUFFICES ASSUME walk.on PROVE WalkThen  BY DEF WalkThen
  <2>2. ~ListSettled'  BY <1>1, <1>2 DEF ListSettled, Waiting
  <2>3. Owned(merchant) \subseteq OwnedThen(merchant)  BY NewerGrows
  <2>4. WalkOK  BY DEF ListInv
  <2>5. \A i \in Unseen : NewerThen(i, merchant) >= listPage.offset
    BY <2>1, <2>4, BeyondStays, PageBounds DEF WalkOK
  <2>6. ASSUME NEW m \in DOMAIN calls', m = Len(calls'), ~listPage.due, calls'[m].at \in {"found", "answered"},
               NEW i \in Unseen \ Ids(calls'[m].answer)
        PROVE  NewerThen(i, merchant) >= PageEnd /\ (calls'[m].at = "answered" => calls'[m].total > PageEnd)
    <3>1. Newer(i, merchant) >= PageEnd /\ (calls'[m].at = "answered" => calls'[m].total > PageEnd)
      <4>1. CASE m = n  BY <1>1, <1>2, <2>1, <2>6, <4>1
      <4>2. CASE m # n  BY <1>1, <1>2, <2>1, <2>4, <2>6, <4>2 DEF WalkOK
      <4> QED  BY <4>1, <4>2
    <3> QED  BY <3>1, BeyondStays, PageBounds
  <2> QED  BY <1>2, <2>1, <2>2, <2>3, <2>4, <2>5, <2>6 DEF WalkThen, WalkOK, Unseen, PageEnd
<1> QED  BY <1>4, <1>5, <1>6, <1>7, ListPieces

\* No call moves, nor does the page.
LEMMA ListRests ==
  ASSUME MerchantType, ListInv, openPage = "list", RowsGoOn,
         UNCHANGED <<openPage, merchant, calls, applied, listPage, walk>>
  PROVE  ListInv'
<1>1. \A n \in DOMAIN calls' : ListCallThen(calls'[n])  BY ListCallsLast DEF ListInv
<1>2. ~listPage'.due /\ merchant' # NoOne => LastIsView'  BY DEF ListInv, LastIsView
<1>3. \A m : Owned(m) \subseteq OwnedThen(m)  BY NewerGrows
<1>4. applied' # 0 /\ applied' = Len(calls') /\ ~listPage'.error =>
        \A item \in listPage'.items : ItemThen(item, calls'[applied'])
  BY <1>3 DEF ListInv, ItemOK, ItemThen
<1>5. WalkThen
  <2>1. SUFFICES ASSUME walk.on PROVE WalkThen  BY DEF WalkThen
  <2>2. WalkOK  BY DEF ListInv
  <2>3. ListSettled' <=> ListSettled  BY DEF ListSettled, Waiting
  <2>4. /\ \A i : Newer(i, merchant) >= listPage.offset => NewerThen(i, merchant) >= listPage.offset
        /\ \A i : Newer(i, merchant) >= PageEnd => NewerThen(i, merchant) >= PageEnd
    BY BeyondStays, PageBounds
  <2> QED  BY <1>3, <2>1, <2>2, <2>3, <2>4 DEF WalkThen, WalkOK, Unseen, PageEnd
<1> QED  BY <1>1, <1>2, <1>4, <1>5, ListPieces

LEMMA FindKeepsList ==
  ASSUME MerchantType, ListInv, openPage = "list", RowsGoOn, NEW n \in Waiting, FindMany(n)
  PROVE  ListInv'
<1>1. UNCHANGED <<openPage, merchant, applied, listPage, walk, invoiceRows>>  BY DEF FindMany, OnlyCallsMove
<1>2. PICK c : /\ CallGoesOn(n, c) /\ c.at = "found" /\ c.does = calls[n].does
               /\ c.found = Matching(calls[n]) /\ c.answer \in SUBSET ListItems
               /\ c.answer = {[id |-> i, owner |-> c.as, status |-> invoiceRows[i].status] :
                                 i \in PageRows(calls[n])}
  BY Finds
<1>3. n \in DOMAIN calls /\ c.as = calls[n].as /\ c.query = calls[n].query  BY <1>2 DEF CallGoesOn
<1>4. calls[n].query \in ListQueries  BY <1>3, CallIs DEF CallShape
<1>5. Ids(c.answer) = PageRows(calls[n])
  <2>1. ASSUME NEW i \in PageRows(calls[n]) PROVE i \in Ids(c.answer)
    <3>1. PICK item : item = [id |-> i, owner |-> c.as, status |-> invoiceRows[i].status]  OBVIOUS
    <3>2. item \in c.answer /\ item.id = i  BY <1>2, <3>1
    <3> QED  BY <3>2 DEF Ids
  <2>2. ASSUME NEW i \in Ids(c.answer) PROVE i \in PageRows(calls[n])
    <3>1. PICK item \in c.answer : i = item.id  BY DEF Ids
    <3>2. PICK k \in PageRows(calls[n]) : item = [id |-> k, owner |-> c.as, status |-> invoiceRows[k].status]
      BY <1>2
    <3> QED  BY <3>1, <3>2
  <2> QED  BY <2>1, <2>2
<1>6. Matching(calls[n]) \subseteq Owned(c.as) /\ PageRows(calls[n]) \subseteq Matching(calls[n])
  BY <1>3 DEF Matching, Owned, PageRows
<1>7. ASSUME c.query.filter = "All"
      PROVE  /\ Matching(calls[n]) = Owned(c.as)
             /\ \A i \in Owned(c.as) \ Ids(c.answer) :
                  Newer(i, c.as) \notin c.query.offset .. c.query.offset + PageSize - 1
  <2>1. Matching(calls[n]) = Owned(c.as)  BY <1>3, <1>7 DEF Matching, Owned
  <2>2. \A i : NewerIn(calls[n], i) = Newer(i, c.as)  BY <2>1 DEF NewerIn, Newer
  <2> QED  BY <1>3, <1>5, <2>1, <2>2 DEF PageRows
<1>8. \A item \in c.answer : ItemThen(item, c)
  <2>1. SUFFICES ASSUME NEW item \in c.answer PROVE ItemThen(item, c)  OBVIOUS
  <2>2. PICK i \in PageRows(calls[n]) : item = [id |-> i, owner |-> c.as, status |-> invoiceRows[i].status]
    BY <1>2
  <2>3. i \in Owned(c.as) /\ c.query.filter \in {"All", invoiceRows[i].status}
    BY <1>3, <1>6 DEF PageRows, Matching
  <2>4. Owned(c.as) \subseteq OwnedThen(c.as)  BY NewerGrows
  <2> QED  BY <2>2, <2>3, <2>4 DEF ItemThen
<1>9. c.query.offset \in Nat /\ PageSize \in Nat  BY <1>3, <1>4, MerchantAssumption DEF ListQueries
<1>10. ListCallThen(c)
  <2>1. c.found \subseteq OwnedThen(c.as)  BY <1>2, <1>6, NewerGrows
  <2>2. ASSUME c.query.filter = "All", c.query.offset = 0, NEW i \in c.found \ Ids(c.answer)
        PROVE  NewerThen(i, c.as) >= PageSize
    <3>1. Newer(i, c.as) \notin 0 .. 0 + PageSize - 1  BY <1>2, <1>7, <2>2
    <3>2. Newer(i, c.as) \in Nat  BY NewerIsNatural
    <3>3. Newer(i, c.as) >= PageSize  BY <1>9, <3>1, <3>2
    <3> QED  BY <1>9, <3>3, BeyondStays
  <2> QED  BY <1>2, <1>8, <2>1, <2>2 DEF ListCallThen
<1>11. ASSUME walk.on, n = Len(calls), ~listPage.due, NEW i \in Unseen \ Ids(c.answer)
       PROVE  Newer(i, merchant) >= PageEnd
  <2>1. WalkOK  BY DEF ListInv
  <2>2. LastIsView  BY <1>11, <2>1 DEF ListInv, WalkOK
  <2>3. c.as = merchant /\ c.query.filter = listPage.filter /\ c.query.offset = listPage.offset
    BY <1>3, <1>11, <2>2 DEF LastIsView
  <2>4. c.query.filter = "All" /\ i \in Owned(c.as) /\ Newer(i, merchant) >= listPage.offset
    BY <1>11, <2>1, <2>3 DEF WalkOK, Unseen
  <2>5. Newer(i, c.as) \notin c.query.offset .. c.query.offset + PageSize - 1  BY <1>7, <1>11, <2>4
  <2>6. Newer(i, merchant) \in Nat  BY NewerIsNatural
  <2> QED  BY <1>9, <2>3, <2>4, <2>5, <2>6 DEF PageEnd
<1> QED  BY <1>1, <1>2, <1>10, <1>11, ListGoesOn

LEMMA CountKeepsList ==
  ASSUME MerchantType, ListInv, openPage = "list", RowsGoOn, NEW n \in Waiting, CountRows(n)
  PROVE  ListInv'
<1>1. UNCHANGED <<openPage, merchant, applied, listPage, walk, invoiceRows>>  BY DEF CountRows, OnlyCallsMove
<1>2. PICK c : /\ CallGoesOn(n, c) /\ c.at = "answered" /\ c.does = calls[n].does
               /\ c.found = calls[n].found /\ c.answer = calls[n].answer
               /\ c.total = Cardinality(Matching(calls[n]))
  BY Counts
<1>3. n \in DOMAIN calls /\ c.as = calls[n].as /\ c.query = calls[n].query /\ calls[n].at = "found"
  BY <1>2, Counts DEF CallGoesOn
<1>4. ListCallOK(calls[n])  BY <1>3 DEF ListInv
<1>5. c.query.filter = "All" => Matching(calls[n]) = Owned(c.as)  BY <1>3 DEF Matching, Owned
<1>6. ASSUME c.query.filter = "All", NEW i \in Owned(c.as), NEW k \in Nat, Newer(i, c.as) >= k
      PROVE  c.total > k
  <2>1. Cardinality(Owned(c.as)) > Newer(i, c.as) /\ Newer(i, c.as) \in Nat /\ Cardinality(Owned(c.as)) \in Nat
    BY <1>6, NewerIsNatural
  <2>2. c.total = Cardinality(Owned(c.as))  BY <1>2, <1>5, <1>6
  <2> QED  BY <1>6, <2>1, <2>2
<1>7. ListCallThen(c)
  <2>1. PageSize \in Nat  BY MerchantAssumption
  <2>2. /\ \A item \in c.answer : ItemOK(item, c)
        /\ c.found \subseteq Owned(c.as)
        /\ c.query.filter = "All" /\ c.query.offset = 0 =>
             \A i \in c.found \ Ids(c.answer) : Newer(i, c.as) >= PageSize
    BY <1>2, <1>3, <1>4 DEF ListCallOK, ItemOK
  <2>3. c.query.filter = "All" /\ c.query.offset = 0 =>
             \A i \in c.found \ Ids(c.answer) : c.total > PageSize
    BY <1>6, <2>1, <2>2
  <2>4. ListCallOK(c)  BY <2>2, <2>3 DEF ListCallOK
  <2> QED  BY <2>4, ListCallsLast
<1>8. ASSUME walk.on, n = Len(calls), ~listPage.due, NEW i \in Unseen \ Ids(c.answer)
      PROVE  Newer(i, merchant) >= PageEnd /\ c.total > PageEnd
  <2>1. WalkOK  BY DEF ListInv
  <2>2. LastIsView  BY <1>8, <2>1 DEF ListInv, WalkOK
  <2>3. c.as = merchant /\ c.query.filter = "All" /\ i \in Owned(merchant)
    BY <1>3, <1>8, <2>1, <2>2 DEF LastIsView, WalkOK, Unseen
  <2>4. Newer(i, merchant) >= PageEnd  BY <1>2, <1>3, <1>8, <2>1 DEF WalkOK
  <2> QED  BY <1>6, <2>3, <2>4, PageBounds
<1> QED  BY <1>1, <1>2, <1>7, <1>8, ListGoesOn

\* What the rows, the calls and the shown items say is left alone.
LEMMA ListLeft ==
  ASSUME MerchantType, ListInv, openPage = "list", UNCHANGED <<openPage, invoiceRows, calls, applied>>,
         listPage'.items = listPage.items, listPage'.error = listPage.error,
         ~listPage'.due /\ merchant' # NoOne => LastIsView', WalkThen
  PROVE  ListInv'
<1>1. \A m : OwnedThen(m) = Owned(m)  BY DEF OwnedThen, Owned
<1>2. RowsGoOn  BY RowsLeft DEF MerchantType
<1>3. \A n \in DOMAIN calls' : ListCallThen(calls'[n])  BY <1>2, ListCallsLast DEF ListInv
<1>4. applied' # 0 /\ applied' = Len(calls') /\ ~listPage'.error =>
        \A item \in listPage'.items : ItemThen(item, calls'[applied'])
  BY <1>1 DEF ListInv, ItemOK, ItemThen
<1> QED  BY <1>3, <1>4, ListPieces

LEMMA LoadKeepsList ==
  ASSUME MerchantType, ListInv, openPage = "list", LoadList
  PROVE  ListInv'
<1>1. UNCHANGED <<openPage, merchant, invoiceRows, applied, walk>>  BY DEF LoadList
<1>2. RowsGoOn /\ applied \in 0 .. Len(calls) /\ Len(calls) \in Nat  BY <1>1, RowsLeft DEF MerchantType
<1>3. WalkOK  BY DEF ListInv
<1>4. CASE merchant = NoOne
  <2>1. UNCHANGED calls /\ listPage' = [listPage EXCEPT !.due = FALSE]  BY <1>4 DEF LoadList
  <2>2. listPage'.items = listPage.items /\ listPage'.error = listPage.error  BY <2>1 DEF MerchantType
  <2>3. WalkThen  BY <1>1, <1>3, <1>4 DEF WalkOK, WalkThen
  <2> QED  BY <1>1, <1>4, <2>1, <2>2, <2>3, ListLeft
<1>5. CASE merchant # NoOne
  <2>1. /\ PageAsks("list", [filter |-> listPage.filter, offset |-> listPage.offset])
        /\ listPage' = [listPage EXCEPT !.due = FALSE, !.loading = TRUE, !.error = FALSE]
    BY <1>5 DEF LoadList
  <2>2. /\ listPage'.filter = listPage.filter /\ listPage'.offset = listPage.offset /\ ~listPage'.due
        /\ listPage'.total = listPage.total
    BY <2>1 DEF MerchantType
  <2>3. PICK c \in PageCalls : AskedCall(c, "list", [filter |-> listPage.filter, offset |-> listPage.offset])
    <3>1. [filter |-> listPage.filter, offset |-> listPage.offset] \in ListQueries
      BY DEF MerchantType, ListQueries
    <3>2. "list" \in {"list", "get", "cancel", "create"}
          /\ [filter |-> listPage.filter, offset |-> listPage.offset] \in ListQueries \cup {1} \cup Forms
      BY <3>1
    <3> QED  BY <1>5, <2>1, <3>2, Asks
  <2>4. /\ Len(calls') = Len(calls) + 1 /\ DOMAIN calls' = DOMAIN calls \cup {Len(calls) + 1}
        /\ calls'[Len(calls) + 1] = c /\ \A m \in DOMAIN calls : calls'[m] = calls[m]
        /\ c.at = "sent" /\ c.as = merchant
        /\ c.query = [filter |-> listPage.filter, offset |-> listPage.offset]
    BY <2>3 DEF AskedCall
  <2>5. \A m \in DOMAIN calls' : ListCallThen(calls'[m])
    <3>1. \A m \in DOMAIN calls : ListCallThen(calls[m])  BY <1>2, ListCallsLast DEF ListInv
    <3>2. ListCallThen(c)  BY <2>4 DEF ListCallThen
    <3> QED  BY <2>4, <3>1, <3>2
  <2>6. LastIsView'
    <3>1. calls' # <<>>  BY <2>4
    <3> QED  BY <1>1, <2>2, <2>4, <3>1 DEF LastIsView
  <2>7. applied' # Len(calls')  BY <1>1, <1>2, <2>4
  <2>8. ~ListSettled'  BY <2>7 DEF ListSettled
  <2>9. \A m \in DOMAIN calls' : m = Len(calls') => calls'[m].at = "sent"  BY <2>4
  <2>10. Owned(merchant) \subseteq OwnedThen(merchant)  BY <1>2, NewerGrows
  <2>11. \A i : Newer(i, merchant) >= listPage.offset => NewerThen(i, merchant) >= listPage.offset
    BY <1>2, BeyondStays, PageBounds
  <2>12. WalkThen  BY <1>1, <1>3, <2>2, <2>8, <2>9, <2>10, <2>11 DEF WalkThen, WalkOK, Unseen
  <2> QED  BY <2>5, <2>6, <2>7, <2>12, ListPieces
<1> QED  BY <1>4, <1>5

\* Another filter, another page, another session: due, or as before.
LEMMA ViewKeepsList ==
  ASSUME MerchantType, ListInv, openPage = "list", SelectFilter \/ PreviousPage \/ NextPage
  PROVE  ListInv'
<1>1. UNCHANGED <<openPage, merchant, invoiceRows, calls, applied>> /\ merchant # NoOne
  BY DEF SelectFilter, PreviousPage, NextPage, OtherThanListState
<1>2. PICK filter, offset : ShowPage(filter, offset)  BY DEF SelectFilter, PreviousPage, NextPage
<1>3. /\ listPage'.items = listPage.items /\ listPage'.error = listPage.error
      /\ listPage'.filter = filter /\ listPage'.offset = offset
      /\ listPage'.due = (listPage.due \/ <<filter, offset>> # <<listPage.filter, listPage.offset>>)
  BY <1>2 DEF ShowPage, MerchantType
<1>4. ~listPage'.due => filter = listPage.filter /\ offset = listPage.offset /\ ~listPage.due
  BY <1>3
<1>5. ~listPage'.due /\ merchant' # NoOne => LastIsView'
  BY <1>1, <1>3, <1>4 DEF ListInv, LastIsView
<1>6. WalkThen
  <2>1. CASE walk' = NoWalk  BY <2>1 DEF WalkThen, NoWalk
  <2>2. CASE NextPage /\ ListSettled /\ walk' = walk
    <3>1. WalkOK  BY DEF ListInv
    <3>2. listPage'.filter = listPage.filter /\ listPage'.offset = PageEnd
      BY <2>2 DEF NextPage, ShowPage, MerchantType, PageEnd
    <3>3. PageEnd # listPage.offset  BY PageBounds
    <3>4. listPage'.due  BY <1>3, <1>4, <3>2, <3>3
    <3>5. ~ListSettled'  BY <3>4 DEF ListSettled
    <3>6. \A m : OwnedThen(m) = Owned(m)  BY <1>1 DEF OwnedThen, Owned
    <3>7. \A i, m : NewerThen(i, m) = Newer(i, m)  BY <3>6 DEF NewerThen, Newer
    <3> QED  BY <1>1, <2>2, <3>1, <3>2, <3>4, <3>5, <3>6, <3>7 DEF WalkThen, WalkOK, Unseen
  <2> QED  BY <2>1, <2>2 DEF SelectFilter, PreviousPage, NextPage
<1> QED  BY <1>1, <1>3, <1>5, <1>6, ListLeft

LEMMA SessionKeepsList ==
  ASSUME MerchantType, ListInv, openPage = "list", SessionChanges
  PROVE  ListInv'
<1>1. UNCHANGED <<openPage, invoiceRows, calls, applied>> /\ walk' = NoWalk
      /\ listPage' = [listPage EXCEPT !.due = TRUE]
  BY DEF SessionChanges
<1>2. listPage'.items = listPage.items /\ listPage'.error = listPage.error /\ listPage'.due
  BY <1>1 DEF MerchantType
<1>3. WalkThen  BY <1>1 DEF WalkThen, NoWalk
<1> QED  BY <1>1, <1>2, <1>3, ListLeft

\* An answer that is shown in order extends the walk by its page.
LEMMA WalkGoesOn ==
  ASSUME MerchantType, ListInv, openPage = "list", UNCHANGED <<openPage, merchant, invoiceRows>>,
         NEW n \in DOMAIN calls, calls[n].at = "answered", walk' = WalkOn(calls[n], n),
         listPage'.filter = listPage.filter, listPage'.offset = listPage.offset,
         listPage'.due = listPage.due, listPage'.total = calls[n].total,
         Len(calls') = Len(calls), calls'[n].at = "shown"
  PROVE  WalkThen
<1>1. /\ \A m : OwnedThen(m) = Owned(m)
      /\ \A i, m : NewerThen(i, m) = Newer(i, m)
  BY DEF OwnedThen, Owned, NewerThen, Newer
<1>2. ListCallOK(calls[n]) /\ WalkOK  BY DEF ListInv
<1>3. CASE walk' = NoWalk  BY <1>3 DEF WalkThen, NoWalk
<1>4. CASE /\ n = Len(calls) /\ ~listPage.due /\ calls[n].as = merchant /\ calls[n].query.filter = "All"
           /\ \/ /\ calls[n].query.offset = 0
                 /\ walk' = [rows |-> calls[n].found, seen |-> Ids(calls[n].answer), on |-> TRUE]
              \/ walk.on /\ walk' = [walk EXCEPT !.seen = @ \cup Ids(calls[n].answer)]
  <2>1. merchant # NoOne
    <3>1. calls[n].as \in Merchants  BY CallIs DEF PageCalls
    <3> QED  BY <1>4, <3>1, MerchantAssumption
  <2>2. LastIsView  BY <1>4, <2>1 DEF ListInv
  <2>3. calls[n].query = [filter |-> listPage.filter, offset |-> listPage.offset]
    BY <1>4, <2>2 DEF LastIsView
  <2>4. listPage.filter = "All" /\ calls[n].query.offset = listPage.offset  BY <1>4, <2>3
  <2>5. /\ walk'.rows \subseteq Owned(merchant)
        /\ \A i \in walk'.rows \ walk'.seen : Newer(i, merchant) >= PageEnd /\ calls[n].total > PageEnd
    <3>1. CASE /\ calls[n].query.offset = 0
               /\ walk' = [rows |-> calls[n].found, seen |-> Ids(calls[n].answer), on |-> TRUE]
      <4>1. PageEnd = PageSize  BY <2>4, <3>1, PageBounds DEF PageEnd
      <4>2. /\ calls[n].found \subseteq Owned(merchant)
            /\ \A i \in calls[n].found \ Ids(calls[n].answer) :
                 Newer(i, merchant) >= PageSize /\ calls[n].total > PageSize
        BY <1>2, <1>4, <3>1 DEF ListCallOK
      <4>3. walk'.rows = calls[n].found /\ walk'.seen = Ids(calls[n].answer)  BY <3>1
      <4> QED  BY <4>1, <4>2, <4>3
    <3>2. CASE walk.on /\ walk' = [walk EXCEPT !.seen = @ \cup Ids(calls[n].answer)]
      <4>1. walk'.rows = walk.rows /\ walk'.seen = walk.seen \cup Ids(calls[n].answer)
        BY <3>2 DEF MerchantType
      <4>2. \A i \in Unseen \ Ids(calls[n].answer) : Newer(i, merchant) >= PageEnd /\ calls[n].total > PageEnd
        BY <1>2, <1>4, <3>2 DEF WalkOK
      <4>3. walk'.rows \ walk'.seen = Unseen \ Ids(calls[n].answer)  BY <4>1 DEF Unseen
      <4> QED  BY <1>2, <3>2, <4>1, <4>2, <4>3 DEF WalkOK
    <3> QED  BY <1>4, <3>1, <3>2
  <2>6. \A i \in walk'.rows \ walk'.seen : Newer(i, merchant) >= listPage.offset
    <3>1. \A i : Newer(i, merchant) \in Nat  BY NewerIsNatural
    <3> QED  BY <2>5, <3>1, PageBounds
  <2>7. \A m \in DOMAIN calls' : m = Len(calls') => calls'[m].at = "shown"  BY <1>4
  <2> QED  BY <1>1, <2>1, <2>4, <2>5, <2>6, <2>7 DEF WalkThen, PageEnd
<1> QED  BY <1>3, <1>4 DEF WalkOn, Ids

LEMMA ShowKeepsList ==
  ASSUME MerchantType, ListInv, openPage = "list", NEW n \in Waiting, ShowList(n)
  PROVE  ListInv'
<1>1. /\ UNCHANGED <<openPage, merchant, invoiceRows>> /\ applied' = n
      /\ calls[n].at \in {"answered", "failed"}
  BY DEF ShowList, Shown
<1>2. /\ n \in DOMAIN calls /\ CallShape(calls[n]) /\ DOMAIN calls = 1 .. Len(calls) /\ Len(calls) \in Nat
  <2>1. n \in DOMAIN calls  BY DEF Waiting
  <2> QED  BY <2>1, CallIs
<1>3. PICK c : CallGoesOn(n, c) /\ c.at = "shown"  BY Shows DEF ShowList
<1>4. /\ DOMAIN calls' = DOMAIN calls /\ Len(calls') = Len(calls) /\ calls'[n] = c
      /\ \A m \in DOMAIN calls : m # n => calls'[m] = calls[m]
      /\ \A m \in DOMAIN calls : calls'[m].as = calls[m].as /\ calls'[m].query = calls[m].query
  BY <1>2, <1>3, CallsAfter DEF CallGoesOn
<1>5. /\ listPage'.filter = listPage.filter /\ listPage'.offset = listPage.offset
      /\ listPage'.due = listPage.due
      /\ \/ /\ calls[n].at = "answered" /\ listPage'.items = calls[n].answer
            /\ listPage'.total = calls[n].total /\ walk' = WalkOn(calls[n], n)
         \/ listPage'.error /\ walk' = walk
  BY DEF ShowList, MerchantType
<1>6. RowsGoOn  BY <1>1, RowsLeft DEF MerchantType
<1>7. \A m \in DOMAIN calls' : ListCallThen(calls'[m])
  <2>1. \A m \in DOMAIN calls : ListCallThen(calls[m])  BY <1>6, ListCallsLast DEF ListInv
  <2>2. ListCallThen(c)  BY <1>3 DEF ListCallThen
  <2> QED  BY <1>4, <2>1, <2>2
<1>8. ~listPage'.due /\ merchant' # NoOne => LastIsView'
  <2>1. CASE ~listPage.due /\ merchant # NoOne
    <3>1. LastIsView /\ Len(calls) \in DOMAIN calls  BY <1>2, <2>1 DEF ListInv
    <3>2. calls' # <<>>  BY <1>2, <1>4
    <3> QED  BY <1>1, <1>4, <1>5, <3>1, <3>2 DEF LastIsView
  <2> QED  BY <1>1, <1>5, <2>1
<1>9. \A m : OwnedThen(m) = Owned(m)  BY <1>1 DEF OwnedThen, Owned
<1>10. applied' # 0 /\ applied' = Len(calls') /\ ~listPage'.error =>
         \A item \in listPage'.items : ItemThen(item, calls'[applied'])
  <2>1. SUFFICES ASSUME ~listPage'.error, NEW item \in listPage'.items
                 PROVE  ItemThen(item, c)
    BY <1>1, <1>4
  <2>2. calls[n].at = "answered" /\ item \in calls[n].answer  BY <1>5, <2>1
  <2>3. ItemOK(item, calls[n])  BY <1>2, <2>2 DEF ListInv, ListCallOK
  <2> QED  BY <1>3, <1>9, <2>3 DEF ItemOK, ItemThen, CallGoesOn
<1>11. WalkThen
  <2>1. CASE calls[n].at = "answered" /\ listPage'.total = calls[n].total /\ walk' = WalkOn(calls[n], n)
    BY <1>1, <1>2, <1>3, <1>4, <1>5, <2>1, WalkGoesOn
  <2>2. CASE listPage'.error /\ walk' = walk
    <3>1. ~ListSettled'  BY <2>2 DEF ListSettled
    <3>2. \A i, m : NewerThen(i, m) = Newer(i, m)  BY <1>9 DEF NewerThen, Newer
    <3>3. WalkOK  BY DEF ListInv
    <3>4. ASSUME walk.on, NEW m \in DOMAIN calls', m = Len(calls'), ~listPage.due,
                 calls'[m].at \in {"found", "answered"}
          PROVE  \A i \in Unseen \ Ids(calls'[m].answer) :
                   Newer(i, merchant) >= PageEnd /\ (calls'[m].at = "answered" => calls'[m].total > PageEnd)
      <4>1. m # n /\ calls'[m] = calls[m]  BY <1>3, <1>4, <3>4
      <4> QED  BY <1>4, <3>3, <3>4, <4>1 DEF WalkOK
    <3> QED  BY <1>1, <1>5, <1>9, <2>2, <3>1, <3>2, <3>3, <3>4 DEF WalkThen, WalkOK, Unseen, PageEnd
  <2> QED  BY <1>5, <2>1, <2>2
<1> QED  BY <1>7, <1>8, <1>10, <1>11, ListPieces

LEMMA ListKeeps ==
  ASSUME MerchantType, ListInv, [MerchantNext]_merchantVars
  PROVE  ListInv'
<1>1. RowsGoOn /\ openPage' = openPage  BY MerchantTypeKeeps, OpenStays
<1>2. CASE openPage # "list"  BY <1>1, <1>2 DEF ListInv
<1>3. CASE openPage = "list"
  <2>1. \A n \in Waiting : n \in DOMAIN calls /\ CallShape(calls[n]) /\ ListCallOK(calls[n])
    BY <1>3, CallIs DEF Waiting, ListInv
  <2>2. CASE World \/ UNCHANGED merchantVars
    BY <1>1, <1>3, <2>2, ListRests DEF World, merchantVars
  <2>3. CASE LoseCall
    <3>1. PICK n \in Waiting : \E c : CallGoesOn(n, c) /\ c.at = "failed"  BY <2>3, Loses
    <3>2. PICK c : CallGoesOn(n, c) /\ c.at = "failed"  BY <3>1
    <3>3. UNCHANGED <<openPage, merchant, applied, listPage, walk>>  BY <2>3 DEF LoseCall
    <3>4. ListCallThen(c)  BY <3>2 DEF ListCallThen
    <3> QED  BY <1>1, <1>3, <3>2, <3>3, <3>4, ListGoesOn
  <2>4. CASE Backend
    <3>1. PICK n \in Waiting : \/ ExpireOpenInvoices(n) \/ FindMany(n) \/ CountRows(n)
                               \/ GetOwned(n) \/ CancelRow(n) \/ CreateRow(n)
      BY <2>4 DEF Backend
    <3>2. ExpireOpenInvoices(n) \/ FindMany(n) \/ CountRows(n)
      BY <1>3, <2>1, <3>1 DEF CallShape, GetOwned, CancelRow, CreateRow
    <3>3. CASE ExpireOpenInvoices(n)
      <4>1. PICK c : CallGoesOn(n, c) /\ c.at = "expired"  BY <3>3, Expires
      <4>2. UNCHANGED <<openPage, merchant, applied, listPage, walk>>
        BY <3>3 DEF ExpireOpenInvoices, OnlyCallsMove
      <4>3. ListCallThen(c)  BY <4>1 DEF ListCallThen
      <4> QED  BY <1>1, <1>3, <4>1, <4>2, <4>3, ListGoesOn
    <3> QED  BY <1>1, <1>3, <3>2, <3>3, FindKeepsList, CountKeepsList
  <2>5. CASE \E n \in Waiting : ShowList(n) \/ ShowInvoice(n) \/ ShowCreated(n)
    <3>1. PICK n \in Waiting : ShowList(n) \/ ShowInvoice(n) \/ ShowCreated(n)  BY <2>5
    <3>2. ShowList(n)  BY <1>3, <2>1, <3>1 DEF CallShape, ShowInvoice, ShowCreated
    <3> QED  BY <1>3, <3>2, ShowKeepsList
  <2>6. ~(LoadDetail \/ ClickCancel \/ EditForm \/ Submit \/ CreateAnother)
    BY <1>3 DEF LoadDetail, ClickCancel, EditForm, Submit, CreateAnother
  <2> QED  BY <1>3, <2>2, <2>3, <2>4, <2>5, <2>6, LoadKeepsList, ViewKeepsList, SessionKeepsList DEF MerchantNext
<1> QED  BY <1>2, <1>3

LEMMA ListIsTrue ==
  ASSUME MerchantType, ListInv
  PROVE  ListIsOfView /\ NoInvoiceSkipped
<1>1. ASSUME ListSettled
      PROVE  /\ calls[applied].as = merchant
             /\ calls[applied].query = [filter |-> listPage.filter, offset |-> listPage.offset]
             /\ \A item \in listPage.items : ItemOK(item, calls[applied])
  BY <1>1 DEF ListSettled, ListInv, LastIsView
<1>2. ListIsOfView
  <2>1. ASSUME ListSettled, NEW item \in listPage.items
        PROVE  invoiceRows[item.id].owner = merchant /\ listPage.filter \in {"All", item.status}
    <3>1. ItemOK(item, calls[applied])  BY <1>1, <2>1
    <3>2. calls[applied].query.filter = listPage.filter  BY <1>1, <2>1
    <3> QED  BY <1>1, <2>1, <3>1, <3>2 DEF ItemOK, Owned
  <2> QED  BY <1>1, <2>1 DEF ListIsOfView
<1>3. ASSUME ListSettled, walk.on, PageEnd >= listPage.total PROVE walk.rows \subseteq walk.seen
  <2>1. \A i \in Unseen : listPage.total > PageEnd
    BY <1>3 DEF ListSettled, ListInv, WalkOK
  <2>2. listPage.total \in Nat  BY DEF MerchantType
  <2> QED  BY <1>3, <2>1, <2>2, PageBounds DEF Unseen
<1> QED  BY <1>2, <1>3 DEF NoInvoiceSkipped, PageEnd

\* For any merchants, page sizes, rows, time zones and typed forms, whatever is
\* lost or late or changes meanwhile: a settled list is the page of the view, a
\* walk with Next skips no invoice, a final status shown is the invoice's, and a
\* stored invoice is what was typed (app/invoices, invoice.service.ts).
THEOREM MerchantSeesTheTable == MerchantSpec => []MerchantPagesAgree
<1>1. MerchantInit => MerchantType /\ ListInv /\ DetailInv /\ FormInv
  <2> SUFFICES ASSUME MerchantInit PROVE MerchantType /\ ListInv /\ DetailInv /\ FormInv  OBVIOUS
  <2>1. MerchantType  BY MerchantStarts
  <2>2. DOMAIN calls = {} /\ Len(calls) = 0 /\ applied = 0 /\ listPage.due /\ ~walk.on
    BY DEF MerchantInit, NoWalk
  <2>3. ListInv  BY <2>2 DEF ListInv, WalkOK
  <2>4. DetailInv  BY <2>2 DEF DetailInv, MerchantInit
  <2>5. \A i \in DOMAIN invoiceRows : invoiceRows[i].call = 0  BY DEF MerchantInit
  <2>6. FormInv  BY <2>2, <2>5 DEF FormInv, NewRow, MerchantInit
  <2> QED  BY <2>1, <2>3, <2>4, <2>6
<1>2. MerchantType /\ ListInv /\ DetailInv /\ FormInv /\ [MerchantNext]_merchantVars
        => MerchantType' /\ ListInv' /\ DetailInv' /\ FormInv'
  BY MerchantTypeKeeps, ListKeeps, DetailKeeps, FormKeeps
<1>3. MerchantType /\ ListInv /\ DetailInv /\ FormInv => MerchantPagesAgree
  BY ListIsTrue, FinalIsTrue, CreatedIsTyped DEF MerchantPagesAgree
<1> QED  BY <1>1, <1>2, <1>3, PTL DEF MerchantSpec
=============================================================================
