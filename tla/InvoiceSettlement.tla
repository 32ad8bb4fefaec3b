------------------------- MODULE InvoiceSettlement -------------------------
(***************************************************************************)
(* Invoices and payment links: the Invoice and InvoicePayment rows, the     *)
(* execution intent an invoice is paid through, and the handlers of         *)
(* InvoiceService.  The logical key of a settlement intent leaves the payer *)
(* out, so invoice k has one intent, k, whoever acquires it first.          *)
(*                                                                          *)
(* verifyPublicPayment reads the invoice once and decides on that snapshot  *)
(* several awaits later; what protects the rows are the WHERE clauses of    *)
(* its updates.  Requests to /execution-intents appear as the store         *)
(* statements they issue; they cannot complete a settlement intent.         *)
(***************************************************************************)
EXTENDS IntentStore

CONSTANTS
    Handlers,
    Terms,          \* Terms[k]: the transfers, from any payer, of invoice k's terms
    SelfTransfers,  \* transfers whose payer is the merchant
    NoKey

ASSUME InvoiceAssumption == /\ Terms \in [Keys -> SUBSET Payloads]
                            /\ NoKey \notin Keys

VARIABLES
    invoice,     \* Invoice.status, "ABSENT" before create
    overdue,     \* expiresAt <= now
    payment,     \* the invoice's InvoicePayment row
    pc, local    \* the handlers

invoiceVars == <<invoice, overdue, payment>>
handlerVars == <<pc, local>>
vars == <<storeVars, invoiceVars, handlerVars>>

InvoiceStatuses == {"OPEN", "VERIFYING", "PAID", "EXPIRED", "CANCELLED"}
PaymentRows == [status : {"NONE", "VERIFYING", "VERIFIED", "REJECTED"},
                hash : Hashes \cup {NoHash}]
Payment(s, h) == [status |-> s, hash |-> h]
NoPayment == Payment("NONE", NoHash)

Labels == {"idle", "read", "intentRead", "beginRead", "beginWrite", "expire",
           "reuseRead", "lock", "receipt", "completeRead", "completeWrite",
           "settle", "retry", "reject", "cancelExpire", "cancelWrite"}

(* A request and the snapshot it took of the invoice. *)
Locals == [key : Keys \cup {NoKey}, hash : Hashes \cup {NoHash},
           seen : InvoiceStatuses \cup {"ABSENT"}, paid : PaymentRows]

Request(k, h) == [key |-> k, hash |-> h, seen |-> "ABSENT", paid |-> NoPayment]

Init ==
    /\ StoreInit
    /\ invoice = [k \in Keys |-> "ABSENT"]
    /\ overdue = [k \in Keys |-> FALSE]
    /\ payment = [k \in Keys |-> NoPayment]
    /\ pc = [p \in Handlers |-> "idle"]
    /\ local = [p \in Handlers |-> Request(NoKey, NoHash)]

Jump(p, label) == pc' = [pc EXCEPT ![p] = label] /\ UNCHANGED local
Become(p, label, r) == /\ pc' = [pc EXCEPT ![p] = label]
                       /\ local' = [local EXCEPT ![p] = r]
Answer(p) == Become(p, "idle", Request(NoKey, NoHash))

-----------------------------------------------------------------------------
(* create, the merchant's *)
Create(k) ==
    /\ invoice[k] = "ABSENT"
    /\ invoice' = [invoice EXCEPT ![k] = "OPEN"]
    /\ UNCHANGED <<storeVars, overdue, payment, handlerVars>>

(* Time: expiresAt passes. *)
Deadline(k) ==
    /\ invoice[k] # "ABSENT" /\ ~overdue[k]
    /\ overdue' = [overdue EXCEPT ![k] = TRUE]
    /\ UNCHANGED <<storeVars, invoice, payment, handlerVars>>

(* expireOpenInvoices *)
ExpireOpen(k) ==
    invoice' = [invoice EXCEPT ![k] = IF @ = "OPEN" /\ overdue[k] THEN "EXPIRED" ELSE @]

(* list, getOwned, getPublic *)
Read(k) == ExpireOpen(k) /\ UNCHANGED <<storeVars, overdue, payment, handlerVars>>

(* cancel, the merchant's *)
CancelRequest(p, k) ==
    /\ pc[p] = "idle" /\ invoice[k] # "ABSENT"
    /\ Become(p, "cancelExpire", Request(k, NoHash))
    /\ UNCHANGED <<storeVars, invoiceVars>>

CancelExpire(p) ==
    /\ pc[p] = "cancelExpire"
    /\ ExpireOpen(local[p].key)
    /\ Jump(p, "cancelWrite")
    /\ UNCHANGED <<storeVars, overdue, payment>>

BlindInvoiceCancel(p) ==   \* variant: WHERE id only
    /\ pc[p] = "cancelWrite"
    /\ invoice' = [invoice EXCEPT ![local[p].key] = "CANCELLED"]
    /\ Answer(p)
    /\ UNCHANGED <<storeVars, overdue, payment>>

CancelUpdate(p) ==
    LET k == local[p].key IN
    /\ pc[p] = "cancelWrite"
    /\ \/ /\ invoice[k] = "OPEN"
          /\ invoice' = [invoice EXCEPT ![k] = "CANCELLED"]
          /\ Answer(p)
       \/ invoice[k] # "OPEN" /\ Answer(p) /\ UNCHANGED invoice
    /\ UNCHANGED <<storeVars, overdue, payment>>

(* acquire of a settlement intent: serializable with the invoice row. *)
AcquireSettlement(k, d) ==
    /\ invoice[k] = "OPEN" /\ ~overdue[k]
    /\ d \in Terms[k]
    /\ AcquireCreate(k, d)
    /\ UNCHANGED <<invoiceVars, handlerVars>>

-----------------------------------------------------------------------------
(* verifyPublicPayment *)
VerifyRequest(p, k, h) ==
    /\ pc[p] = "idle" /\ invoice[k] # "ABSENT"
    /\ Become(p, "read", Request(k, h))
    /\ UNCHANGED <<storeVars, invoiceVars>>

ReadInvoice(p) ==
    LET k == local[p].key IN
    /\ pc[p] = "read"
    /\ Become(p, "intentRead", [local[p] EXCEPT !.seen = invoice[k], !.paid = payment[k]])
    /\ UNCHANGED <<storeVars, invoiceVars>>

(* getByTransactionHash and the comparison with the invoice's publicId *)
IntentRead(p) ==
    LET mine == transactionHash[local[p].key] = local[p].hash IN
    /\ pc[p] = "intentRead"
    /\ \/ mine /\ Jump(p, "beginRead")
       \/ ~mine /\ Answer(p)
    /\ UNCHANGED <<storeVars, invoiceVars>>

(* beginVerification of an intent whose hash is bound *)
BeginRead(p) ==
    /\ pc[p] = "beginRead"
    /\ Jump(p, IF status[local[p].key] = "SUBMITTED" THEN "beginWrite" ELSE "expire")
    /\ UNCHANGED <<storeVars, invoiceVars>>

BeginWrite(p) ==
    LET k == local[p].key IN
    /\ pc[p] = "beginWrite"
    /\ \/ AdvanceWrite(k, "SUBMITTED") /\ Jump(p, "expire")
       \/ status[k] # "SUBMITTED" /\ Answer(p) /\ UNCHANGED storeVars
    /\ UNCHANGED invoiceVars

(* assertAcceptsPayment, of the snapshot *)
Accepts(s, late) == s = "VERIFYING" \/ (s = "OPEN" /\ ~late)

Expire(p) ==
    LET k == local[p].key
        row == local[p].paid
        open == Accepts(local[p].seen, overdue[k])
        done == row = Payment("VERIFIED", local[p].hash) /\ (local[p].seen = "PAID" \/ open) IN
    /\ pc[p] = "expire"
    /\ ExpireOpen(k)
    /\ \/ done /\ Answer(p)
       \/ ~done /\ (~open \/ row.hash \notin {NoHash, local[p].hash}) /\ Answer(p)
       \/ ~done /\ open /\ row = NoPayment /\ Jump(p, "reuseRead")
       \/ ~done /\ open /\ row.hash = local[p].hash /\ Jump(p, "receipt")
    /\ UNCHANGED <<storeVars, overdue, payment>>

ReuseRead(p) ==
    LET reused == \E l \in Keys \ {local[p].key} : payment[l].hash = local[p].hash IN
    /\ pc[p] = "reuseRead"
    /\ IF reused THEN Answer(p) ELSE Jump(p, "lock")
    /\ UNCHANGED <<storeVars, invoiceVars>>

(* The transaction that takes the invoice from OPEN to VERIFYING and        *)
(* creates its payment.  A unique-index error rolls it back; the request    *)
(* goes on if the row that was there is its own.                            *)
UncheckedLock(p) ==   \* variant: the payment is created whatever the update counted
    LET k == local[p].key IN
    /\ pc[p] = "lock"
    /\ invoice' = [invoice EXCEPT ![k] = IF @ = "OPEN" THEN "VERIFYING" ELSE @]
    /\ payment' = [payment EXCEPT ![k] = Payment("VERIFYING", local[p].hash)]
    /\ Jump(p, "receipt")
    /\ UNCHANGED <<storeVars, overdue>>

Lock(p) ==
    LET k == local[p].key
        h == local[p].hash
        taken == payment[k] # NoPayment \/ \E l \in Keys : payment[l].hash = h IN
    /\ pc[p] = "lock"
    /\ \/ /\ invoice[k] = "OPEN"
          /\ IF taken
             THEN /\ IF payment[k].hash = h THEN Jump(p, "receipt") ELSE Answer(p)
                  /\ UNCHANGED <<invoice, payment>>
             ELSE /\ invoice' = [invoice EXCEPT ![k] = "VERIFYING"]
                  /\ payment' = [payment EXCEPT ![k] = Payment("VERIFYING", h)]
                  /\ Jump(p, "receipt")
       \/ invoice[k] # "OPEN" /\ Answer(p) /\ UNCHANGED <<invoice, payment>>
    /\ UNCHANGED <<storeVars, overdue>>

(* InvoicePaymentVerifierService.verify: one transfer to the merchant of    *)
(* the exact amount from somebody else.  A missing receipt, too few         *)
(* confirmations and any RPC failure are retryable.                         *)
PaysTerms(h, k) == chain[h] = "success" /\ Pays[h] \in Terms[k] \ SelfTransfers

Receipt(p) ==
    LET h == local[p].hash
        exact == PaysTerms(h, local[p].key) IN
    /\ pc[p] = "receipt"
    /\ \/ exact /\ Jump(p, "completeRead")
       \/ chain[h] # "unseen" /\ ~exact /\ Jump(p, "reject")
       \/ Jump(p, "retry")
    /\ UNCHANGED <<storeVars, invoiceVars>>

OnlyVerifying(p) ==   \* variant: a COMPLETED intent is a mismatch
    /\ pc[p] = "completeRead"
    /\ \/ status[local[p].key] = "VERIFYING" /\ Jump(p, "completeWrite")
       \/ status[local[p].key] # "VERIFYING" /\ Answer(p)
    /\ UNCHANGED <<storeVars, invoiceVars>>

CompleteRead(p) ==
    LET k == local[p].key
        same == transactionHash[k] = local[p].hash /\ Pays[local[p].hash] = payload[k] IN
    /\ pc[p] = "completeRead"
    /\ \/ same /\ status[k] = "COMPLETED" /\ Jump(p, "settle")
       \/ same /\ status[k] = "VERIFYING" /\ Jump(p, "completeWrite")
       \/ (~same \/ status[k] \notin {"COMPLETED", "VERIFYING"}) /\ Answer(p)
    /\ UNCHANGED <<storeVars, invoiceVars>>

CompleteUpdate(p) ==
    LET k == local[p].key IN
    /\ pc[p] = "completeWrite"
    /\ \/ CompleteWrite(k) /\ Jump(p, "settle")
       \/ status[k] # "VERIFYING" /\ Answer(p) /\ UNCHANGED storeVars
    /\ UNCHANGED invoiceVars

(* invoicePayment.updateMany WHERE invoiceId, transactionHash and a status  *)
(* other than VERIFIED                                                      *)
SetPayment(p, s) ==
    payment' = [payment EXCEPT ![local[p].key] =
                  IF @.hash = local[p].hash /\ @.status \in {"VERIFYING", "REJECTED"}
                  THEN Payment(s, @.hash) ELSE @]

(* The transaction that records the payment and closes the invoice. *)
Settle(p) ==
    /\ pc[p] = "settle"
    /\ SetPayment(p, "VERIFIED")
    /\ invoice' = [invoice EXCEPT ![local[p].key] = IF @ = "VERIFYING" THEN "PAID" ELSE @]
    /\ Answer(p)
    /\ UNCHANGED <<storeVars, overdue>>

Retry(p) ==
    /\ pc[p] = "retry"
    /\ SetPayment(p, "VERIFYING")
    /\ Answer(p)
    /\ UNCHANGED <<storeVars, invoice, overdue>>

Reject(p) ==
    /\ pc[p] = "reject"
    /\ SetPayment(p, "REJECTED")
    /\ Answer(p)
    /\ UNCHANGED <<storeVars, invoice, overdue>>

-----------------------------------------------------------------------------
(* The backend restarts at an await. *)
Crash(p) == pc[p] # "idle" /\ Answer(p) /\ UNCHANGED <<storeVars, invoiceVars>>

(* The statements /execution-intents requests issue on settlement intents. *)
OtherRequests ==
    /\ \E k \in Keys :
        /\ Exists(k)
        /\ \/ \E s \in Statuses : PrepareWrite(k, s) \/ AdvanceWrite(k, s)
           \/ \E h \in Hashes : BindWrite(k, h)
           \/ CancelWrite(k)
    /\ UNCHANGED <<invoiceVars, handlerVars>>

Chain == /\ \E h \in Hashes : \E outcome \in {"success", "reverted"} : Mine(h, outcome)
         /\ UNCHANGED <<invoiceVars, handlerVars>>

Step(p) ==
    \/ CancelExpire(p) \/ CancelUpdate(p)
    \/ ReadInvoice(p) \/ IntentRead(p) \/ BeginRead(p) \/ BeginWrite(p)
    \/ Expire(p) \/ ReuseRead(p) \/ Lock(p) \/ Receipt(p)
    \/ CompleteRead(p) \/ CompleteUpdate(p)
    \/ Settle(p) \/ Retry(p) \/ Reject(p)

Next ==
    \/ \E k \in Keys : \/ Create(k) \/ Deadline(k) \/ Read(k)
                       \/ \E d \in Payloads : AcquireSettlement(k, d)
    \/ \E p \in Handlers :
        \/ \E k \in Keys : CancelRequest(p, k) \/ \E h \in Hashes : VerifyRequest(p, k, h)
        \/ Step(p)
        \/ Crash(p)
    \/ OtherRequests
    \/ Chain

Spec == Init /\ [][Next]_vars

(* The event loop runs every continuation; the backend does not crash for   *)
(* ever; the payer's page goes on verifying the hash it recorded            *)
(* (useInvoicePayment, on load and by timer) and the RPC does not go on     *)
(* failing for ever.  Some answers look like a crash, so the second is: in  *)
(* the end every request ends by a step of its own.                         *)
Reverify(p) == \E k \in Keys : \E h \in Hashes :
                    transactionHash[k] = h /\ VerifyRequest(p, k, h)
Confirmed(p) == Receipt(p) /\ pc'[p] = "completeRead"

Fairness ==
    /\ \A p \in Handlers : /\ WF_vars(Step(p))
                           /\ SF_vars(Reverify(p))
                           /\ SF_vars(Confirmed(p))
    /\ <>[][\A p \in Handlers : Crash(p) => Step(p)]_vars

FairSpec == Spec /\ Fairness

-----------------------------------------------------------------------------
TypeOK ==
    /\ StoreTypeOK
    /\ invoice \in [Keys -> InvoiceStatuses \cup {"ABSENT"}]
    /\ overdue \in [Keys -> BOOLEAN]
    /\ payment \in [Keys -> PaymentRows]
    /\ pc \in [Handlers -> Labels]
    /\ local \in [Handlers -> Locals]

(* An invoice is marked paid only for a transaction that was verified to    *)
(* pay its terms, from the payer the intent was acquired for and not from   *)
(* the merchant, and whose intent is completed (verifyPublicPayment).       *)
PaidIsSettled ==
    \A k \in Keys : invoice[k] = "PAID" =>
        /\ status[k] = "COMPLETED"
        /\ payment[k] = Payment("VERIFIED", transactionHash[k])
        /\ ReceiptMatches(transactionHash[k], payload[k])
        /\ payload[k] \in Terms[k] \ SelfTransfers

(* The two rows move together: an invoice has a payment exactly when it is  *)
(* being paid or paid, the payment is the intent's own transaction, and it  *)
(* is VERIFIED exactly when the invoice is PAID.  A cancellation or an      *)
(* expiry that races a verification never strands a payment row.            *)
PaymentFollowsInvoice ==
    \A k \in Keys :
        /\ payment[k] # NoPayment <=> invoice[k] \in {"VERIFYING", "PAID"}
        /\ payment[k] # NoPayment => payment[k].hash = transactionHash[k]
        /\ payment[k].status = "VERIFIED" <=> invoice[k] = "PAID"

(* An intent is completed only behind an invoice that was locked for it: no *)
(* payment is consumed for an invoice that is cancelled or expired.         *)
CompletedIsLocked ==
    \A k \in Keys : status[k] = "COMPLETED" => invoice[k] \in {"VERIFYING", "PAID"}

(* The rows of an invoice, its payment and its intent agree, whatever       *)
(* requests overlap: types, paid only by a verified transfer, payment and   *)
(* invoice together, and nothing consumed without the lock.                 *)
InvoiceRowsAgree ==
    /\ TypeOK
    /\ PaidIsSettled
    /\ PaymentFollowsInvoice
    /\ CompletedIsLocked

(* PAID, EXPIRED and CANCELLED are for ever, a locked invoice can only      *)
(* become PAID, and a verified payment is never taken back by a slower      *)
(* request that found the receipt missing or refused it (Retry, Reject).    *)
NextInvoiceStatuses(s) ==
    CASE s = "ABSENT" -> {"ABSENT", "OPEN"}
      [] s = "OPEN" -> {"OPEN", "VERIFYING", "EXPIRED", "CANCELLED"}
      [] s = "VERIFYING" -> {"VERIFYING", "PAID"}
      [] OTHER -> {s}

InvoiceMovesForward ==
    [][\A k \in Keys :
         /\ invoice'[k] \in NextInvoiceStatuses(invoice[k])
         /\ payment[k].status = "VERIFIED" => payment'[k] = payment[k]]_vars

(* A crash between the completion of the intent and the transaction that    *)
(* marks the invoice paid is repaired by verifying the same hash again.     *)
CompletedIsPaid == \A k \in Keys : status[k] = "COMPLETED" ~> invoice[k] = "PAID"
=============================================================================
