-------------------------- MODULE InvoiceCheckout ---------------------------
(***************************************************************************)
(* The public checkout of one invoice (PublicInvoiceCheckout.tsx and       *)
(* useInvoicePayment.ts): several tabs, of one or of two payers, ask for   *)
(* the invoice's execution intent, open the wallet, bind the hash and poll *)
(* the backend's verification with a bounded number of automatic checks.   *)
(* The backend's own steps are the subject of InvoiceSettlement and        *)
(* ExecutionIntent; here each request is one step.                         *)
(***************************************************************************)
EXTENDS Naturals, Sequences, FiniteSets

CONSTANTS
  Checkouts,         \* open tabs
  Connections,       \* which wallet each tab may be connected with
  MaxChecks,         \* MAX_AUTOMATIC_CHECKS
  MaxLoads,          \* bound on page loads after the first
  MaxCheckoutFaults  \* bound on verifications that fail on the way

VARIABLES
  payer,       \* payer[c]: the wallet connected in tab c
  sharing,     \* the tabs belong to one browser and share localStorage
  invoice,     \* the public invoice: [status, hash]
  intent,      \* its one execution intent: [status, payer, hash]
  tab,         \* tab[c]: React state, refs and the call under way
  saved,       \* saved[c]: the recovery record tab c can read
  transfers,   \* transactions broadcast: [payer, outcome]
  prompts,     \* how often a wallet was opened for this invoice
  givenUp,     \* the payer asked for the intent to be cancelled
  loads,
  checkoutFaults

checkoutVars == <<payer, sharing, invoice, intent, tab, saved, transfers, prompts,
                  givenUp, loads, checkoutFaults>>

NoRecord == [present |-> FALSE, hash |-> 0]
Record(h) == [present |-> TRUE, hash |-> h]

(* known is the invoice status in React state; at the next step of pay();  *)
(* tx the hash in React state, sent the one only the pay() under way has;  *)
(* timer a scheduled automatic check; verifying a verification under way.  *)
NewTab == [known |-> "OPEN", locked |-> FALSE, signed |-> FALSE, at |-> "none",
           recovery |-> NoRecord, tx |-> 0, sent |-> 0, attempts |-> 0, timer |-> FALSE,
           verifying |-> FALSE, stage |-> "ready", cancelling |-> FALSE]

CheckoutInit ==
  /\ payer \in Connections
  /\ sharing \in BOOLEAN
  /\ invoice = [status |-> "OPEN", hash |-> 0]
  /\ intent = [status |-> "ABSENT", payer |-> "none", hash |-> 0]
  /\ tab = [c \in Checkouts |-> NewTab]
  /\ saved = [c \in Checkouts |-> NoRecord]
  /\ transfers = <<>>
  /\ prompts = 0
  /\ givenUp = FALSE
  /\ loads = 0
  /\ checkoutFaults = 0

\* localStorage is one per browser.
Save(c, r) ==
  saved' = [d \in Checkouts |-> IF d = c \/ sharing THEN r ELSE saved[d]]

CheckoutFault ==
  /\ checkoutFaults < MaxCheckoutFaults
  /\ checkoutFaults' = checkoutFaults + 1

\* The stage a loaded page shows, and the verification it starts.
LoadedTab(c) ==
  LET s == invoice.status
      r == saved[c]
      resolved == s \in {"PAID", "CLOSED"}
      recovered == ~resolved /\ r.present
  IN [NewTab EXCEPT
        !.known = s,
        !.locked = s # "OPEN" \/ recovered,
        !.signed = recovered,
        !.recovery = IF recovered THEN r ELSE NoRecord,
        !.tx = IF s = "PAID" THEN invoice.hash ELSE IF recovered THEN r.hash ELSE 0,
        !.verifying = recovered /\ r.hash # 0,
        !.stage = IF resolved THEN "settled"
                  ELSE IF recovered \/ s = "VERIFYING" THEN "recoverable_error" ELSE "ready"]

\* getPublicInvoice and the mount effect; a reload drops everything else.
LoadCheckout(c) ==
  /\ loads < MaxLoads
  /\ tab' = [tab EXCEPT ![c] = LoadedTab(c)]
  /\ IF invoice.status = "PAID" THEN Save(c, NoRecord) ELSE UNCHANGED saved
  /\ loads' = loads + 1
  /\ UNCHANGED <<payer, sharing, invoice, intent, transfers, prompts, givenUp, checkoutFaults>>

InFlight(c) == tab[c].at # "none" \/ tab[c].verifying

\* PaymentButton and pay(): the click, up to the acquire request.
PressPay(c) ==
  /\ ~tab[c].locked
  /\ ~InFlight(c) /\ ~tab[c].signed /\ tab[c].known = "OPEN"
  /\ tab' = [tab EXCEPT ![c].at = "acquire"]
  /\ UNCHANGED <<payer, sharing, invoice, intent, saved, transfers, prompts, givenUp, loads,
                 checkoutFaults>>

\* pay()'s catch: the stage changes only while no wallet was opened.
PayFailed(c) == [tab[c] EXCEPT !.at = "none",
                   !.stage = IF tab[c].signed THEN @ ELSE "recoverable_error"]

\* The logical key of an invoice names no wallet: the first payer's request
\* creates the row, any other payer's has another fingerprint.
AcquirePay(c) ==
  /\ tab[c].at = "acquire"
  /\ \/ /\ intent.status = "ABSENT" /\ invoice.status = "OPEN"
        /\ intent' = [status |-> "CREATED", payer |-> payer[c], hash |-> 0]
        /\ tab' = [tab EXCEPT ![c].at = "prepare"]
     \/ /\ intent.status # "ABSENT" /\ intent.payer = payer[c]
        /\ tab' = [tab EXCEPT ![c].at = "prepare"]
        /\ UNCHANGED intent
     \/ /\ IF intent.status = "ABSENT" THEN invoice.status # "OPEN" ELSE intent.payer # payer[c]
        /\ tab' = [tab EXCEPT ![c] = PayFailed(c)]
        /\ UNCHANGED intent
  /\ UNCHANGED <<payer, sharing, invoice, saved, transfers, prompts, givenUp, loads,
                 checkoutFaults>>

\* variant: an unresolved prompt may be opened again
CheckoutPrepareAgain(s) == s \in {"CREATED", "FAILED_RETRYABLE", "AWAITING_WALLET_SIGNATURE"}

CheckoutPrepare(s) == s \in {"CREATED", "FAILED_RETRYABLE"}

PreparePay(c) ==
  /\ tab[c].at = "prepare"
  /\ IF CheckoutPrepare(intent.status)
     THEN /\ intent' = [intent EXCEPT !.status = "AWAITING_WALLET_SIGNATURE"]
          /\ tab' = [tab EXCEPT ![c].at = "prepared"]
     ELSE tab' = [tab EXCEPT ![c] = PayFailed(c)] /\ UNCHANGED intent
  /\ UNCHANGED <<payer, sharing, invoice, saved, transfers, prompts, givenUp, loads,
                 checkoutFaults>>

\* The grant arrives: the record is written, then the wallet opens.
OpenWallet(c) ==
  /\ tab[c].at = "prepared"
  /\ tab' = [tab EXCEPT ![c].at = "wallet", ![c].signed = TRUE, ![c].locked = TRUE,
                        ![c].recovery = Record(0), ![c].stage = "awaiting_signature"]
  /\ Save(c, Record(0))
  /\ prompts' = prompts + 1
  /\ UNCHANGED <<payer, sharing, invoice, intent, transfers, givenUp, loads, checkoutFaults>>

\* writeContractAsync broadcasts; the page learns the hash in the next step.
PayBroadcast(c) ==
  /\ tab[c].at = "wallet"
  /\ transfers' = Append(transfers, [payer |-> payer[c], outcome |-> "pending"])
  /\ tab' = [tab EXCEPT ![c].at = "bind", ![c].sent = Len(transfers) + 1]
  /\ UNCHANGED <<payer, sharing, invoice, intent, saved, prompts, givenUp, loads,
                 checkoutFaults>>

PayRejected(c) ==
  /\ tab[c].at \in {"wallet", "bind"}
  /\ tab' = [tab EXCEPT ![c] = PayFailed(c)]
  /\ UNCHANGED <<payer, sharing, invoice, intent, saved, transfers, prompts, givenUp, loads,
                 checkoutFaults>>

\* The hash is bound first and recorded after; then verification starts.
BindPay(c) ==
  LET h == tab[c].sent
  IN /\ tab[c].at = "bind"
     /\ intent.hash \in {0, h}
     /\ intent' = [intent EXCEPT !.hash = h, !.status = "SUBMITTED"]
     /\ Save(c, Record(h))
     /\ tab' = [tab EXCEPT ![c].at = "none", ![c].tx = h, ![c].recovery = Record(h),
                           ![c].locked = TRUE, ![c].attempts = 0, ![c].verifying = TRUE,
                           ![c].stage = "verifying_payment"]
     /\ UNCHANGED <<payer, sharing, invoice, transfers, prompts, givenUp, loads,
                    checkoutFaults>>

(* ------------------------------ verification ---------------------------- *)

\* variant: a failed check waits for the user
NoRetry(t) == [t EXCEPT !.verifying = FALSE, !.stage = "recoverable_error"]

\* 429 and 503 schedule another automatic check while there are any left.
Retried(t) ==
  [t EXCEPT !.verifying = FALSE, !.stage = "recoverable_error",
            !.timer = t.attempts < MaxChecks \/ t.timer,
            !.attempts = IF t.attempts < MaxChecks THEN @ + 1 ELSE @]

CheckoutEnded(t) == [t EXCEPT !.verifying = FALSE, !.stage = "terminal_error"]

\* verifyPublicInvoicePayment and what verify() does with its answer. A call
\* that fails is retried after 429 and 503, never after a lost connection.
AnswerVerify(c) ==
  LET h == tab[c].tx
      outcome == transfers[h].outcome
      accepts == invoice.status \in {"OPEN", "VERIFYING"} /\ intent.hash = h
      claims  == [invoice EXCEPT !.status = "VERIFYING", !.hash = h]
  IN /\ tab[c].verifying
     /\ \/ /\ (invoice.status = "PAID" /\ invoice.hash = h) \/ (accepts /\ outcome = "success")
           /\ invoice' = [status |-> "PAID", hash |-> h]
           /\ tab' = [tab EXCEPT ![c].verifying = FALSE, ![c].known = "PAID",
                                 ![c].timer = FALSE, ![c].recovery = NoRecord,
                                 ![c].stage = "settled"]
           /\ Save(c, NoRecord)
           /\ UNCHANGED checkoutFaults
        \/ /\ accepts /\ outcome = "pending"
           /\ invoice' = claims
           /\ tab' = [tab EXCEPT ![c] = Retried(tab[c])]
           /\ UNCHANGED <<saved, checkoutFaults>>
        \/ /\ IF accepts THEN outcome = "reverted" /\ invoice' = claims
              ELSE ~(invoice.status = "PAID" /\ invoice.hash = h) /\ UNCHANGED invoice
           /\ tab' = [tab EXCEPT ![c] = CheckoutEnded(tab[c])]
           /\ UNCHANGED <<saved, checkoutFaults>>
        \/ /\ CheckoutFault
           /\ \E after \in {Retried(tab[c]), CheckoutEnded(tab[c])} : tab' = [tab EXCEPT ![c] = after]
           /\ UNCHANGED <<invoice, saved>>
     /\ UNCHANGED <<payer, sharing, intent, transfers, prompts, givenUp, loads>>

\* The timer fires; a check already in flight swallows it.
AutomaticCheck(c) ==
  /\ tab[c].timer
  /\ tab' = [tab EXCEPT ![c].timer = FALSE, ![c].verifying = @ \/ tab[c].at = "none"]
  /\ UNCHANGED <<payer, sharing, invoice, intent, saved, transfers, prompts, givenUp, loads,
                 checkoutFaults>>

\* "Check status now".
ManualCheck(c) ==
  /\ tab[c].tx # 0 /\ tab[c].known # "PAID"
  /\ ~InFlight(c)
  /\ tab' = [tab EXCEPT ![c].verifying = TRUE]
  /\ UNCHANGED <<payer, sharing, invoice, intent, saved, transfers, prompts, givenUp, loads,
                 checkoutFaults>>

(* -------------------------------- recovery ------------------------------ *)

NeedsHash(c) == /\ tab[c].recovery.present /\ tab[c].recovery.hash = 0
                /\ ~tab[c].cancelling

\* recoverExternalHash with a hash the payer found in the wallet.
RecoverHash(c, h) ==
  /\ NeedsHash(c) /\ ~tab[c].verifying
  /\ intent.hash \in {0, h} /\ intent.status # "CANCELLED"
  /\ intent' = [intent EXCEPT !.hash = h, !.status = "SUBMITTED"]
  /\ Save(c, Record(h))
  /\ tab' = [tab EXCEPT ![c].recovery = Record(h), ![c].tx = h,
                        ![c].verifying = tab[c].at = "none"]
  /\ UNCHANGED <<payer, sharing, invoice, transfers, prompts, givenUp, loads, checkoutFaults>>

\* cancelExternalRecovery: the request, refused once a hash is bound...
AskCancelPay(c) ==
  /\ NeedsHash(c)
  /\ intent.hash = 0 /\ intent.status \in {"CREATED", "AWAITING_WALLET_SIGNATURE"}
  /\ intent' = [intent EXCEPT !.status = "CANCELLED"]
  /\ givenUp' = TRUE
  /\ tab' = [tab EXCEPT ![c].cancelling = TRUE]
  /\ UNCHANGED <<payer, sharing, invoice, saved, transfers, prompts, loads, checkoutFaults>>

\* ...and its answer.
PayCancelled(c) ==
  /\ tab[c].cancelling
  /\ Save(c, NoRecord)
  /\ tab' = [tab EXCEPT ![c].cancelling = FALSE, ![c].recovery = NoRecord,
                        ![c].signed = FALSE, ![c].locked = FALSE, ![c].stage = "ready"]
  /\ UNCHANGED <<payer, sharing, invoice, intent, transfers, prompts, givenUp, loads,
                 checkoutFaults>>

\* The merchant cancels an OPEN invoice, or it expires: alike to a payer.
CloseInvoice ==
  /\ invoice.status = "OPEN"
  /\ invoice' = [invoice EXCEPT !.status = "CLOSED"]
  /\ UNCHANGED <<payer, sharing, intent, tab, saved, transfers, prompts, givenUp, loads,
                 checkoutFaults>>

MinePay(h, outcome) ==
  /\ transfers[h].outcome = "pending"
  /\ transfers' = [transfers EXCEPT ![h].outcome = outcome]
  /\ UNCHANGED <<payer, sharing, invoice, intent, tab, saved, prompts, givenUp, loads,
                 checkoutFaults>>

VerifyStep(c) == AnswerVerify(c) \/ AutomaticCheck(c)

CheckoutNext ==
  \/ \E c \in Checkouts :
       \/ LoadCheckout(c) \/ PressPay(c) \/ AcquirePay(c) \/ PreparePay(c) \/ OpenWallet(c)
       \/ PayBroadcast(c) \/ PayRejected(c) \/ BindPay(c)
       \/ AnswerVerify(c) \/ AutomaticCheck(c) \/ ManualCheck(c)
       \/ AskCancelPay(c) \/ PayCancelled(c)
       \/ \E h \in DOMAIN transfers : RecoverHash(c, h)
  \/ CloseInvoice
  \/ \E h \in DOMAIN transfers : \E outcome \in {"success", "reverted"} : MinePay(h, outcome)

(* Timers fire and answers arrive while the page stays open. *)
CheckoutFairness == \A c \in Checkouts : WF_checkoutVars(VerifyStep(c))

CheckoutSpec == CheckoutInit /\ [][CheckoutNext]_checkoutVars /\ CheckoutFairness

(* ------------------------------ properties ------------------------------ *)

\* A wallet is opened at most once for an invoice, over all its payers, tabs
\* and reloads: nothing but the payer's own second look at the wallet can
\* make it pay twice.
OneCheckoutPrompt == prompts <= 1

\* A page that has begun to check a successful payment, with more automatic
\* checks left than calls that may still fail, gets the invoice paid without
\* the payer's help, unless the payer asked to cancel or the page shows a
\* terminal error: overlapping manual and automatic checks never leave it
\* without a next check.
KnownPaymentSettles ==
  \A c \in Checkouts :
    ( /\ tab[c].tx # 0 /\ (tab[c].verifying \/ tab[c].timer)
      /\ transfers[tab[c].tx].outcome = "success"
      /\ tab[c].attempts + (MaxCheckoutFaults - checkoutFaults) < MaxChecks )
    ~> (\/ invoice.status \notin {"OPEN", "VERIFYING"} \/ givenUp
        \/ tab[c].tx = 0 \/ tab[c].stage = "terminal_error")
=============================================================================
