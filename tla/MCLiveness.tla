----------------------------- MODULE MCLiveness -----------------------------
(* The payer's side of a payment, to its end: the public checkout of an     *)
(* invoice, one group of a payroll run, the page around the runs, and the   *)
(* backend's repair of an invoice whose intent is already completed.  They  *)
(* do not interact here: a behaviour is one of a single component, the      *)
(* others stay where they start.                                            *)
EXTENDS InvoiceCheckout, PayrollRun, PayrollScreen

CONSTANTS k1, h1, d1, p1, noHash, noOwner, noPayload, noKey

VARIABLES focus,
          iStatus, iPayload, iHash, iOwner, iLive, iGrants, iChain,
          iInvoice, iOverdue, iPayment, iPc, iLocal

(* One invoice, one request at a time and one transaction that pays it. *)
I == INSTANCE InvoiceSettlement WITH
        Keys <- {k1}, Hashes <- {h1}, Payloads <- {d1}, Owners <- {}, Handlers <- {p1},
        Terms <- [k \in {k1} |-> {d1}], SelfTransfers <- {}, Pays <- [h \in {h1} |-> d1],
        NoHash <- noHash, NoOwner <- noOwner, NoPayload <- noPayload, NoKey <- noKey,
        status <- iStatus, payload <- iPayload, transactionHash <- iHash, leaseOwner <- iOwner,
        leaseLive <- iLive, walletGrants <- iGrants, chain <- iChain,
        invoice <- iInvoice, overdue <- iOverdue, payment <- iPayment, pc <- iPc, local <- iLocal

invoicesVars == <<iStatus, iPayload, iHash, iOwner, iLive, iGrants, iChain,
                  iInvoice, iOverdue, iPayment, iPc, iLocal>>

(* Two tabs with one wallet or with two. *)
MCConnections == {[c \in Checkouts |-> "p1"],
                  [c \in Checkouts |-> IF c = "c1" THEN "p1" ELSE "p2"]}

MCAmounts == <<4, 4>>

MCInit ==
    /\ focus \in {"invoices", "checkout", "run", "screen"}
    /\ I!Init /\ CheckoutInit /\ RunInit /\ ScreenInit
    /\ focus # "checkout" => sharing /\ payer = [c \in Checkouts |-> "p1"]
    /\ focus # "run" => route = "same"

MCNext ==
    /\ UNCHANGED focus
    /\ IF focus = "invoices" THEN I!Next ELSE UNCHANGED invoicesVars
    /\ IF focus = "checkout" THEN CheckoutNext ELSE UNCHANGED checkoutVars
    /\ IF focus = "run" THEN RunNext ELSE UNCHANGED runVars
    /\ IF focus = "screen" THEN ScreenNext ELSE UNCHANGED screenVars

(* The fairness of the components (InvoiceSettlement's Fairness,            *)
(* CheckoutFairness, RunFairness), each while it is the one that runs.      *)
MCFairness ==
    /\ WF_invoicesVars(focus = "invoices" /\ I!Step(p1))
    /\ SF_invoicesVars(focus = "invoices" /\ I!Reverify(p1))
    /\ SF_invoicesVars(focus = "invoices" /\ I!Confirmed(p1))
    /\ <>[][focus = "invoices" => (I!Crash(p1) => I!Step(p1))]_invoicesVars
    /\ \A c \in Checkouts : WF_checkoutVars(focus = "checkout" /\ VerifyStep(c))
    /\ \A t \in Tabs : WF_runVars(focus = "run" /\ TabStep(t))
    /\ WF_runVars(focus = "run" /\ ChainStep)

MCSpec ==
    MCInit /\ [][MCNext]_<<invoicesVars, checkoutVars, runVars, screenVars, focus>> /\ MCFairness

(* A crash between the completion of the intent and the transaction that    *)
(* marks the invoice paid is repaired by verifying the same hash again      *)
(* (verifyPublicPayment; InvoiceSettlement).                                *)
CompletedIsPaid == I!CompletedIsPaid

(* A payment that was made is settled: in the backend from the completed    *)
(* intent, on the page from a hash it knows.                                *)
PaymentsSettle == CompletedIsPaid /\ KnownPaymentSettles
=============================================================================
