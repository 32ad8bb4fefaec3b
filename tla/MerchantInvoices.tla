--------------------------- MODULE MerchantInvoices ---------------------------
(***************************************************************************)
(* The merchant's invoice pages over the merchant endpoints of the backend: *)
(*   list     app/invoices: a filter, pages of PageSize, Previous and Next; *)
(*   detail   app/invoices/[id]: one invoice and its Cancel button;         *)
(*   new      app/invoices/new: the form, its preview, the created panel.   *)
(* A behaviour has one of them open in one tab.  Nothing aborts a request   *)
(* and nothing numbers the answers: a page shows whichever answer comes     *)
(* last, while the wallet session, the filter or the invoice has moved on.  *)
(* Payments, expiry and the merchant's other tabs change the rows at any    *)
(* time; InvoiceSettlement has the paths by which payments do.              *)
(***************************************************************************)
EXTENDS Integers, Sequences, FiniteSets

CONSTANTS
    Merchants,      \* wallets that can authenticate
    PageSize,       \* PAGE_SIZE
    Zones,          \* time zones of the browser: local time minus UTC
    AmountTexts,    \* what is typed as the amount: [whole, frac, digits, padded],
                    \* "0007.50" being [whole |-> 7, frac |-> 50, digits |-> 2, padded |-> TRUE]
    LocalTimes,     \* what is typed as the expiry
    DefaultExpiry,  \* DEFAULT_EXPIRY_MS
    MaxExpiry,      \* MAX_EXPIRY_MS
    Old,            \* rows at the start: a sequence of [owner, status]
    MaxAsked,      \* bound, for each page: its requests
    MaxMishaps,     \* bound, for each page: session changes, lost calls, events elsewhere
    NoOne           \* no session; no invoice; no expiry typed

FinalStatuses == {"PAID", "EXPIRED", "CANCELLED"}

ASSUME MerchantAssumption ==
    /\ PageSize \in Nat \ {0} /\ Zones \subseteq Int /\ LocalTimes \subseteq Int
    /\ DefaultExpiry \in Int
    /\ AmountTexts \subseteq [whole : Nat, frac : Nat, digits : Nat, padded : BOOLEAN]
    /\ Old \in Seq([owner : Merchants, status : {"OPEN", "VERIFYING"} \cup FinalStatuses])
    /\ Old # <<>>                                        \* the invoice of the detail page
    /\ NoOne \notin Merchants /\ NoOne \notin Int

VARIABLES
    openPage,    \* "list", "detail" or "new"
    merchant,    \* useMerchantInvoiceSession: the authenticated wallet or NoOne
    invoiceRows, \* the Invoice table, in order of creation
    invoiceNow,  \* the clock, in UTC
    calls,       \* the page's requests, in order: what was asked, how far it is, the answer
    applied,     \* the request whose answer was shown last, 0 if none
    listPage,
    walk,        \* history: rows there when the first page was read, rows shown since
    detailPage,
    newPage,
    mishaps      \* how many of them so far

merchantVars == <<openPage, merchant, invoiceRows, invoiceNow, calls, applied, listPage, walk,
                  detailPage, newPage, mishaps>>

NoWalk == [rows |-> {}, seen |-> {}, on |-> FALSE]

MerchantInit ==
    /\ openPage \in {"list", "detail", "new"}
    /\ merchant \in Merchants \cup {NoOne}
    /\ invoiceRows = [i \in DOMAIN Old |-> [owner |-> Old[i].owner, status |-> Old[i].status,
                                            units |-> 1, expiresAt |-> 1, call |-> 0]]
    /\ invoiceNow = 0
    /\ calls = <<>> /\ applied = 0
    /\ listPage = [filter |-> "All", offset |-> 0, items |-> {}, total |-> 0,
                   loading |-> FALSE, error |-> FALSE, due |-> TRUE]
    /\ walk = NoWalk
    /\ detailPage = [invoice |-> NoOne, loading |-> FALSE, cancelling |-> FALSE,
                     error |-> FALSE, due |-> TRUE]
    /\ \E z \in Zones, a \in AmountTexts :
         newPage = [amount |-> a, expiry |-> NoOne, submitting |-> FALSE, created |-> NoOne,
                    error |-> FALSE, zone |-> z, minimumExpiry |-> invoiceNow + 1]
    /\ mishaps = 0

Waiting == {n \in DOMAIN calls : calls[n].at # "shown"}

(* A request of the page under the session's token *)
PageAsks(asked, query) ==
    /\ Len(calls) < MaxAsked[openPage]
    /\ calls' = Append(calls, [asked |-> asked, does |-> asked, as |-> merchant, query |-> query,
                               at |-> "sent", answer |-> NoOne, total |-> 0, found |-> {}])

Mishap == mishaps < MaxMishaps[openPage] /\ mishaps' = mishaps + 1

-----------------------------------------------------------------------------
(* app/invoices *)
(* load, from the effect's timer or the Retry button.  The effect is        *)
(* scheduled anew whenever the filter, the offset or the session changes.   *)
LoadList ==
    /\ openPage = "list"
    /\ listPage.due \/ (listPage.error /\ ~listPage.loading /\ merchant # NoOne)
    /\ IF merchant = NoOne
       THEN listPage' = [listPage EXCEPT !.due = FALSE] /\ UNCHANGED calls
       ELSE /\ listPage' = [listPage EXCEPT !.due = FALSE, !.loading = TRUE, !.error = FALSE]
            /\ PageAsks("list", [filter |-> listPage.filter, offset |-> listPage.offset])
    /\ UNCHANGED <<openPage, merchant, invoiceRows, invoiceNow, applied, walk, detailPage,
                   newPage, mishaps>>

OtherThanListState == UNCHANGED <<openPage, merchant, invoiceRows, invoiceNow, calls, applied,
                                  detailPage, newPage, mishaps>>

ShowPage(filter, offset) ==
    listPage' = [listPage EXCEPT !.filter = filter, !.offset = offset,
                                 !.due = @ \/ <<filter, offset>> # <<listPage.filter, listPage.offset>>]

(* The last request has been answered, nothing else is under way.           *)
ListSettled ==
    /\ openPage = "list" /\ merchant # NoOne
    /\ ~listPage.due /\ ~listPage.error /\ Waiting = {}
    /\ applied = Len(calls) /\ applied # 0

SelectFilter ==
    /\ openPage = "list" /\ merchant # NoOne
    /\ \E filter \in {"All", "OPEN"} : ShowPage(filter, 0)
    /\ walk' = NoWalk
    /\ OtherThanListState

PreviousPage ==
    /\ openPage = "list" /\ merchant # NoOne
    /\ listPage.offset # 0
    /\ ShowPage(listPage.filter, IF listPage.offset > PageSize THEN listPage.offset - PageSize ELSE 0)
    /\ walk' = NoWalk
    /\ OtherThanListState

NextPage ==
    /\ openPage = "list" /\ merchant # NoOne
    /\ listPage.offset + PageSize < listPage.total
    /\ ShowPage(listPage.filter, listPage.offset + PageSize)
    /\ walk' = IF ListSettled THEN walk ELSE NoWalk
    /\ OtherThanListState

-----------------------------------------------------------------------------
(* app/invoices/[id]; the invoice of the page is the first row.             *)
OtherThanDetail == UNCHANGED <<openPage, merchant, invoiceRows, invoiceNow, applied, listPage,
                               walk, newPage, mishaps>>

LoadDetail ==
    /\ openPage = "detail"
    /\ detailPage.due \/ (detailPage.error /\ detailPage.invoice = NoOne /\ ~detailPage.loading
                            /\ merchant # NoOne)
    /\ IF merchant = NoOne
       THEN detailPage' = [detailPage EXCEPT !.due = FALSE] /\ UNCHANGED calls
       ELSE /\ detailPage' = [detailPage EXCEPT !.due = FALSE, !.loading = TRUE, !.error = FALSE]
            /\ PageAsks("get", 1)
    /\ OtherThanDetail

(* The button is there for an invoice shown as OPEN.                        *)
ClickCancel ==
    /\ openPage = "detail" /\ merchant # NoOne
    /\ ~detailPage.loading /\ ~detailPage.cancelling
    /\ detailPage.invoice # NoOne /\ detailPage.invoice.status = "OPEN"
    /\ detailPage' = [detailPage EXCEPT !.cancelling = TRUE, !.error = FALSE]
    /\ PageAsks("cancel", 1)
    /\ OtherThanDetail

-----------------------------------------------------------------------------
(* app/invoices/new *)
Decimals == 1
Canonical(a) == ~a.padded /\ a.digits <= Decimals        \* the input's pattern, and the DTO's

(* parseUnits: digits beyond the decimals are rounded.                      *)
ParseUnits(a) ==
    LET scaled == a.whole * 10 ^ Decimals
    IN  IF a.digits <= Decimals THEN scaled + a.frac * 10 ^ (Decimals - a.digits)
        ELSE LET drop == 10 ^ (a.digits - Decimals) IN scaled + (a.frac + drop \div 2) \div drop

(* validPreviewAmount *)
HasPreview(a) == a.digits <= Decimals /\ ParseUnits(a) > 0

EditForm ==
    /\ openPage = "new" /\ merchant # NoOne /\ newPage.created = NoOne
    /\ \E a \in AmountTexts, t \in LocalTimes \cup {NoOne} :
         newPage' = [newPage EXCEPT !.amount = a, !.expiry = t]
    /\ UNCHANGED <<openPage, merchant, invoiceRows, invoiceNow, calls, applied, listPage, walk,
                   detailPage, mishaps>>

(* The browser compares the typed local time with `min`, which is UTC.      *)
BrowserAccepts ==
    /\ Canonical(newPage.amount)
    /\ newPage.expiry # NoOne => newPage.expiry >= newPage.minimumExpiry

(* new Date(expiresAt).toISOString() *)
ToUtc(localTime) == localTime - newPage.zone

Form == [amount |-> newPage.amount,
         expiresAt |-> IF newPage.expiry = NoOne THEN NoOne ELSE ToUtc(newPage.expiry),
         typed |-> newPage.expiry, previewed |-> HasPreview(newPage.amount)]

Submit ==
    /\ openPage = "new" /\ merchant # NoOne
    /\ newPage.created = NoOne /\ ~newPage.submitting
    /\ BrowserAccepts
    /\ newPage' = [newPage EXCEPT !.submitting = TRUE, !.error = FALSE]
    /\ PageAsks("create", Form)
    /\ UNCHANGED <<openPage, merchant, invoiceRows, invoiceNow, applied, listPage, walk,
                   detailPage, mishaps>>

CreateAnother ==
    /\ openPage = "new" /\ merchant # NoOne
    /\ newPage.created # NoOne
    /\ newPage' = [newPage EXCEPT !.created = NoOne]
    /\ UNCHANGED <<openPage, merchant, invoiceRows, invoiceNow, calls, applied, listPage, walk,
                   detailPage, mishaps>>

-----------------------------------------------------------------------------
(* The backend.  A call runs from await to await: the expiry of overdue     *)
(* rows, then the statements of its operation.                              *)
OnlyCallsMove == UNCHANGED <<openPage, merchant, invoiceNow, applied, listPage, walk, detailPage,
                             newPage, mishaps>>

Overdue(i) == invoiceRows[i].status = "OPEN" /\ invoiceRows[i].expiresAt <= invoiceNow

InScope(c, i) == invoiceRows[i].owner = c.as /\ (c.does # "list" => i = c.query)

(* expireOpenInvoices *)
ExpireOpenInvoices(n) ==
    /\ calls[n].at = "sent" /\ calls[n].does \in {"list", "get", "cancel"}
    /\ invoiceRows' = [i \in DOMAIN invoiceRows |->
                         IF InScope(calls[n], i) /\ Overdue(i)
                         THEN [invoiceRows[i] EXCEPT !.status = "EXPIRED"] ELSE invoiceRows[i]]
    /\ calls' = [calls EXCEPT ![n].at = "expired"]
    /\ OnlyCallsMove

Matching(c) == {i \in DOMAIN invoiceRows :
                  /\ invoiceRows[i].owner = c.as
                  /\ c.query.filter \in {"All", invoiceRows[i].status}}

(* list, newest first.  findMany and count are two statements: each sees    *)
(* what is committed when it runs.                                          *)
FindMany(n) ==
    LET c == calls[n]
        newer(i) == Cardinality({j \in Matching(c) : j > i})
    IN  /\ c.at = "expired" /\ c.does = "list"
        /\ calls' = [calls EXCEPT
              ![n].at = "found",
              ![n].found = Matching(c),
              ![n].answer = {[id |-> i, owner |-> c.as, status |-> invoiceRows[i].status] :
                               i \in {k \in Matching(c) :
                                        newer(k) \in c.query.offset .. c.query.offset + PageSize - 1}}]
        /\ UNCHANGED invoiceRows /\ OnlyCallsMove

CountRows(n) ==
    /\ calls[n].at = "found"
    /\ calls' = [calls EXCEPT ![n].at = "answered", ![n].total = Cardinality(Matching(calls[n]))]
    /\ UNCHANGED invoiceRows /\ OnlyCallsMove

(* toMerchant *)
Snapshot(i) == [id |-> i, status |-> invoiceRows[i].status, units |-> invoiceRows[i].units,
                expiresAt |-> invoiceRows[i].expiresAt]

AnswerWith(n, i) == calls' = [calls EXCEPT ![n].at = "answered", ![n].answer = Snapshot(i)]
Refuse(n) == calls' = [calls EXCEPT ![n].at = "failed", ![n].answer = NoOne]

GetOwned(n) ==
    /\ calls[n].at = "expired" /\ calls[n].does = "get"
    /\ IF invoiceRows[calls[n].query].owner = calls[n].as THEN AnswerWith(n, calls[n].query)
       ELSE Refuse(n)
    /\ UNCHANGED invoiceRows /\ OnlyCallsMove

CancellableAnyTime(c) ==  \* variant: the update does not name the status
    invoiceRows[c.query].owner = c.as

(* cancel: the update names the status; what it did is read back.           *)
Cancellable(c) == invoiceRows[c.query].owner = c.as /\ invoiceRows[c.query].status = "OPEN"

CancelRow(n) ==
    /\ calls[n].at = "expired" /\ calls[n].does = "cancel"
    /\ IF Cancellable(calls[n])
       THEN /\ invoiceRows' = [invoiceRows EXCEPT ![calls[n].query].status = "CANCELLED"]
            /\ calls' = [calls EXCEPT ![n].does = "get", ![n].at = "sent"]
       ELSE Refuse(n) /\ UNCHANGED invoiceRows
    /\ OnlyCallsMove

ExpiryOf(form) == IF form.expiresAt = NoOne THEN invoiceNow + DefaultExpiry ELSE form.expiresAt

Acceptable(form) ==
    /\ Canonical(form.amount) /\ ParseUnits(form.amount) > 0
    /\ ExpiryOf(form) > invoiceNow /\ ExpiryOf(form) <= invoiceNow + MaxExpiry

CreateRow(n) ==
    LET c == calls[n]
    IN  /\ c.at = "sent" /\ c.does = "create"
        /\ IF Acceptable(c.query)
           THEN /\ invoiceRows' = Append(invoiceRows,
                                   [owner |-> c.as, status |-> "OPEN", call |-> n,
                                    units |-> ParseUnits(c.query.amount),
                                    expiresAt |-> ExpiryOf(c.query)])
                /\ calls' = [calls EXCEPT
                     ![n].at = "answered",
                     ![n].answer = [id |-> Len(invoiceRows) + 1, status |-> "OPEN",
                                    units |-> ParseUnits(c.query.amount),
                                    expiresAt |-> ExpiryOf(c.query)]]
           ELSE Refuse(n) /\ UNCHANGED invoiceRows
        /\ OnlyCallsMove

Backend == \E n \in Waiting : \/ ExpireOpenInvoices(n) \/ FindMany(n) \/ CountRows(n)
                              \/ GetOwned(n) \/ CancelRow(n) \/ CreateRow(n)

(* The session is refused, or the connection or the process is lost, before *)
(* the statements or after them.  (Lost right after the expiry of overdue   *)
(* rows, a call leaves what the next call does anyway.)                     *)
LoseCall ==
    /\ \E n \in Waiting : calls[n].at \in {"sent", "answered"} /\ Refuse(n)
    /\ Mishap
    /\ UNCHANGED <<openPage, merchant, invoiceRows, invoiceNow, applied, listPage, walk,
                   detailPage, newPage>>

-----------------------------------------------------------------------------
(* The answers, in any order *)
Shown(n) ==
    /\ calls[n].at \in {"answered", "failed"}
    /\ calls' = [calls EXCEPT ![n].at = "shown", ![n].found = {}, ![n].total = 0]
    /\ applied' = n
    /\ UNCHANGED <<openPage, merchant, invoiceRows, invoiceNow, mishaps>>

(* A walk starts with an answer for the first page and goes on with those   *)
(* that come in order.                                                      *)
WalkOn(c, n) ==
    LET ids == {item.id : item \in c.answer}
        inOrder == /\ n = Len(calls) /\ Waiting = {n} /\ ~listPage.due
                   /\ c.as = merchant /\ c.query.filter = "All"
    IN  IF inOrder /\ c.query.offset = 0 THEN [rows |-> c.found, seen |-> ids, on |-> TRUE]
        ELSE IF inOrder /\ walk.on THEN [walk EXCEPT !.seen = @ \cup ids]
        ELSE NoWalk

ShowList(n) ==
    /\ calls[n].asked = "list" /\ Shown(n)
    /\ IF calls[n].at = "answered"
       THEN /\ listPage' = [listPage EXCEPT !.items = calls[n].answer, !.total = calls[n].total,
                                            !.loading = FALSE]
            /\ walk' = WalkOn(calls[n], n)
       ELSE listPage' = [listPage EXCEPT !.loading = FALSE, !.error = TRUE] /\ UNCHANGED walk
    /\ UNCHANGED <<detailPage, newPage>>

ShowInvoice(n) ==
    /\ calls[n].asked \in {"get", "cancel"} /\ Shown(n)
    /\ LET over == IF calls[n].asked = "get" THEN [detailPage EXCEPT !.loading = FALSE]
                   ELSE [detailPage EXCEPT !.cancelling = FALSE]
       IN  detailPage' = IF calls[n].at = "answered" THEN [over EXCEPT !.invoice = calls[n].answer]
                         ELSE [over EXCEPT !.error = TRUE]
    /\ UNCHANGED <<listPage, walk, newPage>>

ShowCreated(n) ==
    /\ calls[n].asked = "create" /\ Shown(n)
    /\ newPage' = IF calls[n].at = "answered"
                  THEN [newPage EXCEPT !.submitting = FALSE, !.created = calls[n].answer]
                  ELSE [newPage EXCEPT !.submitting = FALSE, !.error = TRUE]
    /\ UNCHANGED <<listPage, walk, detailPage>>

-----------------------------------------------------------------------------
(* The rest of the world *)
(* The wallet connects, authenticates, is switched or logged out: load has  *)
(* a new identity and its effect runs again.                                *)
SessionChanges ==
    /\ \E m \in (Merchants \cup {NoOne}) \ {merchant} : merchant' = m
    /\ Mishap
    /\ listPage' = [listPage EXCEPT !.due = TRUE]
    /\ detailPage' = [detailPage EXCEPT !.due = TRUE]
    /\ walk' = NoWalk
    /\ UNCHANGED <<openPage, invoiceRows, invoiceNow, calls, applied, newPage>>

PaymentMoves(i) ==
    /\ \/ invoiceRows[i].status = "OPEN" /\ invoiceRows' = [invoiceRows EXCEPT ![i].status = "VERIFYING"]
       \/ invoiceRows[i].status = "VERIFYING" /\ invoiceRows' = [invoiceRows EXCEPT ![i].status = "PAID"]
    /\ UNCHANGED invoiceNow

World ==
    /\ Mishap
    /\ \/ invoiceNow' = invoiceNow + 1 /\ UNCHANGED invoiceRows
       \/ \E i \in DOMAIN invoiceRows : PaymentMoves(i)
       \/ \E m \in Merchants :
            /\ invoiceRows' = Append(invoiceRows, [owner |-> m, status |-> "OPEN", units |-> 1,
                                                  expiresAt |-> invoiceNow + 1, call |-> 0])
            /\ UNCHANGED invoiceNow
    /\ UNCHANGED <<openPage, merchant, calls, applied, listPage, walk, detailPage, newPage>>

MerchantNext ==
    \/ LoadList \/ SelectFilter \/ PreviousPage \/ NextPage
    \/ LoadDetail \/ ClickCancel
    \/ EditForm \/ Submit \/ CreateAnother
    \/ Backend \/ LoseCall
    \/ \E n \in Waiting : ShowList(n) \/ ShowInvoice(n) \/ ShowCreated(n)
    \/ SessionChanges \/ World

MerchantSpec == MerchantInit /\ [][MerchantNext]_merchantVars

-----------------------------------------------------------------------------
(* Properties *)

(* Once the requests have been answered in order, the list is the page the  *)
(* merchant looks at: of the connected wallet, the filter and the offset.   *)
ListIsOfView ==
    ListSettled =>
        /\ calls[applied].as = merchant
        /\ calls[applied].query = [filter |-> listPage.filter, offset |-> listPage.offset]
        /\ \A item \in listPage.items :
              /\ invoiceRows[item.id].owner = merchant
              /\ listPage.filter \in {"All", item.status}

(* Whoever starts at the first page of all invoices and presses Next, each  *)
(* time when the page is loaded, has seen every invoice there was at the    *)
(* start when Next is no longer offered, although rows are added meanwhile  *)
(* and shift the pages.                                                     *)
NoInvoiceSkipped ==
    ListSettled /\ walk.on /\ listPage.offset + PageSize >= listPage.total
        => walk.rows \subseteq walk.seen

(* A final status that the detail page shows is the invoice's for good,     *)
(* whatever answer came late; so is a cancellation the backend confirmed.   *)
FinalStatusIsTrue ==
    /\ detailPage.invoice # NoOne /\ detailPage.invoice.status \in FinalStatuses
         => invoiceRows[1].status = detailPage.invoice.status
    /\ \A n \in DOMAIN calls :
         calls[n].asked = "cancel" /\ calls[n].answer # NoOne => invoiceRows[1].status = "CANCELLED"

(* An invoice made with the form has the amount that was typed, to the last *)
(* digit, and previewed; it expires at the local time typed; the created    *)
(* panel shows the stored row.                                              *)
CreatedAsTyped ==
    /\ \A i \in DOMAIN invoiceRows :
         LET row == invoiceRows[i]
             form == calls[row.call].query
         IN  row.call # 0 =>
             /\ form.previewed
             /\ row.units * 10 ^ form.amount.digits
                  = (form.amount.whole * 10 ^ form.amount.digits + form.amount.frac) * 10 ^ Decimals
             /\ form.typed # NoOne => row.expiresAt + newPage.zone = form.typed
    /\ newPage.created # NoOne =>
         /\ invoiceRows[newPage.created.id].units = newPage.created.units
         /\ invoiceRows[newPage.created.id].expiresAt = newPage.created.expiresAt

(* The merchant pages agree with the backend (app/invoices,                 *)
(* invoice.service.ts).                                                     *)
MerchantPagesAgree ==
    /\ ListIsOfView
    /\ NoInvoiceSkipped
    /\ FinalStatusIsTrue
    /\ CreatedAsTyped
=============================================================================
