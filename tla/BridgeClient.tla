---------------------------- MODULE BridgeClient ----------------------------
(***************************************************************************)
(* The bridge page (BridgeScreen.tsx) in front of the backend's bridge     *)
(* endpoints: quotes raced by edits of the form, the one long start() with *)
(* an await between every wallet prompt and every report, the stored       *)
(* intent a reload looks up again, and the quote service's fee arithmetic  *)
(* over the chain registry.  The endpoints' own reads and writes are the   *)
(* subject of BridgeLifecycle; here each request is one step.              *)
(***************************************************************************)
EXTENDS Naturals, Sequences, FiniteSets

CONSTANTS
  Counterparties,   \* registered chains other than Arc
  FastSources,      \* those whose fastTransferSource is true
  BridgeAmounts,    \* amounts the user may enter; 0 is an entry that does not parse
  BridgeRates,      \* Circle's fast fee, in FeeScale-ths of the amount
  FeeScale,         \* 1 000 000: hundredths of a basis point
  BufferNum,        \* 120, over
  BufferDen,        \* 100: the margin of the suggested maximum fee
  Allowances,       \* Circle's fast burn allowance
  MaxIntents,       \* bound on intents created
  MaxEdits,         \* bound on edits of the form
  MaxReopens,       \* bound on page loads after the first
  MaxFeeMoves       \* bound on changes at Circle

ASSUME BridgePageAssumption ==
  /\ Counterparties # {}
  /\ BridgeAmounts \subseteq Nat /\ BridgeRates \subseteq Nat /\ Allowances \subseteq Nat
  /\ FeeScale \in Nat \ {0} /\ BufferDen \in Nat \ {0}
  /\ BufferNum \in Nat /\ BufferNum >= BufferDen

VARIABLES
  live,       \* Circle's current [rate, allowance]
  form,       \* the form: [outbound, other, amount]
  dirty,      \* the form changed and the quote effect has not run yet
  asked,      \* the quote request whose answer counts: [on, key]
  quote,      \* the quote in React state, with the key it was asked for
  given,      \* every quote the backend has given
  bstage,     \* the page's stage
  seen,       \* the intent in React state, 0 when none
  bat,        \* the await start() is suspended in, "none" when not running
  run,        \* start()'s closure: [id, key, maxFee, threshold]
  bridgeSaved,\* the intent id in localStorage, 0 when none
  lookup,     \* the stored id being loaded, 0 when none
  rows,       \* the backend's intents
  burns,      \* burns broadcast: [intent, key, maxFee, threshold]
  forgotten,  \* intents whose stored id the user dropped or replaced unseen
  edits, reopens, moves

bridgePageVars == <<live, form, dirty, asked, quote, given, bstage, seen, bat, run, bridgeSaved,
                    lookup, rows, burns, forgotten, edits, reopens, moves>>

Arc == "ARC-MAINNET"

(* ------------------------------- registry ------------------------------- *)

BridgeChains == {Arc} \cup Counterparties

GetBridgeTransferMode(source) == IF source \in FastSources THEN "fast" ELSE "standard"

GetBridgeFinalityThreshold(source) ==
  IF GetBridgeTransferMode(source) = "fast" THEN 1000 ELSE 2000

\* assertBridgeRoute: two registered chains, one of them Arc.
BridgeRoute(source, destination) ==
  /\ {source, destination} \subseteq BridgeChains
  /\ source # destination
  /\ Arc \in {source, destination}

(* ------------------------------ fee quote ------------------------------- *)

\* Rounded up, so that a small amount never quotes a fee of zero.
CalculateFastProtocolFee(amount, rate) ==
  IF amount = 0 \/ rate = 0 THEN 0 ELSE (amount * rate + FeeScale - 1) \div FeeScale

CalculateFastMaxFee(fee) ==
  IF fee = 0 THEN 0 ELSE (fee * BufferNum + BufferDen - 1) \div BufferDen

NoQuote == [on |-> FALSE, key |-> <<Arc, Arc, 0>>, threshold |-> 0, fee |-> 0,
            maxFee |-> 0, receive |-> 0, rate |-> 0, allowance |-> 0]

\* BridgeQuoteService.quote with Circle's fee and allowance as they are now.
QuoteFor(key) ==
  LET fast == GetBridgeTransferMode(key[1]) = "fast"
      fee == IF fast THEN CalculateFastProtocolFee(key[3], live.rate) ELSE 0
  IN [on |-> TRUE, key |-> key, threshold |-> GetBridgeFinalityThreshold(key[1]), fee |-> fee,
      maxFee |-> CalculateFastMaxFee(fee), receive |-> key[3] - fee,
      rate |-> live.rate, allowance |-> live.allowance]

\* A fast quote is refused when the fee swallows the amount or Circle's
\* allowance is too small; a standard route asks Circle nothing.
QuoteAvailable(key) ==
  GetBridgeTransferMode(key[1]) = "standard"
  \/ (QuoteFor(key).maxFee <= key[3] /\ key[3] <= live.allowance)

\* assertFastReady: the backend's own check before it creates a fast intent.
AssertFastReady(amount, maxFee, rate, allowance) ==
  /\ maxFee >= CalculateFastProtocolFee(amount, rate)
  /\ amount <= allowance

(* ------------------------------ the page -------------------------------- *)

Source(f) == IF f.outbound THEN Arc ELSE f.other
Destination(f) == IF f.outbound THEN f.other ELSE Arc
RequestKey(f) == <<Source(f), Destination(f), f.amount>>

NoRun == [id |-> 0, key |-> <<Arc, Arc, 0>>, maxFee |-> 0, threshold |-> 0]
NoRequest == [on |-> FALSE, key |-> <<Arc, Arc, 0>>]
EmptyForm == [outbound |-> TRUE, other |-> CHOOSE c \in Counterparties : TRUE, amount |-> 0]

BridgePageInit ==
  /\ live \in [rate : BridgeRates, allowance : Allowances]
  /\ form = EmptyForm
  /\ dirty = FALSE
  /\ asked = NoRequest
  /\ quote = NoQuote
  /\ given = {}
  /\ bstage = "idle"
  /\ seen = 0
  /\ bat = "none"
  /\ run = NoRun
  /\ bridgeSaved = 0
  /\ lookup = 0
  /\ rows = <<>>
  /\ burns = <<>>
  /\ forgotten = {}
  /\ edits = 0 /\ reopens = 0 /\ moves = 0

Busy == bstage \notin {"idle", "completed"}

\* Source and destination selects, the reverse button and the amount field.
EditForm(f) ==
  /\ ~Busy
  /\ edits < MaxEdits
  /\ f # form
  /\ form' = f
  /\ dirty' = TRUE
  /\ edits' = edits + 1
  /\ UNCHANGED <<live, asked, quote, given, bstage, seen, bat, run, bridgeSaved, lookup, rows,
                 burns, forgotten, reopens, moves>>

\* The effect of a changed request: the shown quote goes, the request under
\* way is aborted, and a new one leaves when the amount parses.
QuoteEffect ==
  /\ dirty
  /\ dirty' = FALSE
  /\ quote' = NoQuote
  /\ asked' = IF form.amount > 0 THEN [on |-> TRUE, key |-> RequestKey(form)] ELSE NoRequest
  /\ UNCHANGED <<live, form, given, bstage, seen, bat, run, bridgeSaved, lookup, rows, burns,
                 forgotten, edits, reopens, moves>>

AnswerQuote ==
  /\ asked.on
  /\ asked' = NoRequest
  /\ IF QuoteAvailable(asked.key)
     THEN quote' = QuoteFor(asked.key) /\ given' = given \cup {QuoteFor(asked.key)}
     ELSE quote' = NoQuote /\ UNCHANGED given
  /\ UNCHANGED <<live, form, dirty, bstage, seen, bat, run, bridgeSaved, lookup, rows, burns,
                 forgotten, edits, reopens, moves>>

\* Circle's fee or allowance endpoint fails, times out or is malformed.
QuoteFails ==
  /\ asked.on
  /\ GetBridgeTransferMode(asked.key[1]) = "fast"
  /\ asked' = NoRequest
  /\ quote' = NoQuote
  /\ UNCHANGED <<live, form, dirty, given, bstage, seen, bat, run, bridgeSaved, lookup, rows, burns,
                 forgotten, edits, reopens, moves>>

\* Circle changes its fee or uses up its allowance.
CircleMoves(l) ==
  /\ moves < MaxFeeMoves
  /\ l # live
  /\ live' = l
  /\ moves' = moves + 1
  /\ UNCHANGED <<form, dirty, asked, quote, given, bstage, seen, bat, run, bridgeSaved, lookup,
                 rows, burns, forgotten, edits, reopens>>

\* The quote on screen was asked for the form as it is now.
QuoteCurrent == quote.on /\ quote.key = RequestKey(form)

\* start() up to its first await; a stored intent the page has not shown is
\* about to be replaced.
StartBridge ==
  /\ bat = "none" /\ ~Busy
  /\ QuoteCurrent
  /\ form.amount > 0 /\ quote.maxFee <= form.amount
  /\ Len(rows) < MaxIntents
  /\ bat' = "create"
  /\ bstage' = "creating"
  /\ run' = [id |-> 0, key |-> RequestKey(form), maxFee |-> quote.maxFee,
             threshold |-> quote.threshold]
  /\ forgotten' = forgotten \cup ({bridgeSaved} \ {0, seen})
  /\ UNCHANGED <<live, form, dirty, asked, quote, given, seen, bridgeSaved, lookup, rows, burns,
                 edits, reopens, moves>>

\* start()'s catch and finally.
RunFails ==
  /\ bat # "none"
  /\ bat' = "none"
  /\ bstage' = "recoverable_error"
  /\ UNCHANGED <<live, form, dirty, asked, quote, given, seen, run, bridgeSaved, lookup, rows,
                 burns, forgotten, edits, reopens, moves>>

\* createIntent accepts the page's request.
IntentAccepted(r) ==
  /\ BridgeRoute(r.key[1], r.key[2])
  /\ r.key[3] > 0 /\ r.maxFee <= r.key[3]
  /\ r.threshold = GetBridgeFinalityThreshold(r.key[1])
  /\ GetBridgeTransferMode(r.key[1]) = "fast"
     => AssertFastReady(r.key[3], r.maxFee, live.rate, live.allowance)

\* variant: the id is kept in React state only
KeepInState(id) == UNCHANGED bridgeSaved

\* The id is stored before any wallet prompt.
StoreIntent(id) == bridgeSaved' = id

CreateBridgeIntent ==
  LET id == Len(rows) + 1
  IN /\ bat = "create"
     /\ IntentAccepted(run)
     /\ rows' = Append(rows, [key |-> run.key, maxFee |-> run.maxFee,
                              threshold |-> run.threshold, status |-> "idle", burn |-> 0])
     /\ run' = [run EXCEPT !.id = id]
     /\ seen' = id
     /\ StoreIntent(id)
     /\ bat' = "approve"
     /\ bstage' = "approving"
     /\ UNCHANGED <<live, form, dirty, asked, quote, given, lookup, burns, forgotten, edits,
                    reopens, moves>>

\* A step of start() after creation: the report that ends it moves the row.
Advances(from, to, stageAfter, status) ==
  /\ bat = from
  /\ bat' = to
  /\ bstage' = stageAfter
  /\ rows' = [rows EXCEPT ![run.id].status = status]
  /\ seen' = run.id
  /\ UNCHANGED <<live, form, dirty, asked, quote, given, run, bridgeSaved, lookup, forgotten,
                 edits, reopens, moves>>

\* approve(), its receipt and the report.
ApproveBridge == Advances("approve", "burn", "burning", "source_approved") /\ UNCHANGED burns

\* depositForBurn leaves the wallet; the report is the next step.
BurnSource ==
  /\ bat = "burn"
  /\ burns' = Append(burns, [intent |-> run.id, key |-> run.key, maxFee |-> run.maxFee,
                             threshold |-> run.threshold])
  /\ bat' = "source"
  /\ UNCHANGED <<live, form, dirty, asked, quote, given, bstage, seen, run, bridgeSaved, lookup,
                 rows, forgotten, edits, reopens, moves>>

ReportSource ==
  /\ bat = "source"
  /\ bat' = "attest"
  /\ bstage' = "waiting_attestation"
  /\ rows' = [rows EXCEPT ![run.id].status = "waiting_for_attestation", ![run.id].burn = Len(burns)]
  /\ seen' = run.id
  /\ UNCHANGED <<live, form, dirty, asked, quote, given, run, bridgeSaved, lookup, burns,
                 forgotten, edits, reopens, moves>>

\* Circle attests a standard burn, and a fast one whose fee covers its own.
Attests(row) ==
  /\ row.status = "waiting_for_attestation"
  /\ GetBridgeTransferMode(row.key[1]) = "fast"
     => row.maxFee >= CalculateFastProtocolFee(row.key[3], live.rate)

PollAttestation ==
  /\ bat = "attest"
  /\ Attests(rows[run.id])
  /\ Advances("attest", "authorize", "authorizing", "attestation_ready")
  /\ UNCHANGED burns

AuthorizeDestination ==
  /\ Advances("authorize", "mint", "minting", "awaiting_destination_signature")
  /\ UNCHANGED burns

MintDestination == Advances("mint", "verify", "verifying", "verifying_destination") /\ UNCHANGED burns

CompleteBridge == Advances("verify", "none", "completed", "completed") /\ UNCHANGED burns

\* Closing the page and opening it again: the mount effect asks for the
\* stored intent.
Reopen ==
  /\ reopens < MaxReopens
  /\ reopens' = reopens + 1
  /\ form' = EmptyForm
  /\ dirty' = FALSE
  /\ asked' = NoRequest
  /\ quote' = NoQuote
  /\ bstage' = "idle"
  /\ seen' = 0
  /\ bat' = "none"
  /\ run' = NoRun
  /\ lookup' = bridgeSaved
  /\ UNCHANGED <<live, given, bridgeSaved, rows, burns, forgotten, edits, moves>>

\* Its answer; a failed request is ignored.
StoredIntentLoaded(answers) ==
  /\ lookup # 0
  /\ lookup' = 0
  /\ IF answers /\ rows[lookup].status # "completed"
     THEN seen' = lookup /\ bstage' = "recoverable_error"
     ELSE UNCHANGED <<seen, bstage>>
  /\ UNCHANGED <<live, form, dirty, asked, quote, given, bat, run, bridgeSaved, rows, burns,
                 forgotten, edits, reopens, moves>>

\* "Check status" refreshes the attestation of the shown intent.
CheckStatus ==
  /\ seen # 0 /\ bstage # "idle"
  /\ LET row == rows[seen]
     IN \/ /\ row.status = "completed"
           /\ bstage' = "completed"
           /\ UNCHANGED rows
        \/ /\ Attests(row)
           /\ rows' = [rows EXCEPT ![seen].status = "attestation_ready"]
           /\ bstage' = "recoverable_error"
  /\ UNCHANGED <<live, form, dirty, asked, quote, given, seen, bat, run, bridgeSaved, lookup,
                 burns, forgotten, edits, reopens, moves>>

\* "Start over", offered at any stage with an intent.
StartOverBridge ==
  /\ seen # 0 /\ bstage # "idle"
  /\ forgotten' = forgotten \cup ({bridgeSaved} \ {0})
  /\ bridgeSaved' = 0
  /\ seen' = 0
  /\ bstage' = "idle"
  /\ UNCHANGED <<live, form, dirty, asked, quote, given, bat, run, lookup, rows, burns, edits,
                 reopens, moves>>

Forms == [outbound : BOOLEAN, other : Counterparties, amount : BridgeAmounts]

BridgePageNext ==
  \/ \E f \in Forms : EditForm(f)
  \/ \E l \in [rate : BridgeRates, allowance : Allowances] : CircleMoves(l)
  \/ QuoteEffect \/ AnswerQuote \/ QuoteFails
  \/ StartBridge \/ RunFails \/ CreateBridgeIntent \/ ApproveBridge \/ BurnSource \/ ReportSource
  \/ PollAttestation \/ AuthorizeDestination \/ MintDestination \/ CompleteBridge
  \/ Reopen \/ CheckStatus \/ StartOverBridge
  \/ \E answers \in BOOLEAN : StoredIntentLoaded(answers)

BridgePageSpec == BridgePageInit /\ [][BridgePageNext]_bridgePageVars

(* ------------------------------ properties ------------------------------ *)

\* Whatever the user edits and whenever answers arrive, a burn carries the
\* route, amount, maximum fee and finality of one quote the backend gave for
\* exactly that route and amount, and those of its own intent.
BurnedAsQuoted ==
  \A b \in DOMAIN burns :
    LET burn == burns[b]
        row == rows[burn.intent]
    IN /\ \E q \in given : /\ q.key = burn.key /\ q.maxFee = burn.maxFee
                           /\ q.threshold = burn.threshold
       /\ row.key = burn.key /\ row.maxFee = burn.maxFee /\ row.threshold = burn.threshold

\* A quote suffices while Circle stands still: its maximum fee covers the
\* exact fee, the backend accepts an intent for it, and the amount shown as
\* received plus the fee is the amount burned.
QuoteSuffices ==
  \A q \in given :
    /\ q.receive + q.fee = q.key[3]
    /\ GetBridgeTransferMode(q.key[1]) = "fast"
       => /\ q.maxFee * FeeScale >= q.key[3] * q.rate
          /\ q.maxFee <= q.key[3]
          /\ AssertFastReady(q.key[3], q.maxFee, q.rate, q.allowance)

\* A burn that is not yet completed stays reachable over a reload: its intent
\* is the stored one, unless the user pressed "Start over" or started another
\* transfer before the page had shown the stored intent.
UnfinishedBurnIsStored ==
  \A b \in DOMAIN burns :
    LET id == burns[b].intent
    IN rows[id].status # "completed" => bridgeSaved = id \/ id \in forgotten

\* The page burns what was quoted, for enough, and keeps the way back to the
\* burn.
BurnsAreQuotedAndStored ==
    /\ BurnedAsQuoted
    /\ QuoteSuffices
    /\ UnfinishedBurnIsStored
=============================================================================
