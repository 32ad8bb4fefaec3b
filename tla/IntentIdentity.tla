--------------------------- MODULE IntentIdentity ---------------------------
(***************************************************************************)
(* ExecutionIntentService.acquire in detail: how a request is made          *)
(* canonical, which rows share a logical key, and the attempts of the       *)
(* serializable transaction that finds or creates the row.  IntentStore     *)
(* takes the result for granted: one intent for each logical key.           *)
(*                                                                          *)
(* Requests reach acquire from the pages (POST execution-intents/acquire,   *)
(* without an owner) and from createPayrollTask.  The same payment is       *)
(* spelled in several ways: an address checksummed or in lower case, a      *)
(* reference with blanks around it.  A field is [v, form]: the value and    *)
(* how it is spelled.  A hash is the value it is taken of.                  *)
(***************************************************************************)
EXTENDS Naturals, Sequences, FiniteSets

CONSTANTS
    Acquirers,        \* concurrent calls of acquire
    Requests,         \* [op, owner, wallet, recipient, digest, units, ref]
    OpenInvoices,     \* invoices open at the start: [op, ref, recipient, units]
    Binders,          \* concurrent calls that bind a row's columns
    BoundIntents,     \* the rows they bind
    BindValues,       \* values of a column
    MaxAcquires,      \* bound: calls of acquire
    MaxBinds          \* bound: calls that bind

ASSUME IdentityAssumption == /\ MaxAcquires \in Nat /\ MaxBinds \in Nat
                             /\ "none" \notin BindValues
                             /\ \A r \in Requests : r.op \in {"SEND", "PAYROLL", "TOKEN_APPROVAL",
                                        "PAYMENT_LINK_SETTLEMENT", "INVOICE_SETTLEMENT"}

VARIABLES
    intents,      \* the rows, in the order of their creation
    openInvoices, \* invoices that are still OPEN and not expired
    call,         \* each call: next step, request, attempt, answer
    acquires,
    columns,      \* for each row the columns bound after its creation
    bind,         \* each binding call: next step, what it asks, what it has read
    binds

identityVars == <<intents, openInvoices, call, acquires>>
bindingVars == <<columns, bind, binds>>

NoIntent == 0
NoCallYet == [at |-> "idle", request |-> <<>>, attempt |-> 0,
              answer |-> NoIntent]

IdentityInit ==
    /\ intents = <<>>
    /\ openInvoices = OpenInvoices
    /\ call = [p \in Acquirers |-> NoCallYet]
    /\ acquires = 0

-----------------------------------------------------------------------------
(* canonicalize *)
BaseUnits(units) == units.form = "exact"     \* /^[1-9]\d*$/

CanonicalReference(ref) == ref.v             \* trim

(* getAddress, trim and toLowerCase: the value, whatever its spelling.  An  *)
(* invoice's settlement names a recipient, a batch its digest.              *)
Immutable(r) ==
    [op |-> r.op, owner |-> r.owner.v, wallet |-> r.wallet.v, recipient |-> r.recipient.v,
     digest |-> r.digest.v, units |-> r.units.v, ref |-> CanonicalReference(r.ref)]

Settlement(op) == op \in {"PAYMENT_LINK_SETTLEMENT", "INVOICE_SETTLEMENT"}

LogicalKey(m) ==
    IF Settlement(m.op)
      THEN [op |-> m.op, owner |-> "any", wallet |-> "any", ref |-> m.ref]
      ELSE [op |-> m.op, owner |-> m.owner, wallet |-> m.wallet, ref |-> m.ref]

(* Refused before any statement: the amount is not exact base units, the    *)
(* reference is blank or too long, or neither recipient nor digest is given.*)
Canonicalizes(r) ==
    /\ BaseUnits(r.units)
    /\ r.ref.form \notin {"blank", "long"}
    /\ r.recipient.v # "none" \/ r.digest.v # "none"

RequestFingerprint(m) == m

-----------------------------------------------------------------------------
(* acquire *)
Asked(p) == Immutable(call[p].request)
RowWith(key) == {i \in DOMAIN intents : LogicalKey(intents[i]) = key}
Found(key) == IF RowWith(key) = {} THEN NoIntent ELSE CHOOSE i \in RowWith(key) : TRUE

BeginAcquire(p) ==
    /\ call[p].at \in {"idle", "answered", "refused", "failed"}
    /\ acquires < MaxAcquires
    /\ acquires' = acquires + 1
    /\ \E r \in Requests :
         call' = [call EXCEPT ![p] = [NoCallYet EXCEPT !.request = r,
                    !.at = IF Canonicalizes(r) THEN "find" ELSE "refused"]]
    /\ UNCHANGED <<intents, openInvoices>>

(* The answer: assertSelectedNetwork, then the fingerprint of the row. *)
AnswerWith(p, i) ==
    IF RequestFingerprint(intents[i]) = RequestFingerprint(Asked(p))
      THEN call' = [call EXCEPT ![p].at = "answered", ![p].answer = i]
      ELSE call' = [call EXCEPT ![p].at = "refused"]

(* A settlement pays an open invoice of its kind, to its merchant, exactly. *)
Settleable(m) ==
    Settlement(m.op) =>
        [op |-> m.op, ref |-> m.ref, recipient |-> m.recipient, units |-> m.units]
            \in openInvoices

(* The transaction's reads: the row of the key, and the invoice. *)
FindIntent(p) ==
    /\ call[p].at = "find"
    /\ LET i == Found(LogicalKey(Asked(p))) IN
       \/ i # NoIntent /\ AnswerWith(p, i)
       \/ /\ i = NoIntent /\ ~Settleable(Asked(p))
          /\ call' = [call EXCEPT ![p].at = "refused"]
       \/ /\ i = NoIntent /\ Settleable(Asked(p))
          /\ call' = [call EXCEPT ![p].at = "upsert"]
    /\ UNCHANGED <<intents, openInvoices, acquires>>

(* The row was created since the transaction began: the unique column, or   *)
(* the serializable isolation, refuses the commit (P2002, P2034).           *)
NeverRefused(key) ==         \* variant: logicalKey is not unique
    FALSE

CommitRefused(key) == Found(key) # NoIntent

UpsertIntent(p) ==
    /\ call[p].at = "upsert"
    /\ \/ /\ CommitRefused(LogicalKey(Asked(p)))
          /\ call' = [call EXCEPT ![p].at = "reread"]
          /\ UNCHANGED intents
       \/ /\ ~CommitRefused(LogicalKey(Asked(p)))
          /\ intents' = Append(intents, Asked(p))
          /\ call' = [call EXCEPT ![p].at = "answered", ![p].answer = Len(intents) + 1]
       \/ /\ call' = [call EXCEPT ![p].at = "reread"]     \* an unrelated P2034
          /\ UNCHANGED intents
    /\ UNCHANGED <<openInvoices, acquires>>

(* The catch block: the row if it is there, otherwise another attempt, and  *)
(* after the third the error.                                               *)
RereadIntent(p) ==
    /\ call[p].at = "reread"
    /\ LET i == Found(LogicalKey(Asked(p))) IN
       \/ i # NoIntent /\ AnswerWith(p, i)
       \/ /\ i = NoIntent /\ call[p].attempt < 2
          /\ call' = [call EXCEPT ![p].at = "find", ![p].attempt = @ + 1]
       \/ /\ i = NoIntent /\ call[p].attempt = 2
          /\ call' = [call EXCEPT ![p].at = "failed"]
    /\ UNCHANGED <<intents, openInvoices, acquires>>

(* The invoice is cancelled, paid or expires. *)
CloseInvoice ==
    /\ \E i \in openInvoices : openInvoices' = openInvoices \ {i}
    /\ UNCHANGED <<intents, call, acquires>>

AcquireStep(p) == BeginAcquire(p) \/ FindIntent(p) \/ UpsertIntent(p) \/ RereadIntent(p)

IdentityNext == CloseInvoice \/ \E p \in Acquirers : AcquireStep(p)

-----------------------------------------------------------------------------
(* bindImmutableExecutionContext and bindCircleCorrelation: the row is      *)
(* read, compared with what is asked, updated where it is still as read,    *)
(* and read again.  The context has columns every call gives (owner,        *)
(* wallet) and columns that may be null (contract, calldata hash); the      *)
(* correlation is a challenge and, once known, a transaction.               *)
Unbound == "none"
Columns == [key : BindValues \cup {Unbound}, extra : BindValues \cup {Unbound}]
Bindings == [intent : BoundIntents, kind : {"context", "circle"}, key : BindValues,
             extra : BindValues \cup {Unbound}]
NoBind == [at |-> "idle"]

(* acquire may have set the wallet; a submission holds the lease. *)
BindingInit ==
    /\ \E wallet \in BindValues \cup {Unbound} :
         columns = [i \in BoundIntents |->
                      [context |-> [key |-> wallet, extra |-> Unbound],
                       circle |-> [key |-> Unbound, extra |-> Unbound], leased |-> TRUE]]
    /\ bind = [p \in Binders |-> NoBind]
    /\ binds = 0

Compatible(prior, asked) == prior = Unbound \/ asked = Unbound \/ prior = asked

BeginBind(p) ==
    /\ bind[p].at \in {"idle", "answered", "refused"} /\ binds < MaxBinds
    /\ binds' = binds + 1
    /\ \E ask \in Bindings :
         LET seen == columns[ask.intent][ask.kind] IN
         bind' = [bind EXCEPT ![p] =
                    [at |-> IF Compatible(seen.key, ask.key) /\ Compatible(seen.extra, ask.extra)
                            THEN "update" ELSE "refused",
                     ask |-> ask, seen |-> seen]]
    /\ UNCHANGED columns

BoundTo(p) ==
    [key |-> IF bind[p].seen.key = Unbound THEN bind[p].ask.key ELSE bind[p].seen.key,
     extra |-> IF bind[p].seen.extra = Unbound THEN bind[p].ask.extra ELSE bind[p].seen.extra]

AnyRow(p) == TRUE            \* variant: the update names the id alone

StillAsRead(p) == columns[bind[p].ask.intent][bind[p].ask.kind] = bind[p].seen

(* The unique columns of the correlation. *)
HeldElsewhere(p) ==
    /\ bind[p].ask.kind = "circle"
    /\ \E j \in BoundIntents \ {bind[p].ask.intent} :
         \/ columns[j].circle.key = BoundTo(p).key
         \/ columns[j].circle.extra = BoundTo(p).extra /\ BoundTo(p).extra # Unbound

UpdateColumns(p) ==
    /\ bind[p].at = "update"
    /\ LET ask == bind[p].ask IN
       IF StillAsRead(p) /\ ~HeldElsewhere(p)
       THEN /\ columns' = [columns EXCEPT ![ask.intent][ask.kind] = BoundTo(p),
                              ![ask.intent].leased = @ /\ ask.kind = "context"]
            /\ bind' = [bind EXCEPT ![p].at = "check"]
       ELSE bind' = [bind EXCEPT ![p].at = "refused"] /\ UNCHANGED columns
    /\ UNCHANGED binds

(* A null asked of the context is a value, a missing transaction is not. *)
Matches(row, ask) ==
    /\ row.key = ask.key
    /\ row.extra = ask.extra \/ (ask.kind = "circle" /\ ask.extra = Unbound)

CheckColumns(p) ==
    /\ bind[p].at = "check"
    /\ bind' = [bind EXCEPT ![p].at =
                  IF Matches(columns[bind[p].ask.intent][bind[p].ask.kind], bind[p].ask)
                  THEN "answered" ELSE "refused"]
    /\ UNCHANGED <<columns, binds>>

BindingNext == \E p \in Binders : BeginBind(p) \/ UpdateColumns(p) \/ CheckColumns(p)

IdentitySpec ==
    /\ IdentityInit /\ BindingInit
    /\ [][\/ IdentityNext /\ UNCHANGED bindingVars
          \/ BindingNext /\ UNCHANGED identityVars]_<<identityVars, bindingVars>>

-----------------------------------------------------------------------------
SamePayment(r, s) ==
    /\ r.op = s.op /\ r.owner.v = s.owner.v /\ r.wallet.v = s.wallet.v
    /\ r.recipient.v = s.recipient.v /\ r.digest.v = s.digest.v
    /\ r.units.v = s.units.v /\ r.ref.v = s.ref.v

(* Two calls are answered with the same intent exactly when they ask for    *)
(* the same payment, however each spells it and however their transactions  *)
(* interleave (canonicalize, the fingerprint check of acquire): a retried   *)
(* page never opens a second intent, and a reference reused for other data  *)
(* is never answered with the first payment's intent.                       *)
AnswersFollowPayment ==
    \A p, q \in Acquirers :
        (call[p].at = "answered" /\ call[q].at = "answered") =>
            ((call[p].answer = call[q].answer)
               <=> SamePayment(call[p].request, call[q].request))

(* Whoever pays it, an invoice or payment link has at most one intent: a    *)
(* second payer is refused rather than prompted (the key of a settlement    *)
(* leaves out owner and wallet).                                            *)
OneIntentPerInvoice ==
    \A i, j \in DOMAIN intents :
        (Settlement(intents[i].op) /\ intents[i].op = intents[j].op
            /\ intents[i].ref = intents[j].ref) => i = j

(* A call that was answered "bound" is right for good: the row keeps the    *)
(* wallet, the owner, the challenge and the transaction it answered with    *)
(* however many calls overlap, so two of them are never both told their own *)
(* value; and no challenge or transaction correlates two intents.           *)
BindingsHold ==
    /\ \A p \in Binders : bind[p].at = "answered" =>
         LET row == columns[bind[p].ask.intent][bind[p].ask.kind] IN
         /\ row.key = bind[p].ask.key
         /\ bind[p].ask.extra # Unbound => row.extra = bind[p].ask.extra
    /\ \A i, j \in BoundIntents : i # j =>
         /\ columns[i].circle.key # Unbound => columns[i].circle.key # columns[j].circle.key
         /\ columns[i].circle.extra # Unbound =>
              columns[i].circle.extra # columns[j].circle.extra

(* The identity of an intent: one intent to a payment, one payment to an    *)
(* intent, for a settlement one intent whoever pays, and columns that are   *)
(* bound once.                                                              *)
OneIntentPerPayment == AnswersFollowPayment /\ OneIntentPerInvoice /\ BindingsHold
=============================================================================
