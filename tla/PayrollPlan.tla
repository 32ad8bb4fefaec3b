----------------------------- MODULE PayrollPlan -----------------------------
(***************************************************************************)
(* From a payroll sheet to the batches the wallet signs: the composer      *)
(* (useWizPayState), the CSV import (batch-csv, useBatchComposerActions),  *)
(* the grouping by token in useBatchPayroll, and POST /tasks/payroll/init  *)
(* (PayrollValidationService, PayrollBatchService, the references and the  *)
(* approval amount of TaskService).                                        *)
(*                                                                         *)
(* The same amount is read three times by three parsers: Number() in the   *)
(* CSV preview, viem's parseUnits in the composer, a regular expression    *)
(* and digit padding in the backend.  Signing and reporting the batches    *)
(* are in PayrollRun.                                                      *)
(***************************************************************************)
EXTENDS Integers, Sequences, SequencesExt

CONSTANTS Addresses,     \* what a row's address field may hold
          TypedAmounts,       \* what a row's amount field may hold
          References,    \* what the reference field may hold
          LongReferences,\* those of more than 64 characters
          CsvFiles,      \* the files at hand: sequences of CSV rows
          Sender,        \* the connected wallet's account
          BatchSize,     \* PayrollBatchService.MAX_BATCH_SIZE (50)
          PlanFeeBps,    \* feeBps of WizPayPayrollMainnet (25)
          PlanBpsUnit,   \* 10_000
          Mantissa,      \* bits of a double's significand (53)
          MaxPlanEdits   \* bound on the user's edits

PlanTokens == {"USDC", "EURC"}

\* An address as typed: an account and how its letters are cased, or no address.
Blank == [acct |-> "", form |-> "blank"]

\* An amount as typed.  "plain": at most six places, `units` base units.  "fine":
\* more places, `units` whole units and a rest that rounds up when `up`.
\* "exponent": 1e3 and the like.  "negative": a plain amount below zero.
NoAmount == [form |-> "blank", units |-> 0, up |-> FALSE]

CreateRecipient(t) == [address |-> Blank, amount |-> NoAmount, token |-> t]

VARIABLES composer,  \* [token, rows, ref, edits]
          csv,       \* [loading, file, token, open, preview]
          market,    \* [cross: the capability, gate: the pool gate, fee: the feeBps read]
          planRun    \* the run in progress or the last one

planVars == <<composer, csv, market, planRun>>

NoPlanRun == [on |-> FALSE, rows |-> <<>>, token |-> "USDC", ref |-> <<>>, fee |-> 0,
              shown |-> 0, estimate |-> 0, left |-> <<>>, plans |-> <<>>, refused |-> FALSE]

NoFile == [loading |-> FALSE, file |-> <<>>, token |-> "USDC", open |-> FALSE, preview |-> <<>>]

PlanInit ==
  /\ composer = [token |-> "USDC", rows |-> <<CreateRecipient("USDC")>>,
                 ref |-> CHOOSE r \in References : r # <<>> /\ r \notin LongReferences, edits |-> 0]
  /\ csv = NoFile
  /\ market = [cross |-> TRUE, gate |-> TRUE, fee |-> 0]
  /\ planRun = NoPlanRun

SumSeq(s) == FoldSeq(LAMBDA x, y : x + y, 0, s)

--------------------------------------------------------------------------------
(* The three readings of an amount, the two of an address.                     *)

\* Number(amountRaw) > 0
CsvAmount(a) == \/ a.form = "plain" /\ a.units > 0
                \/ a.form \in {"fine", "exponent"}

\* parseAmountToUnits of the composer: parseUnits rounds the rest, throws on an exponent
ParseAmountToUnits(a) ==
  CASE a.form = "plain" -> a.units
    [] a.form = "fine" -> a.units + (IF a.up THEN 1 ELSE 0)
    [] a.form = "negative" -> -a.units
    [] OTHER -> 0

\* The backend's expression and its padding to six places
BackendAmount(a) == a.form = "plain" /\ a.units > 0

\* viem's isAddress, checksum included
ClassifyRecipientInput(a) == a.form \in {"lower", "checksum"}

--------------------------------------------------------------------------------
(* The composer.                                                               *)

\* The dialogs are modal and a run disables the fields.
Editable == ~planRun.on /\ ~csv.open /\ composer.edits < MaxPlanEdits

EditRows(rows) == composer' = [composer EXCEPT !.rows = rows, !.edits = @ + 1]

UpdateRecipient(i) ==
  /\ Editable
  /\ \/ \E a \in Addresses : EditRows([composer.rows EXCEPT ![i].address = a])
     \/ \E a \in TypedAmounts : EditRows([composer.rows EXCEPT ![i].amount = a])
     \/ \E t \in PlanTokens : EditRows([composer.rows EXCEPT ![i].token = t])
  /\ UNCHANGED <<csv, market, planRun>>

\* handleScannedAddress fills the row whose scanner was opened with a read address.
HandleScannedAddress(i) ==
  /\ Editable
  /\ \E a \in Addresses : /\ ClassifyRecipientInput(a)
                          /\ EditRows([composer.rows EXCEPT ![i].address = a])
  /\ UNCHANGED <<csv, market, planRun>>

\* addRecipient; the button stops at fifty rows
AddRecipient ==
  /\ Editable
  /\ Len(composer.rows) < BatchSize
  /\ EditRows(Append(composer.rows, CreateRecipient(composer.token)))
  /\ UNCHANGED <<csv, market, planRun>>

RemoveRecipient(i) ==
  /\ Editable
  /\ Len(composer.rows) > 1
  /\ EditRows(RemoveAt(composer.rows, i))
  /\ UNCHANGED <<csv, market, planRun>>

\* setSelectedToken leaves the rows' own tokens alone.
SelectToken(t) ==
  /\ Editable
  /\ composer' = [composer EXCEPT !.token = t, !.edits = @ + 1]
  /\ UNCHANGED <<csv, market, planRun>>

SetReferenceId(r) ==
  /\ Editable
  /\ composer' = [composer EXCEPT !.ref = r, !.edits = @ + 1]
  /\ UNCHANGED <<csv, market, planRun>>

\* resetComposer: a USDC row, whatever token is selected
ResetComposer ==
  /\ Editable
  /\ EditRows(<<CreateRecipient("USDC")>>)
  /\ planRun' = NoPlanRun
  /\ UNCHANGED <<csv, market>>

--------------------------------------------------------------------------------
(* The CSV import.                                                             *)

\* A row of a file: an address, an amount and a token cell, which may be empty
\* or name no supported token.
ResolvedToken(row, selected) == IF row.token \in PlanTokens THEN row.token ELSE selected

DedupeKey(row) == row.address.acct

\* An address with an error has no key; the first of several equal keys is kept
\* even when its row has another error.
Duplicate(file, i) ==
  /\ ClassifyRecipientInput(file[i].address)
  /\ \E j \in 1..(i - 1) : /\ ClassifyRecipientInput(file[j].address)
                           /\ DedupeKey(file[j]) = DedupeKey(file[i])

ValidCsvRow(file, i) ==
  /\ ClassifyRecipientInput(file[i].address)
  /\ CsvAmount(file[i].amount)
  /\ file[i].token \in PlanTokens \cup {""}
  /\ ~Duplicate(file, i)

\* buildCsvPreview's validRows
BuildCsvPreview(file, selected) ==
  LET valid == SelectSeq([i \in 1..Len(file) |-> i], LAMBDA i : ValidCsvRow(file, i))
  IN [k \in 1..Len(valid) |->
        [address |-> [acct |-> file[valid[k]].address.acct, form |-> "checksum"],
         amount  |-> file[valid[k]].amount,
         token   |-> ResolvedToken(file[valid[k]], selected)]]

\* The reader starts; onload keeps the token that was selected now.
HandleCsvUpload(f) ==
  /\ ~planRun.on /\ ~csv.loading /\ ~csv.open
  /\ composer.edits < MaxPlanEdits
  /\ csv' = [csv EXCEPT !.loading = TRUE, !.file = f, !.token = composer.token]
  /\ composer' = [composer EXCEPT !.edits = @ + 1]
  /\ UNCHANGED <<market, planRun>>

\* reader.onerror, or a file with nothing in it
ReaderFails ==
  /\ csv.loading
  /\ csv' = NoFile
  /\ UNCHANGED <<composer, market, planRun>>

ReaderLoads ==
  /\ csv.loading /\ csv.file # <<>>
  /\ csv' = [csv EXCEPT !.loading = FALSE, !.open = TRUE,
                        !.preview = BuildCsvPreview(csv.file, csv.token)]
  /\ UNCHANGED <<composer, market, planRun>>

\* importRecipients replaces the sheet; the dialog may be confirmed during a run
HandleConfirmCsvImport ==
  /\ csv.open /\ csv.preview # <<>>
  /\ composer' = [composer EXCEPT !.rows = csv.preview]
  /\ csv' = NoFile
  /\ UNCHANGED <<market, planRun>>

CloseCsvPreview ==
  /\ csv.open
  /\ csv' = NoFile
  /\ UNCHANGED <<composer, market, planRun>>

--------------------------------------------------------------------------------
(* The route, the totals shown and the run.                                    *)

\* preparedRecipients: the units of every row, valid or not
PreparedUnits(rows) == [i \in 1..Len(rows) |-> ParseAmountToUnits(rows[i].amount)]

BatchAmount(rows) == SumSeq(PreparedUnits(rows))

CeilBatches(n) == (n + BatchSize - 1) \div BatchSize

\* totalBatches of the composer: the number of wallet confirmations announced
TotalBatches(rows) == IF rows = <<>> THEN 1 ELSE CeilBatches(Len(rows))

\* detectCrossCurrencyTargets
CrossTargets(rows, t) == {r.token : r \in ToSet(rows)} \ {t}

\* resolvePayrollRoutePolicy looks at the rows with an amount only.
RoutePolicy(rows, t) ==
  LET priced == SelectSeq(rows, LAMBDA r : r.amount.form # "blank")
  IN IF CrossTargets(priced, t) = {} THEN "direct"
     ELSE IF market.cross THEN "atomic" ELSE "disabled"

ExecutionBlocked(rows, t) ==
  \/ RoutePolicy(rows, t) = "disabled"
  \/ RoutePolicy(rows, t) = "atomic" /\ ~market.gate

OtherToken(t) == IF t = "USDC" THEN "EURC" ELSE "USDC"

OfToken(rows, t) == SelectSeq(rows, LAMBDA r : r.token = t)

\* groupedRecipients: the source token's group first
OrderedGroups(rows, t) ==
  SelectSeq(<<OfToken(rows, t), OfToken(rows, OtherToken(t))>>, LAMBDA g : g # <<>>)

\* A reference is a list of words and numbers joined by hyphens.
Word(w) == [word |-> w, num |-> 0]
Num(n) == [word |-> "", num |-> n]

\* variant: every group submitted under the run's own reference
RunReferenceOnly(ref, t, groups) == ref

GroupReferenceId(ref, t, groups) ==
  IF groups = 1 THEN ref ELSE Append(ref, Word(t))

\* execute up to the first request; the fields it reads stay as they were at the click
Send ==
  /\ ~planRun.on /\ ~csv.open
  /\ composer.ref # <<>>
  /\ CrossTargets(composer.rows, composer.token) # {} =>
       ~ExecutionBlocked(composer.rows, composer.token)
  /\ planRun' = [on |-> TRUE, rows |-> composer.rows, token |-> composer.token,
                 ref |-> composer.ref, fee |-> market.fee,
                 shown |-> BatchAmount(composer.rows),
                 estimate |-> TotalBatches(composer.rows),
                 left |-> OrderedGroups(composer.rows, composer.token),
                 plans |-> <<>>, refused |-> FALSE]
  /\ UNCHANGED <<composer, csv, market>>

--------------------------------------------------------------------------------
(* POST /tasks/payroll/init.                                                   *)

\* PayrollValidationService.validate of one recipient
ValidRecipient(r) ==
  /\ ClassifyRecipientInput(r.address)
  /\ r.address.acct # Sender
  /\ BackendAmount(r.amount)
  /\ r.token \in PlanTokens

\* referenceId.length > 64
TooLong(ref) == \E r \in LongReferences : IsPrefix(r, ref)

\* assertPayroll and validate: a reference may be left out but not be too long
ValidatePayload(rows, t, ref) ==
  /\ CrossTargets(rows, t) = {} \/ market.cross
  /\ ~TooLong(ref)
  /\ rows # <<>>
  /\ \A i \in 1..Len(rows) : ValidRecipient(rows[i])

\* What is kept of the payload: the account, the units, the token, and where it stood
ValidatedRecipients(rows) ==
  [i \in 1..Len(rows) |-> [acct |-> rows[i].address.acct, units |-> rows[i].amount.units,
                           token |-> rows[i].token, row |-> i]]

\* groups.get(token) in order of first appearance
TokenGroups(rs) ==
  LET t == rs[1].token
  IN SelectSeq(<<OfToken(rs, t), OfToken(rs, OtherToken(t))>>, LAMBDA g : g # <<>>)

\* slice(i, i + MAX_BATCH_SIZE)
Chunk(g, i) == SubSeq(g, (i - 1) * BatchSize + 1, IF i * BatchSize < Len(g) THEN i * BatchSize ELSE Len(g))

Chunks(g) == [i \in 1..CeilBatches(Len(g)) |-> Chunk(g, i)]

SplitIntoBatches(rs) == FlattenSeq([k \in 1..Len(TokenGroups(rs)) |-> Chunks(TokenGroups(rs)[k])])

BatchTotal(b) == SumSeq([i \in 1..Len(b) |-> b[i].units])

CalculateTotals(batches) == SumSeq([k \in 1..Len(batches) |-> BatchTotal(batches[k])])

NormalizeReferenceId(ref) == IF ref = <<>> THEN <<Word("PAY"), Num(1)>> ELSE ref

\* A double holds Mantissa binary digits: the gap between the numbers around n,
\* and the one of them nearest to n, ties to the even digit
Ulp(n) == 2 ^ (CHOOSE k \in 0..n : /\ n < 2 ^ (k + Mantissa)
                                   /\ k > 0 => n >= 2 ^ (k - 1 + Mantissa))

Double(n) ==
  LET u == Ulp(n)
      below == n \div u
      rest  == n % u
      up    == 2 * rest > u \/ (2 * rest = u /\ below % 2 = 1)
  IN (below + (IF up THEN 1 ELSE 0)) * u

\* getBatchReferenceId, counting batches from zero: the first keeps the text it
\* was given, parseInt and the sum of the others are doubles.  (From 10^21 on the
\* sum prints with an exponent: no digits, but the same text for equal sums.)
GetBatchReferenceId(ref, i) ==
  CASE i = 0 -> ref
    [] i > 0 /\ Last(ref).word = "" ->
         Append(Front(ref), Num(Double(Double(Last(ref).num) + i)))
    [] OTHER -> Append(ref, Num(i + 1))

\* readPayrollFeeBps answers the constant 25 without asking the chain.
ReadPayrollFeeBps == PlanFeeBps

PayrollFee(n, bps) == (n * bps) \div PlanBpsUnit

\* payrollSameTokenApprovalAmountWithFee
ApprovalAmountWithFee(rs, t) ==
  SumSeq([i \in 1..Len(rs) |->
            IF rs[i].token = t THEN rs[i].units + PayrollFee(rs[i].units, ReadPayrollFeeBps) ELSE 0])

\* createPayrollTask up to its intents: the plan the answer describes
CreatePayrollPlan(rows, t, ref) ==
  LET rs      == ValidatedRecipients(rows)
      batches == SplitIntoBatches(rs)
      base    == NormalizeReferenceId(ref)
  IN [rows |-> rows, token |-> t, batches |-> batches, total |-> CalculateTotals(batches),
      refs |-> [k \in 1..Len(batches) |-> GetBatchReferenceId(base, k - 1)],
      approval |-> ApprovalAmountWithFee(rs, t)]

\* groupFeeInclusiveAmount: the page's own reading of the same sum
GroupFeeInclusiveAmount(rows, bps) ==
  SumSeq([i \in 1..Len(rows) |->
            LET n == ParseAmountToUnits(rows[i].amount)
            IN IF n <= 0 THEN 0 ELSE n + PayrollFee(n, bps)])

\* The larger of the two, asked of the wallet for the source token's group
AskedApproval(plan, bps) ==
  LET own == GroupFeeInclusiveAmount(plan.rows, bps)
  IN IF own > plan.approval THEN own ELSE plan.approval

\* The next group's request is answered with a plan, or refused, which ends the run.
InitGroup ==
  LET rows == Head(planRun.left)
      ref  == GroupReferenceId(planRun.ref, rows[1].token,
                               Len(OrderedGroups(planRun.rows, planRun.token)))
  IN /\ planRun.on /\ planRun.left # <<>>
     /\ \/ /\ ValidatePayload(rows, planRun.token, ref)
           /\ planRun' = [planRun EXCEPT !.left = Tail(@),
                            !.plans = Append(@, CreatePayrollPlan(rows, planRun.token, ref))]
        \/ /\ ~ValidatePayload(rows, planRun.token, ref)
           /\ planRun' = [planRun EXCEPT !.on = FALSE, !.refused = TRUE]
     /\ UNCHANGED <<composer, csv, market>>

\* Every group planned (its units are signed and reported in between): the lock is released
EndPlanRun ==
  /\ planRun.on /\ planRun.left = <<>>
  /\ planRun' = [planRun EXCEPT !.on = FALSE]
  /\ UNCHANGED <<composer, csv, market>>

\* A client of the endpoint that does not group the rows itself
InitDirect ==
  /\ ~planRun.on /\ ~csv.open
  /\ ValidatePayload(composer.rows, composer.token, composer.ref)
  /\ planRun' = [NoPlanRun EXCEPT !.rows = composer.rows, !.token = composer.token,
                   !.ref = composer.ref, !.shown = BatchAmount(composer.rows),
                   !.estimate = TotalBatches(composer.rows),
                   !.plans = <<CreatePayrollPlan(composer.rows, composer.token, composer.ref)>>]
  /\ UNCHANGED <<composer, csv, market>>

\* The capability and the pool gate change, the page's feeBps read arrives.
MarketMoves ==
  /\ \/ market' = [market EXCEPT !.cross = ~@]
     \/ market' = [market EXCEPT !.gate = ~@]
     \/ market' = [market EXCEPT !.fee = PlanFeeBps]
  /\ UNCHANGED <<composer, csv, planRun>>

PlanNext ==
  \/ \E i \in DOMAIN composer.rows : UpdateRecipient(i) \/ HandleScannedAddress(i) \/ RemoveRecipient(i)
  \/ AddRecipient
  \/ \E t \in PlanTokens : SelectToken(t)
  \/ \E r \in References : SetReferenceId(r)
  \/ ResetComposer
  \/ \E f \in CsvFiles : HandleCsvUpload(f)
  \/ ReaderFails \/ ReaderLoads \/ HandleConfirmCsvImport \/ CloseCsvPreview
  \/ Send \/ InitGroup \/ EndPlanRun \/ InitDirect
  \/ MarketMoves

PlanSpec == PlanInit /\ [][PlanNext]_planVars

--------------------------------------------------------------------------------
(* Properties.                                                                 *)

AllBatches == FlattenSeq([p \in 1..Len(planRun.plans) |-> planRun.plans[p].batches])

AllReferences == FlattenSeq([p \in 1..Len(planRun.plans) |-> planRun.plans[p].refs])

Complete == planRun.plans # <<>> /\ planRun.left = <<>> /\ ~planRun.refused

\* Nobody is left out of a plan and nobody is paid twice by it: the batches of a
\* plan hold every row of its payload exactly once, one token to a batch, at most
\* fifty rows each (splitIntoBatches).
BatchesPartition ==
  \A p \in 1..Len(planRun.plans) :
    LET plan == planRun.plans[p]
        held == FlattenSeq(plan.batches)
    IN /\ Len(held) = Len(plan.rows)
       /\ \A i \in 1..Len(plan.rows) :
            \E k \in 1..Len(held) : /\ held[k].row = i
                                    /\ held[k].acct = plan.rows[i].address.acct
       /\ \A k \in 1..Len(plan.batches) :
            /\ Len(plan.batches[k]) \in 1..BatchSize
            /\ \A i, j \in 1..Len(plan.batches[k]) :
                 plan.batches[k][i].token = plan.batches[k][j].token

\* Two batches of one run never share a reference, however many token groups it has,
\* as long as the number the run's reference ends in, counted up once per batch, is
\* one a double holds exactly: the contract pays a reference once, and the intent's
\* key and the browser's recovery record are both named by it.  Beyond 2^Mantissa
\* getBatchReferenceId does give two batches one reference (R-8 with three digits,
\* R-9007199254740992 in the program).
ReferencesDistinct ==
  \A i, j \in 1..Len(AllReferences) :
    AllReferences[i] = AllReferences[j] =>
      i = j \/ Last(AllReferences[1]).num + Len(AllReferences) - 1 > 2 ^ Mantissa

\* The approval asked of the wallet is enough for every batch of the source token,
\* whether or not the page has read the contract's fee (payrollSameTokenApproval-
\* AmountWithFee, groupFeeInclusiveAmount).
ApprovalFundsEveryBatch ==
  \A p \in 1..Len(planRun.plans) :
    LET plan == planRun.plans[p]
        own  == SelectSeq(FlattenSeq(plan.batches), LAMBDA r : r.token = plan.token)
    IN own # <<>> =>
         AskedApproval(plan, planRun.fee) >=
           SumSeq([i \in 1..Len(own) |-> own[i].units + PayrollFee(own[i].units, PlanFeeBps)])

\* What a completed plan pays is the gross amount the page showed when Send was
\* pressed, although page and backend read the typed amounts with different parsers.
ShownIsPlanned ==
  Complete =>
    SumSeq([p \in 1..Len(planRun.plans) |-> planRun.plans[p].total]) = planRun.shown

\* For a run in one token the number of confirmations announced before Send is the
\* number of batches the backend plans.
EstimateIsExact ==
  (Complete /\ CrossTargets(planRun.rows, planRun.token) = {}) =>
    Len(AllBatches) = planRun.estimate

\* A file that names an account twice, in whatever casing, is offered for import
\* with one row for that account (buildCsvPreview's duplicate check).
ImportedOnce ==
  csv.open =>
    \A i, j \in 1..Len(csv.preview) :
      csv.preview[i].address.acct = csv.preview[j].address.acct => i = j

\* The plan covers the sheet: every row once, under references that are distinct
\* while they count in exact integers, with enough approved, for the amount and
\* the confirmations announced, from a file imported once.
PlanCoversSheet ==
    /\ BatchesPartition
    /\ ReferencesDistinct
    /\ ApprovalFundsEveryBatch
    /\ ShownIsPlanned
    /\ EstimateIsExact
    /\ ImportedOnce
================================================================================
