----------------------------- MODULE MCInvoices -----------------------------
(* Invoices and the merchant's pages for them, and the pages that prepare   *)
(* and make other payments: the swap page, the payroll sheet, the funding   *)
(* of a batch and the run of the batches.  They do not interact here: a     *)
(* behaviour is one of a single component, the others stay where they       *)
(* start.                                                                   *)
EXTENDS MCInvoiceSettlement, SwapFlow, PayrollPlan, PayrollRun, PayrollFunding,
        MerchantInvoices

VARIABLE focus

(* Cells of a sheet and of files: one account in two spellings, a     *)
(* miscased address, amounts and tokens that are not accepted.              *)
A(a, f) == [acct |-> a, form |-> f]
N(f, u, up) == [form |-> f, units |-> u, up |-> up]
CsvRow(a, n, t) == [address |-> a, amount |-> n, token |-> t]
MCAddresses == {A("a", "lower"), A("b", "miscased"), A("me", "checksum")}
MCAmounts == {N("plain", 3, FALSE), N("fine", 1, TRUE), N("exponent", 1, FALSE),
              N("negative", 1, FALSE)}
MCReferences == {<<Word("R")>>, <<Word("R"), Num(7)>>, <<Word("R"), Num(8)>>, <<>>,
                 <<Word("LONG")>>}
MCLongReferences == {<<Word("LONG")>>}
MCFiles ==
    {<<>>,
     <<CsvRow(A("a", "lower"), N("plain", 3, FALSE), "USDC"),
       CsvRow(A("a", "checksum"), N("plain", 1, FALSE), "EURC"),
       CsvRow(A("c", "lower"), N("plain", 2, FALSE), "")>>,
     <<CsvRow(A("b", "miscased"), N("plain", 1, FALSE), ""),
       CsvRow(A("a", "lower"), N("negative", 1, FALSE), ""),
       CsvRow(A("d", "lower"), N("exponent", 1, FALSE), "")>>,
     <<CsvRow(A("a", "lower"), N("plain", 1, FALSE), "EURC"),
       CsvRow(A("c", "lower"), N("plain", 1, FALSE), "other"),
       CsvRow(A("d", "lower"), N("plain", 1, FALSE), "EURC"),
       CsvRow(A("e", "lower"), N("plain", 1, FALSE), "EURC")>>}

MCBatches == <<4, 4>>

(* A poor and a good price, a pool that runs dry.                           *)
Deep(num, den) == [num |-> num, den |-> den, dry |-> 1000]
MCDeepPools == {Deep(1, 2), Deep(9, 10), Deep(3, 2)}
MCPools == MCDeepPools \cup {[num |-> 1, den |-> 1, dry |-> 3]}
MCOut(p, n) == LET got == (n * p.num) \div p.den IN IF got > p.dry THEN p.dry ELSE got

(* "0", "1.5", a digit too many, a leading zero; two merchants' rows.       *)
Text(whole, frac, digits, padded) ==
    [whole |-> whole, frac |-> frac, digits |-> digits, padded |-> padded]
MCTexts == {Text(0, 0, 0, FALSE), Text(1, 5, 1, FALSE), Text(0, 25, 2, FALSE),
            Text(1, 0, 0, TRUE)}
MCZones == {-1, 1}
MCOld == <<[owner |-> "m1", status |-> "OPEN"], [owner |-> "m2", status |-> "OPEN"],
           [owner |-> "m1", status |-> "OPEN"]>>
MCAsked == [list |-> 3, detail |-> 3, new |-> 2]
MCMishaps == [list |-> 1, detail |-> 3, new |-> 1]
OneForm == newPage.zone = 1 /\ newPage.amount = Text(0, 0, 0, FALSE)

MCInit ==
    /\ focus \in {"invoices", "swap", "plan", "run", "funding", "merchant"}
    /\ Init /\ SwapInit /\ PlanInit /\ RunInit /\ FundingInit /\ MerchantInit
    /\ focus # "funding" =>
         /\ poolNow = Deep(1, 2) /\ search.debt = 1 /\ search.slippage = 1 /\ search.fee = 0
         /\ order.balance = 30
    /\ merchant = "m1"
    /\ focus # "merchant" => openPage = "list"
    /\ focus = "merchant" /\ openPage = "new" => newPage.amount = Text(0, 0, 0, FALSE)
    /\ focus # "merchant" \/ openPage # "new" => OneForm
    /\ focus # "swap" => pool.rate[0] = CHOOSE r \in Rates : TRUE
    /\ focus # "run" => route = "same"

MCNext ==
    /\ UNCHANGED focus
    /\ IF focus = "invoices" THEN Next ELSE UNCHANGED vars
    /\ IF focus = "swap" THEN SwapNext ELSE UNCHANGED swapVars
    /\ IF focus = "plan" THEN PlanNext ELSE UNCHANGED planVars
    /\ IF focus = "run" THEN RunNext ELSE UNCHANGED runVars
    /\ IF focus = "funding" THEN FundingNext ELSE UNCHANGED fundingVars
    /\ IF focus = "merchant" THEN MerchantNext ELSE UNCHANGED merchantVars

MCSpec == MCInit /\ [][MCNext]_<<vars, swapVars, planVars, runVars, fundingVars, merchantVars, focus>>
=============================================================================
