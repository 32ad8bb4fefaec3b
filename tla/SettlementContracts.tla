------------------------ MODULE SettlementContracts ------------------------
(***************************************************************************)
(* The three payment contracts on one ledger: WizPayPayrollMainnet          *)
(* ("payroll"), WizPaySwapExecutorMainnet ("executor") and WizPayMainnetV2  *)
(* ("direct").  A transaction is one step; a call that reverts changes      *)
(* nothing, so every revert is a conjunct of the step.  Native USDC and the *)
(* ERC-20 USDC are one balance on Arc, in ERC-20 units here: msg.value is   *)
(* the same money times ARC_NATIVE_USDC_SCALE.  The Universal Router is     *)
(* external: it may consume any part of the input it is offered and deliver *)
(* any output to either side.                                               *)
(***************************************************************************)
EXTENDS Integers, Sequences, FiniteSets, SequencesExt

CONSTANTS
    Employers,     \* accounts that pay and swap
    Staff,         \* accounts that are paid
    Refs,          \* reference ids
    MaxAmount,     \* bound: amounts an employer asks for
    Funds,         \* what each employer holds in each token at the start
    FeeBps,        \* feeBps of a deployment (25), per BpsUnit
    BpsUnit,       \* 10_000
    MaxDeployed,   \* bound: contracts of one behaviour (they do not call each other)
    MaxReceipts,   \* bound: successful payments
    MaxDonations   \* bound: transfers made to a contract without calling it

ASSUME SettlementAssumption ==
    /\ {MaxAmount, Funds, FeeBps, MaxDeployed, MaxReceipts, MaxDonations} \subseteq Nat
    /\ BpsUnit \in Nat \ {0}
    /\ FeeBps <= BpsUnit
    /\ IsFiniteSet(Employers)
    /\ (Employers \cup Staff) \cap {"payroll", "executor", "direct", "pool"} = {}

VARIABLES
    ledger,      \* balances: account -> token -> amount
    allowance,   \* ERC-20 approval of an employer to a contract
    deployed,    \* the contract was constructed
    paused,      \* Pausable
    unpaused,    \* ghost: the owner has unpaused the contract at least once
    used,        \* usedReferenceHashes
    terms,       \* the direct contract's feeBps and feeCollector
    receipts,    \* what the successful calls emitted
    gifts,       \* ghost: tokens sent to a contract without a call
    withdrawn    \* ghost: USDC taken by emergencyWithdraw

settlementVars == <<ledger, allowance, deployed, paused, unpaused, used, terms, receipts,
                    gifts, withdrawn>>

Tokens == {"USDC", "EURC"}
Contracts == {"payroll", "executor", "direct"}
Owner == "safe"
Collectors == {Owner, "treasury"}
Accounts == Employers \cup Staff \cup Contracts \cup Collectors \cup {"pool"}
Amounts == 1..MaxAmount

Other(t) == IF t = "USDC" THEN "EURC" ELSE "USDC"

(* A batch an employer hands to c: one or two recipients and amounts, the   *)
(* employer and the contract itself among the recipients it may name.       *)
Batches(c, employer) ==
    UNION {[1..n -> [to : Staff \cup {employer, c}, amount : Amounts]] : n \in 1..2}

SumOf(values) ==
    LET sum[n \in 0..Len(values)] == IF n = 0 THEN 0 ELSE sum[n - 1] + values[n]
    IN  sum[Len(values)]

(* _fee: floor per payment. *)
Fee(amount, bps) == (amount * bps) \div BpsUnit

(* What a batch pays in all, what is charged for it, and how much of it an  *)
(* account is paid.                                                         *)
TotalOf(payments) == SumOf([i \in DOMAIN payments |-> payments[i].amount])

FeesOf(payments, bps) == SumOf([i \in DOMAIN payments |-> Fee(payments[i].amount, bps)])

AmountTo(payments, a) ==
    SumOf([i \in DOMAIN payments |-> IF payments[i].to = a THEN payments[i].amount ELSE 0])

(* canonicalReferenceHash: the contract, the employer and the id; the token *)
(* pair and the details are not part of the replay key.                     *)
ReferenceHash(c, employer, ref) == <<c, employer, ref>>

SettlementInit ==
    /\ ledger = [a \in Accounts |-> [t \in Tokens |-> IF a \in Employers THEN Funds ELSE 0]]
    /\ allowance = [e \in Employers |-> [c \in Contracts |-> [t \in Tokens |-> 0]]]
    /\ deployed = {}
    /\ paused = {}
    /\ unpaused = {}
    /\ used = {}
    /\ terms = [bps |-> 0, collector |-> Owner]
    /\ receipts = <<>>
    /\ gifts = [g \in Employers \X Contracts \X Tokens |-> 0]
    /\ withdrawn = 0

-----------------------------------------------------------------------------
(* Transfers *)

Transfer(token, from, to, amount) == [token |-> token, from |-> from, to |-> to, amount |-> amount]

Pay(balances, x) ==
    IF x.from = x.to THEN balances
    ELSE [balances EXCEPT ![x.from][x.token] = @ - x.amount, ![x.to][x.token] = @ + x.amount]

(* safeTransfer and safeTransferFrom one after the other. *)
RunTransfers(balances, transfers) ==
    LET run[n \in 0..Len(transfers)] ==
            IF n = 0 THEN balances ELSE Pay(run[n - 1], transfers[n])
    IN  run[Len(transfers)]

(* Every balance a transfer debited is still covered, or the call reverts. *)
Covered(balances) == \A a \in Accounts \ {"pool"}, t \in Tokens : balances[a][t] >= 0

-----------------------------------------------------------------------------
(* Deployment and administration *)

(* The constructors: the arguments they check (the chain, the code at each  *)
(* address, the fee recipient being the owner, the pool parameters and the  *)
(* router's own pool manager).  Payroll and executor are born paused; the   *)
(* direct contract is not.                                                  *)
ConstructorArgs == [onArc : BOOLEAN, code : BOOLEAN, feeToOwner : BOOLEAN, pool : BOOLEAN]

ConstructorAccepts(c, args) ==
    /\ args.code
    /\ c # "direct" => args.onArc /\ args.feeToOwner /\ args.pool

BornPaused == {"payroll", "executor"}

Deploy(c, args) ==
    /\ c \notin deployed /\ Cardinality(deployed) < MaxDeployed
    /\ ConstructorAccepts(c, args)
    /\ deployed' = deployed \cup {c}
    /\ paused' = IF c \in BornPaused THEN paused \cup {c} ELSE paused
    /\ terms' = IF c = "direct" THEN [terms EXCEPT !.bps = FeeBps] ELSE terms
    /\ UNCHANGED <<ledger, allowance, unpaused, used, receipts, gifts,
                   withdrawn>>

Pause(c) ==
    /\ c \in deployed \ paused
    /\ paused' = paused \cup {c}
    /\ UNCHANGED <<ledger, allowance, deployed, unpaused, used, terms, receipts, gifts,
                   withdrawn>>

Unpause(c) ==
    /\ c \in deployed \cap paused
    /\ paused' = paused \ {c}
    /\ unpaused' = unpaused \cup {c}
    /\ UNCHANGED <<ledger, allowance, deployed, used, terms, receipts, gifts,
                   withdrawn>>

(* updateFee and updateFeeCollector of the direct contract: paused only. *)
UpdateTerms(bps, collector) ==
    /\ "direct" \in deployed \cap paused
    /\ terms' = [bps |-> bps, collector |-> collector]
    /\ terms' # terms
    /\ UNCHANGED <<ledger, allowance, deployed, paused, unpaused, used, receipts, gifts,
                   withdrawn>>

(* emergencyWithdraw: the owner takes USDC the direct contract holds.  The  *)
(* other two only rescue other tokens, which this ledger does not have.     *)
EmergencyWithdraw(amount) ==
    /\ "direct" \in deployed \cap paused
    /\ ledger["direct"]["USDC"] >= amount
    /\ ledger' = Pay(ledger, Transfer("USDC", "direct", Owner, amount))
    /\ withdrawn' = withdrawn + amount
    /\ UNCHANGED <<allowance, deployed, paused, unpaused, used, terms, receipts, gifts>>

(* An employer approves a contract, or sends it tokens without calling it. *)
Approve(employer, c, token, amount) ==
    /\ c \in deployed
    /\ allowance[employer][c][token] # amount
    /\ allowance' = [allowance EXCEPT ![employer][c][token] = amount]
    /\ UNCHANGED <<ledger, deployed, paused, unpaused, used, terms, receipts, gifts,
                   withdrawn>>

(* The sum of count over a list and over a set; the lists are constants,     *)
(* which TLC computes once.                                                 *)
SumAlong(members, count) == SumOf([i \in DOMAIN members |-> count[members[i]]])

SumOver(S, count) == SumAlong(SetToSeq(S), count)

EmployerList == SetToSeq(Employers)
ContractList == SetToSeq(Contracts)
GiftList == SetToSeq(Employers \X Contracts \X Tokens)

GiftsTo(c, token) == SumAlong(EmployerList, [e \in Employers |-> gifts[<<e, c, token>>]])

GiftsOf(e, token) == SumAlong(ContractList, [c \in Contracts |-> gifts[<<e, c, token>>]])

Donate(employer, c, token) ==
    /\ c \in deployed
    /\ SumAlong(GiftList, gifts) < MaxDonations
    /\ ledger' = Pay(ledger, Transfer(token, employer, c, 1))
    /\ Covered(ledger')
    /\ gifts' = [gifts EXCEPT ![<<employer, c, token>>] = @ + 1]
    /\ UNCHANGED <<allowance, deployed, paused, unpaused, used, terms, receipts, withdrawn>>

-----------------------------------------------------------------------------
(* Payments *)

(* nonReentrant whenNotPaused, and the replay check. *)
Callable(c) == c \in deployed \ paused /\ Len(receipts) < MaxReceipts

Unused(c, employer, ref) == ReferenceHash(c, employer, ref) \notin used

(* _validateRecipient: not the caller and not the contract itself. *)
ValidRecipients(c, employer, payments) ==
    \A i \in DOMAIN payments : payments[i].to \notin {employer, c}

(* safeTransferFrom: the approval covers the amount and is spent. *)
Spend(employer, c, token, amount) ==
    /\ allowance[employer][c][token] >= amount
    /\ allowance' = [allowance EXCEPT ![employer][c][token] = @ - amount]

PaymentTransfers(c, token, payments) ==
    [i \in DOMAIN payments |-> Transfer(token, c, payments[i].to, payments[i].amount)]

(* variant: PayrollBatchExecuted reports the input without its fees. *)
EmitWithoutFees(c, employer, ref, tokenIn, input, tokenOut, payments, fees, feeTo, back) ==
    receipts' = Append(receipts,
        [contract |-> c, employer |-> employer, ref |-> ref, tokenIn |-> tokenIn,
         input |-> input - fees, tokenOut |-> tokenOut, payments |-> payments, fees |-> fees,
         feeTo |-> feeTo, back |-> back])

Emit(c, employer, ref, tokenIn, input, tokenOut, payments, fees, feeTo, back) ==
    receipts' = Append(receipts,
        [contract |-> c, employer |-> employer, ref |-> ref, tokenIn |-> tokenIn,
         input |-> input, tokenOut |-> tokenOut, payments |-> payments, fees |-> fees,
         feeTo |-> feeTo, back |-> back])

(* The Residual*Balance checks: a call leaves the contract's own balances   *)
(* as it found them.                                                        *)
NoResidue(c, after) == \A t \in Tokens : after[c][t] = ledger[c][t]

(* executeSameTokenPayroll: the employer funds the obligations and the fee  *)
(* of each on top; every recipient gets its amount; the contract's balance  *)
(* must come back to where it was.                                          *)
SameTokenPayroll(employer, token, payments, ref) ==
    LET obligations == TotalOf(payments)
        fees == FeesOf(payments, FeeBps)
        funded == Pay(ledger, Transfer(token, employer, "payroll", obligations + fees))
        after == RunTransfers(funded,
                     <<Transfer(token, "payroll", Owner, fees)>>
                       \o PaymentTransfers("payroll", token, payments))
    IN  /\ Callable("payroll") /\ Unused("payroll", employer, ref)
        /\ ValidRecipients("payroll", employer, payments)
        /\ Spend(employer, "payroll", token, obligations + fees)
        /\ Covered(funded)
        /\ NoResidue("payroll", after)
        /\ ledger' = after
        /\ used' = used \cup {ReferenceHash("payroll", employer, ref)}
        /\ Emit("payroll", employer, ref, token, obligations + fees, token, payments, fees,
                Owner, 0)
        /\ UNCHANGED <<deployed, paused, unpaused, terms, gifts, withdrawn>>

(* What the external router does with the input it is offered: how much of  *)
(* it it keeps, how much it delivers and whether to the recipient it was    *)
(* given or to the calling contract.                                        *)
RouterOutcomes == [kept : {"all", "part"}, out : 0..(MaxAmount + 1),
                   to : {"recipient", "contract"}]

Kept(net, router) == IF router.kept = "all" \/ net = 0 THEN net ELSE net - 1

(* The input leg of a swap: the gross amount enters the contract c, the fee *)
(* goes to the owner, the router keeps what it keeps of the net amount.     *)
InputLeg(balances, c, employer, tokenIn, gross, router) ==
    LET fee == Fee(gross, FeeBps)
    IN  RunTransfers(balances,
            << Transfer(tokenIn, employer, c, gross), Transfer(tokenIn, c, Owner, fee),
               Transfer(tokenIn, c, "pool", Kept(gross - fee, router)) >>)

(* EURC is pulled with the caller's approval; USDC arrives as msg.value.    *)
SpendInput(employer, c, tokenIn, gross) ==
    IF tokenIn = "EURC" THEN Spend(employer, c, tokenIn, gross) ELSE UNCHANGED allowance

(* executeCrossTokenPayroll: one aggregate swap whose output is taken to    *)
(* the contract, the obligations paid from what the swap delivered, the     *)
(* surplus returned; neither balance may keep a residue.                    *)
CrossTokenPayroll(employer, tokenIn, payments, gross, minTotalOut, ref, router) ==
    LET tokenOut == Other(tokenIn)
        obligations == TotalOf(payments)
        paidIn == InputLeg(ledger, "payroll", employer, tokenIn, gross, router)
        swapped == Pay(paidIn, Transfer(tokenOut, "pool", "payroll", router.out))
        amountOut == swapped["payroll"][tokenOut] - ledger["payroll"][tokenOut]
        after == RunTransfers(swapped,
                     PaymentTransfers("payroll", tokenOut, payments)
                       \o <<Transfer(tokenOut, "payroll", employer, amountOut - obligations)>>)
    IN  /\ Callable("payroll") /\ Unused("payroll", employer, ref)
        /\ ValidRecipients("payroll", employer, payments)
        /\ minTotalOut >= obligations
        /\ SpendInput(employer, "payroll", tokenIn, gross)
        /\ ledger[employer][tokenIn] >= gross
        /\ amountOut >= obligations /\ amountOut >= minTotalOut
        /\ NoResidue("payroll", after)
        /\ ledger' = after
        /\ used' = used \cup {ReferenceHash("payroll", employer, ref)}
        /\ Emit("payroll", employer, ref, tokenIn, gross, tokenOut, payments,
                Fee(gross, FeeBps), Owner, amountOut - obligations)
        /\ UNCHANGED <<deployed, paused, unpaused, terms, gifts, withdrawn>>

(* _validateSwap: amounts and limits are positive (deadline and the 128-bit *)
(* bounds revert before anything moves).                                    *)
ValidSwap(amountIn, minAmountOut) == amountIn > 0 /\ minAmountOut > 0

(* executeSwap: the output goes straight to the caller; the executor checks *)
(* that nothing of either token stayed with it and that the caller's own    *)
(* balance grew by the minimum.                                             *)
ExecuteSwap(caller, tokenIn, amountIn, minAmountOut, router) ==
    LET tokenOut == Other(tokenIn)
        paidIn == InputLeg(ledger, "executor", caller, tokenIn, amountIn, router)
        taker == IF router.to = "recipient" THEN caller ELSE "executor"
        after == Pay(paidIn, Transfer(tokenOut, "pool", taker, router.out))
        amountOut == after[caller][tokenOut] - ledger[caller][tokenOut]
    IN  /\ Callable("executor") /\ ValidSwap(amountIn, minAmountOut)
        /\ SpendInput(caller, "executor", tokenIn, amountIn)
        /\ ledger[caller][tokenIn] >= amountIn
        /\ NoResidue("executor", after)
        /\ amountOut >= minAmountOut
        /\ ledger' = after
        /\ Emit("executor", caller, "none", tokenIn, amountIn, tokenOut, <<>>,
                Fee(amountIn, FeeBps), Owner, amountOut)
        /\ UNCHANGED <<deployed, paused, unpaused, used, terms, gifts, withdrawn>>

(* getBatchEstimatedOutputs: the net amount of each payment. *)
EstimatedOutputs(payments) ==
    [i \in DOMAIN payments |-> [payments[i] EXCEPT !.amount = @ - Fee(@, terms.bps)]]

(* batchRouteAndPay of the direct contract: USDC only, the fee comes out of *)
(* each amount, and each recipient gets at least its minimum.               *)
BatchRouteAndPay(employer, payments, minimum, ref) ==
    LET total == TotalOf(payments)
        fees == FeesOf(payments, terms.bps)
        net == EstimatedOutputs(payments)
        funded == Pay(ledger, Transfer("USDC", employer, "direct", total))
        after == RunTransfers(funded,
                     <<Transfer("USDC", "direct", terms.collector, fees)>>
                       \o PaymentTransfers("direct", "USDC", net))
    IN  /\ Callable("direct") /\ Unused("direct", employer, ref)
        /\ \A i \in DOMAIN payments : payments[i].to # employer
        /\ Spend(employer, "direct", "USDC", total)
        /\ Covered(funded)
        /\ \A i \in DOMAIN net : net[i].amount >= minimum
        /\ NoResidue("direct", after)
        /\ ledger' = after
        /\ used' = used \cup {ReferenceHash("direct", employer, ref)}
        /\ Emit("direct", employer, ref, "USDC", total, "USDC", net, fees,
                terms.collector, 0)
        /\ UNCHANGED <<deployed, paused, unpaused, terms, gifts, withdrawn>>

SettlementNext ==
    \/ \E c \in Contracts, args \in ConstructorArgs : Deploy(c, args)
    \/ \E c \in Contracts : Pause(c) \/ Unpause(c)
    \/ \E bps \in {0, FeeBps}, collector \in Collectors : UpdateTerms(bps, collector)
    \/ \E amount \in Amounts : EmergencyWithdraw(amount)
    \/ \E e \in Employers, c \in Contracts, t \in Tokens :
          Approve(e, c, t, Funds) \/ Donate(e, c, t)
    \/ /\ Callable("payroll")
       /\ \E e \in Employers : \E payments \in Batches("payroll", e), ref \in Refs, t \in Tokens :
             /\ ValidRecipients("payroll", e, payments)
             /\ \/ SameTokenPayroll(e, t, payments, ref)
                \/ (\E gross \in Amounts, router \in RouterOutcomes, minimum \in {1, MaxAmount} :
                       CrossTokenPayroll(e, t, payments, gross, minimum, ref, router))
    \/ /\ Callable("direct")
       /\ \E e \in Employers : \E payments \in Batches("direct", e), ref \in Refs, minimum \in 0..1 :
             BatchRouteAndPay(e, payments, minimum, ref)
    \/ /\ Callable("executor")
       /\ \E e \in Employers, t \in Tokens, amount \in 0..MaxAmount, minimum \in 0..1,
             router \in RouterOutcomes : ExecuteSwap(e, t, amount, minimum, router)

SettlementSpec == SettlementInit /\ [][SettlementNext]_settlementVars

-----------------------------------------------------------------------------
(* Properties *)

(* Types of the ledger and of the contracts' storage; every balance of an  *)
(* account other than the pool is a natural number (no transfer overdraws). *)
SettlementTypeOK ==
    /\ \A a \in Accounts, t \in Tokens : ledger[a][t] \in Int
    /\ Covered(ledger)
    /\ \A e \in Employers, c \in Contracts, t \in Tokens : allowance[e][c][t] \in 0..Funds
    /\ deployed \subseteq Contracts /\ paused \subseteq deployed
    /\ used \subseteq Contracts \X Employers \X Refs
    /\ terms \in [bps : 0..BpsUnit, collector : Collectors]

(* What the events of a receipt say an account was paid in a token. *)
PaidInto(r, a, t) == IF t = r.tokenOut THEN AmountTo(r.payments, a) ELSE 0

(* Whatever the router does, no contract ends a call richer or poorer: it   *)
(* holds exactly what reached it outside its calls (less what the owner     *)
(* withdrew from the direct contract).                                      *)
KeepsNothing ==
    \A c \in Contracts, t \in Tokens :
        ledger[c][t] = GiftsTo(c, t)
            + SumOf([i \in DOMAIN receipts |-> PaidInto(receipts[i], c, t)])
            - (IF c = "direct" /\ t = "USDC" THEN withdrawn ELSE 0)

(* What the emitted events say a receipt moved into and out of an account. *)
Received(r, a, t) ==
    PaidInto(r, a, t)
    + (IF t = r.tokenOut /\ a = r.employer THEN r.back ELSE 0)
    + (IF t = r.tokenIn /\ a = r.feeTo THEN r.fees ELSE 0)
    - (IF t = r.tokenIn /\ a = r.employer THEN r.input ELSE 0)

(* The receipts account for every balance: an employer lost what its events *)
(* say it paid (its gifts aside), every recipient got exactly the amounts   *)
(* of its PayrollPayment events and the fee recipient exactly the fees.     *)
EventsAccountForBalances ==
    \A a \in Employers \cup Staff \cup Collectors, t \in Tokens :
        ledger[a][t] = (IF a \in Employers THEN Funds ELSE 0)
            + SumOf([i \in DOMAIN receipts |-> Received(receipts[i], a, t)])
            - (IF a \in Employers THEN GiftsOf(a, t) ELSE 0)
            + (IF a = Owner /\ t = "USDC" THEN withdrawn ELSE 0)

(* A reference id pays an employer's batch once per contract, on whichever  *)
(* route: the same-token and the cross-token entry points of the payroll    *)
(* contract share one replay domain.                                        *)
ReferencePaysOnce ==
    \A i, j \in DOMAIN receipts :
        (/\ receipts[i].contract = receipts[j].contract
         /\ receipts[i].contract # "executor"
         /\ receipts[i].employer = receipts[j].employer
         /\ receipts[i].ref = receipts[j].ref) => i = j

(* The payroll contract and the executor move no money before their owner  *)
(* has unpaused them: deployment never implies activation.                  *)
ActivatedByOwner ==
    \A i \in DOMAIN receipts :
        receipts[i].contract # "direct" => receipts[i].contract \in unpaused

(* The contracts account for the money that passes through them: types and  *)
(* no overdraft, nothing kept, every balance explained by events, no        *)
(* reference paid twice, nothing moved before activation.                   *)
MoneyIsAccounted ==
    /\ SettlementTypeOK
    /\ KeepsNothing
    /\ EventsAccountForBalances
    /\ ReferencePaysOnce
    /\ ActivatedByOwner
=============================================================================
