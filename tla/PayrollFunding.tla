--------------------------- MODULE PayrollFunding ---------------------------
(***************************************************************************)
(* How much a cross-token payroll costs: payrollCrossTokenQuote searches    *)
(* for a gross input whose swapped net, less slippage, covers what is owed; *)
(* the page checks the answer against the balance, approves or attaches the *)
(* input and signs; executeCrossTokenPayroll takes its fee, swaps the rest  *)
(* and pays.  Three programs do the same integer arithmetic, and the pool   *)
(* moves between any two of their steps.                                    *)
(***************************************************************************)
EXTENDS Integers

CONSTANTS
    Debts,          \* totals owed, in the output token
    Slippages,      \* slippageBps
    FeeRatesPaid,   \* feeBps of the payroll contract
    BpsDenominator, \* 10_000
    Attempts,       \* probes (4)
    SwapLimit,      \* the largest uint128
    HopScale,       \* the scale of minHopPriceX36
    Pools,          \* states of the pool
    DeepPools,      \* those whose price does not depend on the amount
    Out(_, _),      \* what a pool pays for an input, for the quoter and the swap; its
                    \* balances are 128-bit numbers
    Balances,       \* input tokens the employer may own
    FundingLife,    \* seconds until a quote expires
    PayrollDeadline, \* crossDeadline: seconds a call may take (600)
    DeadlineWindow, \* MAX_DEADLINE_WINDOW
    MaxDelay,       \* bound: ticks of the clock
    MaxMoves        \* bound: times the pool moves

ASSUME FundingAssumption ==
    /\ DeepPools \subseteq Pools
    /\ Debts \subseteq Nat \ {0} /\ Balances \subseteq Nat
    /\ BpsDenominator \in Nat \ {0} /\ SwapLimit \in Nat /\ HopScale \in Nat
    /\ FeeRatesPaid \subseteq Nat /\ Slippages \subseteq 0..BpsDenominator
    /\ Attempts \in Nat /\ FundingLife \in Nat /\ PayrollDeadline \in 0..DeadlineWindow
    /\ DeadlineWindow \in Nat /\ MaxDelay \in Nat /\ MaxMoves \in Nat
    /\ \A p \in Pools, n \in 0..SwapLimit : Out(p, n) \in 0..SwapLimit

VARIABLES
    poolNow,   \* the pool
    poolMoves, \* how often it moved
    fundClock,
    search,    \* the request: what it asks for, the next probe, what it found
    order,     \* the page: the quote it holds and how far it is
    outcome    \* the contract's answer to the call

fundingVars == <<poolNow, poolMoves, fundClock, search, order, outcome>>

NotCalled == [result |-> "none"]

FundingInit ==
    /\ poolNow \in Pools /\ poolMoves = 0 /\ fundClock = 0
    /\ \E debt \in Debts, s \in Slippages, f \in FeeRatesPaid :
         search = [at |-> "probing", debt |-> debt, slippage |-> s, fee |-> f,
                   gross |-> debt, attempt |-> 0, out |-> 0, expires |-> 0]
    /\ \E b \in Balances : order = [at |-> "waiting", balance |-> b, gross |-> 0, min |-> 0,
                                    hop |-> 0, deadline |-> 0]
    /\ outcome = NotCalled

-----------------------------------------------------------------------------
(* The service and the contract take the fee off the gross input alike.     *)
FeeOf(gross, fee) == (gross * fee) \div BpsDenominator
NetOf(gross, fee) == gross - FeeOf(gross, fee)

FeeRoundedUp(gross, fee) ==  \* variant: the contract rounds in its own favour
    (gross * fee + BpsDenominator - 1) \div BpsDenominator

(* _fee of the contract *)
FeeTaken(gross, fee) == IF fee = 0 THEN 0 ELSE (gross * fee) \div BpsDenominator

(* applySlippage and calculateMinHopPriceX36: both refuse a floor of zero.  *)
LeastOut(out, slippage) == (out * (BpsDenominator - slippage)) \div BpsDenominator
HopFloor(net, out, slippage) ==
    (out * (BpsDenominator - slippage) * HopScale) \div (net * BpsDenominator)

ToppedUp(gross, debt, least) ==  \* variant: adds what is missing, as if the price were 1
    gross + debt - least

(* The larger input to try next: scaled up to the debt, rounded up, plus    *)
(* one unit.                                                                *)
ScaledUp(gross, debt, least) == (gross * debt + least - 1) \div least + 1

Refused == search' = [search EXCEPT !.at = "refused"]

(* One probe: liveQuote of the net input, at the pool's state of the moment *)
(* (PinBlock and LiveQuote of SwapFlow say which block that is).            *)
Probe ==
    /\ search.at = "probing"
    /\ LET net == NetOf(search.gross, search.fee)
           out == Out(poolNow, net)
           least == LeastOut(out, search.slippage)
           next == ScaledUp(search.gross, search.debt, least)
       IN  IF \/ search.attempt >= Attempts
              \/ net <= 0 \/ search.gross > SwapLimit
              \/ least <= 0 \/ HopFloor(net, out, search.slippage) <= 0
           THEN Refused
           ELSE IF least >= search.debt
           THEN search' = [search EXCEPT !.at = "found", !.out = out,
                                           !.expires = fundClock + FundingLife]
           ELSE IF next <= search.gross \/ next > SwapLimit
           THEN Refused
           ELSE search' = [search EXCEPT !.gross = next, !.attempt = @ + 1]
    /\ UNCHANGED <<poolNow, poolMoves, fundClock, order, outcome>>

(* The quorum, an RPC or the connection fails.                              *)
ProbeFails ==
    /\ search.at = "probing"
    /\ search' = [search EXCEPT !.at = "failed"]
    /\ UNCHANGED <<poolNow, poolMoves, fundClock, order, outcome>>

(* The answer reaches the page, which looks at its expiry, starts the       *)
(* deadline of the call and looks at the balance.                           *)
TakeFunding ==
    /\ search.at = "found" /\ order.at = "waiting"
    /\ order' = IF fundClock <= search.expires /\ order.balance >= search.gross
                THEN [order EXCEPT
                        !.at = "approving", !.gross = search.gross,
                        !.min = LeastOut(search.out, search.slippage),
                        !.hop = HopFloor(NetOf(search.gross, search.fee), search.out, search.slippage),
                        !.deadline = fundClock + PayrollDeadline]
                ELSE [order EXCEPT !.at = "stopped"]
    /\ UNCHANGED <<poolNow, poolMoves, fundClock, search, outcome>>

(* The input is approved (or attached as native value) and the call signed, *)
(* which may take the employer any time; or it is not.                      *)
SignPayroll ==
    /\ order.at = "approving"
    /\ \E next \in {"signed", "stopped"} : order' = [order EXCEPT !.at = next]
    /\ UNCHANGED <<poolNow, poolMoves, fundClock, search, outcome>>

-----------------------------------------------------------------------------
(* executeCrossTokenPayroll, its checks in order.  The router reverts when  *)
(* the swap pays less than the minimum or than the price floor.             *)
Verdict(call, fee, debt, got) ==
    LET gross == call.gross
        min == call.min
        net == gross - FeeTaken(gross, fee)
    IN  IF gross = 0 \/ gross > SwapLimit THEN "BadInput"
        ELSE IF min = 0 \/ min > SwapLimit THEN "BadMinimum"
        ELSE IF call.hop = 0 THEN "BadPriceFloor"
        ELSE IF call.deadline < fundClock THEN "DeadlineExpired"
        ELSE IF call.deadline > fundClock + DeadlineWindow THEN "DeadlineTooFar"
        ELSE IF min < debt THEN "MinTotalOutBelowObligations"
        ELSE IF got < min THEN "Slippage"
        ELSE IF (got * HopScale) \div net < call.hop THEN "PriceFloor"
        ELSE IF got < debt THEN "InsufficientSwapOutput"
        ELSE "paid"

MinePayroll ==
    /\ order.at = "signed" /\ outcome = NotCalled
    /\ LET fee == FeeTaken(order.gross, search.fee)
           got == Out(poolNow, order.gross - fee)
       IN  outcome' = [result |-> Verdict(order, search.fee, search.debt, got),
                       fee |-> fee, got |-> got, surplus |-> got - search.debt,
                       late |-> fundClock > order.deadline]
    /\ UNCHANGED <<poolNow, poolMoves, fundClock, search, order>>

PoolMoves ==
    /\ poolMoves < MaxMoves
    /\ poolMoves' = poolMoves + 1
    /\ poolNow' \in Pools
    /\ UNCHANGED <<fundClock, search, order, outcome>>

FundClockTicks ==
    /\ fundClock < MaxDelay
    /\ fundClock' = fundClock + 1
    /\ UNCHANGED <<poolNow, poolMoves, search, order, outcome>>

FundingNext == Probe \/ ProbeFails \/ TakeFunding \/ SignPayroll \/ MinePayroll
               \/ PoolMoves \/ FundClockTicks

FundingSpec == FundingInit /\ [][FundingNext]_fundingVars

-----------------------------------------------------------------------------
(* Properties *)

(* What the service finds covers the debt after fee and slippage, within    *)
(* the limits of the swap.                                                  *)
FundingCoversDebt ==
    search.at = "found" =>
        /\ LeastOut(search.out, search.slippage) >= search.debt
        /\ search.gross \in 1..SwapLimit
        /\ NetOf(search.gross, search.fee) > 0

(* The contract never turns away a call for its form: whatever the service  *)
(* quotes, the page signs and the contract checks agree to the last unit.   *)
(* Only a deadline that passed, or a pool that pays less than when it was   *)
(* quoted, makes a call fail.                                               *)
FundedCallHolds ==
    outcome # NotCalled =>
        /\ outcome.result \in {"paid", "Slippage", "PriceFloor", "DeadlineExpired"}
        /\ outcome.result = "DeadlineExpired" <=> outcome.late
        /\ outcome.got >= search.out /\ ~outcome.late => outcome.result = "paid"

(* A call that goes through pays everyone, out of what the employer had.    *)
PaidInFull ==
    outcome.result = "paid" =>
        /\ outcome.surplus >= 0 /\ outcome.got = search.debt + outcome.surplus
        /\ order.gross <= order.balance
        /\ outcome.fee = FeeOf(search.gross, search.fee) /\ order.gross = search.gross

(* The search does its work: against a deep pool that stays put it finds an *)
(* input within its four probes, unless the debt is dust (its first probe   *)
(* buys nothing) or the input would exceed what can be swapped.             *)
DeepPoolIsFunded ==
    LET leastFor(gross) == LeastOut(Out(poolNow, NetOf(gross, search.fee)), search.slippage)
    IN  search.at = "refused" /\ poolMoves = 0 /\ poolNow \in DeepPools
            => \/ leastFor(search.debt) = 0
               \/ ScaledUp(search.gross, search.debt, leastFor(search.gross)) > SwapLimit

(* Cross-token payrolls are funded exactly (mainnet-uniswap-v4.service.ts,  *)
(* useWizPayContract.ts, WizPayPayrollMainnet.sol).                         *)
PayrollIsFunded == FundingCoversDebt /\ FundedCallHolds /\ PaidInFull /\ DeepPoolIsFunded
=============================================================================
