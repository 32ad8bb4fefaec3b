---------------------------- MODULE FxSettlement ----------------------------
(***************************************************************************)
(* The FX services of the backend: the routing guard with its circuit       *)
(* breaker, the settlement poller with the output validator and the retry   *)
(* policy, and the wind-down of the retired liquidity pool.  FxModule       *)
(* registers them and nothing in the repository calls them yet: the job     *)
(* that polls, the operator and the depositors are external, and call them  *)
(* as the services' comments and tests do.                                  *)
(***************************************************************************)
EXTENDS Naturals, Sequences, FiniteSets, SequencesExt

CONSTANTS
    BreakerWindow, BreakerThreshold,   \* 20 and 3 in the code
    MaxOutcomes,       \* bound: outcomes recorded
    Outputs,           \* amounts the trade may settle
    MinOutput,         \* the least output the payer accepts
    PollAttempts,      \* maxAttempts (60)
    JobAttemptsFx,     \* getRetryOptions().attempts (3)
    Depositors,        \* entries of the pool's depositors
    SharesOf,          \* their shares
    WithdrawalCalls,   \* bound: executeWithdrawal calls in flight at a time
    MaxTransferFaults  \* bound: transfers that fail

ASSUME FxAssumption ==
    /\ BreakerThreshold \in 1..BreakerWindow
    /\ PollAttempts \in Nat \ {0}
    /\ SharesOf \in [Depositors -> Nat \ {0}]

VARIABLES
    fxMode,       \* FxRoutingGuard.currentMode
    outcomes,     \* its rolling window
    circuitOpen,
    fxLog,        \* every outcome ever recorded and every acknowledgement
    trade,        \* the trade at the provider: status and output
    fxTask,       \* status of the task
    poll,         \* the poll loop of the job
    quoteLive,    \* the quote has not expired
    wind,         \* WindDownState
    windHalted,
    withdrawal,   \* the executeWithdrawal calls: at, depositor, supply when it began
    received,     \* transfers each depositor got
    overlapped,   \* depositors two calls in flight were for at the same time
    transferFaults

guardVars == <<fxMode, outcomes, circuitOpen, fxLog>>
settleVars == <<trade, fxTask, poll, quoteLive>>
windVars == <<wind, windHalted, withdrawal, received, overlapped, transferFaults>>
fxVars == <<guardVars, settleVars, windVars>>

SharesIn(S) == FoldFunctionOnSet(+, 0, SharesOf, S)
TotalSupply == SharesIn(Depositors)

TerminalSuccess == {"completed", "settled"}
TerminalFailure == {"failed", "expired", "cancelled"}
(* Statuses of TradeStatusValue that neither set of the poller names. *)
Unrecognised == {"refunded"}

FxInit ==
    /\ fxMode = "unset"
    /\ outcomes = <<>>
    /\ circuitOpen = FALSE
    /\ fxLog = <<>>
    /\ trade = [status |-> "pending_settlement", output |-> 0]
    /\ fxTask = "in_progress"
    /\ poll = [at |-> "idle", attempt |-> 0, job |-> 0]
    /\ quoteLive = TRUE
    /\ wind = [initiated |-> FALSE, withdrawn |-> {}, supply |-> 0]
    /\ windHalted = FALSE
    /\ withdrawal = [c \in WithdrawalCalls |->
                       [at |-> "idle", depositor |-> CHOOSE d \in Depositors : TRUE, supply |-> 0]]
    /\ received = [d \in Depositors |-> 0]
    /\ overlapped = {}
    /\ transferFaults = 0

-----------------------------------------------------------------------------
(* FxRoutingGuard *)

Failures(s) == Len(SelectSeq(s, LAMBDA ok : ~ok))
LastOf(s, n) == SubSeq(s, IF Len(s) > n THEN Len(s) - n + 1 ELSE 1, Len(s))

Trim(s) == LastOf(s, BreakerWindow)

EvaluateCircuitBreaker(window) == Failures(window) >= BreakerThreshold

RecordOutcome(mode, success) ==
    /\ Len(fxLog) < MaxOutcomes
    /\ outcomes' = Trim(Append(outcomes, success))
    /\ circuitOpen' = (circuitOpen \/ (mode = "new" /\ ~success /\ EvaluateCircuitBreaker(outcomes')))
    /\ fxLog' = Append(fxLog, [kind |-> mode, ok |-> success])
    /\ UNCHANGED <<fxMode, settleVars, windVars>>

(* getActiveMode: the configured mode is read once. *)
GetActiveMode ==
    /\ fxMode = "unset"
    /\ fxMode' = "new"
    /\ UNCHANGED <<outcomes, circuitOpen, fxLog, settleVars, windVars>>

(* setMode accepts only "new"; it closes the circuit and keeps the window. *)
SetMode ==
    /\ Len(fxLog) < MaxOutcomes
    /\ fxMode' = "new"
    /\ circuitOpen' = FALSE
    /\ fxLog' = Append(fxLog, [kind |-> "ack", ok |-> TRUE])
    /\ UNCHANGED <<outcomes, settleVars, windVars>>

-----------------------------------------------------------------------------
(* SettlementPollerService *)

(* The provider moves the trade (external). *)
TradeMoves ==
    /\ trade.status = "pending_settlement"
    /\ \/ \E o \in Outputs, s \in TerminalSuccess : trade' = [status |-> s, output |-> o]
       \/ \E s \in TerminalFailure \cup Unrecognised : trade' = [trade EXCEPT !.status = s]
    /\ UNCHANGED <<guardVars, fxTask, poll, quoteLive, windVars>>

QuoteExpires ==
    /\ quoteLive
    /\ quoteLive' = FALSE
    /\ UNCHANGED <<guardVars, trade, fxTask, poll, windVars>>

Accepted(settled) == settled # 0 /\ settled >= MinOutput

(* The job starts, or is retried: only with a quote that still holds        *)
(* (ensureFreshQuote), at most three times.                                 *)
StartFxPoll ==
    /\ poll.at \in {"idle", "failed"}
    /\ poll.job < JobAttemptsFx
    /\ poll' = IF poll.job = 0 \/ quoteLive
               THEN [at |-> "poll", attempt |-> 0, job |-> poll.job + 1]
               ELSE [poll EXCEPT !.at = "refused"]
    /\ UNCHANGED <<guardVars, trade, fxTask, quoteLive, windVars>>

HandleTerminalSuccess ==
    /\ fxTask' = IF Accepted(trade.output) THEN "executed" ELSE "failed"
    /\ poll' = [poll EXCEPT !.at = "done"]

(* The error is thrown on, for the retry policy. *)
HandleTerminalFailure ==
    /\ fxTask' = "failed"
    /\ poll' = [poll EXCEPT !.at = "failed"]

NextAttempt(p) == [p EXCEPT !.attempt = @ + 1]

PollTurn ==
    /\ poll.at = "poll"
    /\ poll.attempt < PollAttempts
    /\ \/ trade.status \in TerminalSuccess /\ HandleTerminalSuccess
       \/ trade.status \in TerminalFailure /\ HandleTerminalFailure
       \/ /\ trade.status \notin TerminalSuccess \cup TerminalFailure
          /\ poll' = NextAttempt(poll)
          /\ UNCHANGED fxTask
    /\ UNCHANGED <<guardVars, trade, quoteLive, windVars>>

(* handleTimeout *)
PollTimeout ==
    /\ poll.at = "poll"
    /\ poll.attempt >= PollAttempts
    /\ fxTask' = "failed"
    /\ poll' = [poll EXCEPT !.at = "failed"]
    /\ UNCHANGED <<guardVars, trade, quoteLive, windVars>>

-----------------------------------------------------------------------------
(* LpWindDownService *)

InitiateWindDown ==
    /\ ~wind.initiated
    /\ wind' = [initiated |-> TRUE, withdrawn |-> {}, supply |-> TotalSupply]
    /\ windHalted' = FALSE
    /\ UNCHANGED <<guardVars, settleVars, withdrawal, received, overlapped, transferFaults>>

InFlight(d) == \E c \in WithdrawalCalls :
                 withdrawal[c].at = "transfer" /\ withdrawal[c].depositor = d

Withdrawable(d) == wind.initiated /\ ~windHalted /\ d \notin wind.withdrawn

(* A call up to the await of the transfer.  The entry is marked withdrawn   *)
(* only after it: a second call for the depositor may begin meanwhile.      *)
BeginWithdrawal(c, d) ==
    /\ withdrawal[c].at = "idle"
    /\ Withdrawable(d)
    /\ withdrawal' = [withdrawal EXCEPT ![c] = [at |-> "transfer", depositor |-> d,
                                                supply |-> wind.supply]]
    /\ overlapped' = overlapped \cup {x \in {d} : InFlight(x)}
    /\ UNCHANGED <<guardVars, settleVars, wind, windHalted, received, transferFaults>>

SupplyWhenCalled(c) == withdrawal[c].supply   \* variant: the supply is read before the await

(* After the await.  The supply is read now, not when the call began.       *)
SupplyBefore(c) == wind.supply

Less(n, m) == IF n > m THEN n - m ELSE 0

TransferSucceeds(c) ==
    LET d == withdrawal[c].depositor IN
    /\ withdrawal[c].at = "transfer"
    /\ received' = [received EXCEPT ![d] = @ + 1]
    /\ wind' = [wind EXCEPT !.withdrawn = @ \cup {d},
                            !.supply = Less(SupplyBefore(c), SharesOf[d])]
    /\ withdrawal' = [withdrawal EXCEPT ![c].at = "idle"]
    /\ UNCHANGED <<guardVars, settleVars, windHalted, overlapped, transferFaults>>

(* The transfer throws, before or after it paid, or returns false: the      *)
(* sequence is halted for good.                                             *)
TransferFails(c) ==
    /\ withdrawal[c].at = "transfer"
    /\ transferFaults < MaxTransferFaults
    /\ transferFaults' = transferFaults + 1
    /\ windHalted' = TRUE
    /\ \/ UNCHANGED received
       \/ received' = [received EXCEPT ![withdrawal[c].depositor] = @ + 1]
    /\ withdrawal' = [withdrawal EXCEPT ![c].at = "idle"]
    /\ UNCHANGED <<guardVars, settleVars, wind, overlapped>>

CanDeprecateContract == wind.initiated /\ ~windHalted /\ wind.supply = 0

-----------------------------------------------------------------------------
GuardNext == (\E mode \in {"new", "legacy"}, ok \in BOOLEAN : RecordOutcome(mode, ok))
             \/ GetActiveMode \/ SetMode
SettleNext == TradeMoves \/ QuoteExpires \/ StartFxPoll \/ PollTurn \/ PollTimeout
WindNext == InitiateWindDown
            \/ \E c \in WithdrawalCalls : \/ \E d \in Depositors : BeginWithdrawal(c, d)
                                        \/ TransferSucceeds(c) \/ TransferFails(c)

FxNext == GuardNext \/ SettleNext \/ WindNext

(* The worker runs its job to the end. *)
FxSpec == FxInit /\ [][FxNext]_fxVars /\ WF_fxVars(PollTurn \/ PollTimeout)

-----------------------------------------------------------------------------
(* Properties *)

(* The circuit is open exactly when, since the operator's last              *)
(* acknowledgement, some failure on the new path came when the last         *)
(* BreakerWindow operations, over the whole history, held                   *)
(* BreakerThreshold failures: the rolling window loses nothing and keeps    *)
(* nothing too long.                                                        *)
BreakerFollowsHistory ==
    LET Since == {i \in DOMAIN fxLog : \A j \in i..Len(fxLog) : fxLog[j].kind # "ack"}
        Oks(i) == [j \in 1..Len(SelectSeq(SubSeq(fxLog, 1, i), LAMBDA e : e.kind # "ack")) |->
                     SelectSeq(SubSeq(fxLog, 1, i), LAMBDA e : e.kind # "ack")[j].ok]
    IN circuitOpen <=> \E i \in Since : /\ fxLog[i].kind = "new" /\ ~fxLog[i].ok
                                        /\ Failures(LastOf(Oks(i), BreakerWindow)) >= BreakerThreshold

(* Through retries, timeouts and late provider answers, a task is executed  *)
(* only when the trade settled at least the output the payer asked for.     *)
FxExecutedIsSettled ==
    fxTask = "executed" => trade.status \in TerminalSuccess /\ trade.output >= MinOutput

(* A poll ends even if the provider answers with a status the poller does   *)
(* not know.                                                                *)
PollEnds == poll.at = "poll" ~> poll.at # "poll"

(* Whatever withdrawals are in flight at the same time, none overwrites     *)
(* another's supply: what is left is the supply less the shares of every    *)
(* transfer made, twice those of a depositor paid twice, and never less     *)
(* than zero.  Only a transfer that paid and then threw is not taken off,   *)
(* and it halts the wind-down.                                              *)
SupplyMatchesWithdrawals ==
    LET paid == FoldFunctionOnSet(+, 0, [d \in Depositors |-> received[d] * SharesOf[d]], Depositors)
    IN wind.initiated => /\ wind.supply >= Less(TotalSupply, paid)
                         /\ ~windHalted => wind.supply = Less(TotalSupply, paid)

(* Nobody is paid twice unless two of his calls overlapped: entry.withdrawn *)
(* is checked before the await and set after it, so overlapping calls do    *)
(* pay twice; the supply is then clamped at zero, and the contract may be   *)
(* deprecated with another depositor unpaid.  Otherwise it may be           *)
(* deprecated only when everyone was paid, exactly once.                    *)
DeprecationIsSafe ==
    /\ \A d \in Depositors : received[d] > 1 => d \in overlapped
    /\ CanDeprecateContract =>
         (\A d \in Depositors : received[d] = 1) \/ (\E d \in overlapped : received[d] > 1)

(* What FX settlement decides follows the evidence: the breaker the         *)
(* history, a task the settled trade, the pool its withdrawals.             *)
FxFollowsEvidence ==
    /\ BreakerFollowsHistory
    /\ FxExecutedIsSettled
    /\ SupplyMatchesWithdrawals
    /\ DeprecationIsSafe
=============================================================================
