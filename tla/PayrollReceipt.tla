--------------------------- MODULE PayrollReceipt ---------------------------
(***************************************************************************)
(* What a payroll transaction leaves on chain and the two services that     *)
(* read it back:                                                            *)
(*   PayrollReceiptVerifierService.verify, which decides whether the        *)
(*     transaction reported for a batch paid exactly that batch.  The page  *)
(*     builds the call (handleSubmit), WizPayPayrollMainnet executes it and *)
(*     emits its events, a node answers the transaction, the receipt and    *)
(*     the head, each at an await of its own and not always truthfully;     *)
(*   TaskPayrollHistoryService.getWalletPayrollHistory, which lists the     *)
(*     BatchPaymentRouted batches of a wallet and, from every receipt, the  *)
(*     transfers WizPayMainnetV2 made.                                      *)
(* Addresses are compared through getAddress and isAddressEqual: an address *)
(* is the account it names.  A hash is the value it is taken of.            *)
(***************************************************************************)
EXTENDS Integers, Sequences, FiniteSets, SequencesExt

CONSTANTS
    Payees,              \* accounts a batch may pay
    UnitsPaid,           \* amounts, in token units
    ReceiptRefs,         \* batch references
    GrossInput,          \* the quoted input of a cross-token batch
    NativeScale,         \* ARC_MAINNET_USDC_NATIVE_SCALE
    ConfirmationsRequired,
    MaxDepth,            \* bound: blocks mined over the transaction's
    MaxRpcFaults,        \* bound: untruthful or failed answers of the node
    RoutedBatches,       \* the WizPayMainnetV2 batches of the wallet, oldest first
    RoutedFee            \* feeBps over BPS of that contract, as <<numerator, denominator>>

ASSUME ReceiptAssumption == /\ Payees # {} /\ UnitsPaid \subseteq Nat \ {0}
                            /\ {GrossInput, ConfirmationsRequired, NativeScale} \subseteq Nat \ {0}
                            /\ {MaxDepth, MaxRpcFaults} \subseteq Nat

VARIABLES
    order,      \* the immutable batch the unit must pay
    sent,       \* the transaction whose hash is reported
    depth,      \* blocks over the transaction's block
    receiptCheck,      \* the verification: next await, answered logs, verdict
    rpcFaults,
    history     \* one history request

receiptVars == <<order, sent, depth, receiptCheck, rpcFaults>>
historyVars == <<history>>

PayTokens == {"USDC", "EURC"}
Entries == [to : Payees, units : UnitsPaid]
Lists == {<<e>> : e \in Entries} \cup {<<e, f>> : e \in Entries, f \in Entries}
OrderOf(net, ref, token, list) == [net |-> net, ref |-> ref, token |-> token, list |-> list]
Networks == {"arc-mainnet", "arc-testnet"}

SumUnits(list) == FoldLeft(LAMBDA sum, e : sum + e.units, 0, list)

-----------------------------------------------------------------------------

NativePayrollValue(tokenIn, amount) ==
    IF tokenIn = "USDC" THEN amount * NativeScale ELSE 0

HandleSubmit(o, tokenIn) ==
    [tokenIn  |-> tokenIn,
     tokenOut |-> o.token,
     list     |-> o.list,
     gross    |-> IF tokenIn = o.token THEN 0 ELSE GrossInput,
     ref      |-> o.ref,
     value    |-> IF tokenIn = o.token THEN 0 ELSE NativePayrollValue(tokenIn, GrossInput)]

Payable(call) ==
    call.value = IF call.tokenIn = call.tokenOut \/ call.tokenIn # "USDC"
                   THEN 0 ELSE call.gross * NativeScale

(* Its events: one payment an entry, numbered from 0, the swap's own log,   *)
(* the consumed reference and the batch.                                    *)
Log(event, call, to, index, amount) ==
    [event |-> event, ref |-> call.ref, tokenIn |-> call.tokenIn, tokenOut |-> call.tokenOut,
     to |-> to, index |-> index, amount |-> amount, count |-> Len(call.list)]

PaymentLogs(call) ==
    [i \in DOMAIN call.list |->
        Log("PayrollPayment", call, call.list[i].to, i - 1, call.list[i].units)]

Events(call) ==
    PaymentLogs(call)
      \o (IF call.tokenIn = call.tokenOut THEN <<>>
          ELSE <<Log("PayrollSwapExecuted", call, "none", 0, call.gross)>>)
      \o <<Log("PayrollReferenceConsumed", call, "none", 0, SumUnits(call.list)),
           Log("PayrollBatchExecuted", call, "none", 0, SumUnits(call.list))>>

(* Arc Testnet's contract is the kind of WizPayMainnetV2: the transfers out *)
(* of it, an entry's fee and its net, and one batch event.                  *)
FeeOf(units) == (units * RoutedFee[1]) \div RoutedFee[2]

TransfersOut(call) ==
    FlattenSeq([i \in DOMAIN call.list |->
        LET e == call.list[i] IN
        (IF FeeOf(e.units) = 0 THEN <<>>
         ELSE <<Log("Transfer", call, "collector", 0, FeeOf(e.units))>>)
           \o <<Log("Transfer", call, e.to, 0, e.units - FeeOf(e.units))>>])

BatchEvents(call) ==
    Append(TransfersOut(call), Log("BatchPaymentRouted", call, "none", 0, SumUnits(call.list)))

OnMainnet == order.net = "arc-mainnet"
LogsOf(call) == IF OnMainnet THEN Events(call) ELSE BatchEvents(call)
PaidLogs(call) == IF OnMainnet THEN PaymentLogs(call) ELSE TransfersOut(call)

NoCall == [tokenIn |-> "none", tokenOut |-> "none", list |-> <<>>, gross |-> 0,
           ref |-> "none", value |-> 0]
NotSent == [call |-> NoCall, success |-> FALSE]

NoCheck == [at |-> "idle", logs |-> <<>>, verdict |-> "none"]

ReceiptInit ==
    /\ order \in {OrderOf(n, CHOOSE r \in ReceiptRefs : TRUE, t, l) :
                    n \in Networks, t \in PayTokens, l \in Lists}
    /\ sent = NotSent
    /\ depth = 0
    /\ receiptCheck = NoCheck
    /\ rpcFaults = 0

(* The wallet sends a batch of the run, and that hash is reported for this  *)
(* order: its own call, or the call of another batch.                       *)
SendBatch ==
    /\ sent = NotSent
    /\ \E ref \in ReceiptRefs, token \in PayTokens, tokenIn \in PayTokens, list \in Lists :
         LET call == HandleSubmit(OrderOf(order.net, ref, token, list), tokenIn) IN
         \E ok \in BOOLEAN : /\ ok => Payable(call)
                             /\ sent' = [call |-> call, success |-> ok]
    /\ UNCHANGED <<order, depth, receiptCheck, rpcFaults>>

MineBlock ==
    /\ sent # NotSent
    /\ depth < MaxDepth
    /\ depth' = depth + 1
    /\ UNCHANGED <<order, sent, receiptCheck, rpcFaults>>

-----------------------------------------------------------------------------
(* The verifier *)
Digest(token, list) == <<token, list>>

(* verifyMainnetCall with assertCallRecipients: the destination token, the  *)
(* reference and the entries of the call, position by position, and the     *)
(* native value that goes with its input.                                   *)
AssertCallRecipients(call) ==
    /\ call.tokenOut = order.token
    /\ call.ref = order.ref
    /\ call.list = order.list

VerifyMainnetCall(call) == Payable(call) /\ AssertCallRecipients(call)

(* The one-token call of Arc Testnet. *)
VerifyBatchCall(call) ==
    /\ call.value = 0
    /\ call.tokenIn = order.token
    /\ AssertCallRecipients(call)

AlwaysUnseen(logs, i) ==      \* variant: a repeated payment index is accepted
    TRUE

Unseen(logs, i) ==
    \A j \in 1..(i - 1) : logs[j].event = "PayrollPayment" => logs[j].index # logs[i].index

PaymentMatches(call, log) ==
    /\ log.ref = order.ref
    /\ log.tokenOut = call.tokenOut
    /\ log.index < Len(call.list)
    /\ log.to = call.list[log.index + 1].to
    /\ log.amount = call.list[log.index + 1].units

SummaryMatches(call, log) ==
    /\ log.tokenIn = call.tokenIn
    /\ log.tokenOut = call.tokenOut
    /\ log.amount = SumUnits(call.list)
    /\ log.count = Len(call.list)
    /\ log.ref = order.ref

Occurrences(logs, event) == {i \in DOMAIN logs : logs[i].event = event}

VerifyMainnetPayrollEvents(call, logs) ==
    /\ \A i \in Occurrences(logs, "PayrollPayment") :
         PaymentMatches(call, logs[i]) /\ Unseen(logs, i)
    /\ \A event \in {"PayrollReferenceConsumed", "PayrollBatchExecuted"} :
         /\ \A i \in Occurrences(logs, event) : SummaryMatches(call, logs[i])
         /\ Cardinality(Occurrences(logs, event)) = 1
    /\ Cardinality({logs[i].index : i \in Occurrences(logs, "PayrollPayment")})
         = Len(call.list)

(* Arc Testnet: one event of this batch, and what the contract transfers,   *)
(* added up by account, is what the entries say, added up by account.       *)
PaidTo(logs, to) ==
    FoldLeft(LAMBDA sum, l : IF l.event = "Transfer" /\ l.to = to THEN sum + l.amount ELSE sum,
             0, logs)
OwedTo(list, to) ==
    FoldLeft(LAMBDA sum, e : IF e.to = to THEN sum + e.units ELSE sum, 0, list)

VerifyBatchEvents(call, logs) ==
    /\ Cardinality({i \in Occurrences(logs, "BatchPaymentRouted") :
                       SummaryMatches(call, logs[i])}) = 1
    /\ {logs[i].to : i \in Occurrences(logs, "Transfer")}
         = {order.list[i].to : i \in DOMAIN order.list}
    /\ \A i \in DOMAIN order.list :
         PaidTo(logs, order.list[i].to) = OwedTo(order.list, order.list[i].to)

(* Logs an untruthful node may answer: one is missing, repeated, or taken   *)
(* from the payment of another entry.                                       *)
Tampered(call, logs) ==
    {RemoveAt(logs, i) : i \in DOMAIN logs}
      \cup {Append(logs, logs[i]) : i \in DOMAIN logs}
      \cup {[logs EXCEPT ![i] = PaidLogs(call)[j]] :
              i \in DOMAIN logs, j \in DOMAIN PaidLogs(call)}

RpcFault == /\ rpcFaults < MaxRpcFaults
            /\ rpcFaults' = rpcFaults + 1

DecideReceipt(verdict) == receiptCheck' = [at |-> "idle", logs |-> <<>>, verdict |-> verdict]
Reject == DecideReceipt("mismatch")
Pending == DecideReceipt("pending")

(* A report of the unit, repeated while the answer was retryable. *)
StartCheck ==
    /\ receiptCheck.at = "idle" /\ receiptCheck.verdict \in {"none", "pending"}
    /\ sent # NotSent
    /\ receiptCheck' = [at |-> "receipt", logs |-> <<>>, verdict |-> "none"]
    /\ UNCHANGED <<order, sent, depth, rpcFaults>>

(* getChainId, getTransaction and getTransactionReceipt answer, and the     *)
(* call, its total and its digest are checked up to the next await.         *)
CallMatches ==
    /\ sent.success
    /\ IF OnMainnet THEN VerifyMainnetCall(sent.call) ELSE VerifyBatchCall(sent.call)
    /\ SumUnits(sent.call.list) = SumUnits(order.list)
    /\ Digest(sent.call.tokenOut, sent.call.list) = Digest(order.token, order.list)

FetchReceipt ==
    /\ receiptCheck.at = "receipt"
    /\ \/ ~CallMatches /\ Reject /\ UNCHANGED rpcFaults
       \/ /\ CallMatches
          /\ receiptCheck' = [receiptCheck EXCEPT !.at = "head", !.logs = LogsOf(sent.call)]
          /\ UNCHANGED rpcFaults
       \/ /\ CallMatches
          /\ RpcFault
          /\ \E logs \in Tampered(sent.call, LogsOf(sent.call)) :
               receiptCheck' = [receiptCheck EXCEPT !.at = "head", !.logs = logs]
    /\ UNCHANGED <<order, sent, depth>>

(* A call to the node fails: the answer is retryable. *)
RpcUnavailable ==
    /\ receiptCheck.at \in {"receipt", "head"}
    /\ RpcFault
    /\ Pending
    /\ UNCHANGED <<order, sent, depth>>

(* Both networks read the head after the receipt, and then the events. *)
FinishReceipt(exact) ==
    /\ receiptCheck.at = "head"
    /\ \/ RpcFault /\ Reject                  \* a head below the receipt's block
       \/ depth + 1 < ConfirmationsRequired /\ Pending /\ UNCHANGED rpcFaults
       \/ /\ depth + 1 >= ConfirmationsRequired
          /\ IF exact
               THEN receiptCheck' = [receiptCheck EXCEPT !.at = "idle", !.verdict = "accepted"]
               ELSE Reject
          /\ UNCHANGED rpcFaults
    /\ UNCHANGED <<order, sent, depth>>

FinishMainnetReceipt ==
    OnMainnet /\ FinishReceipt(VerifyMainnetPayrollEvents(sent.call, receiptCheck.logs))

FinishBatchReceipt ==
    ~OnMainnet /\ FinishReceipt(VerifyBatchEvents(sent.call, receiptCheck.logs))

ReceiptNext ==
    \/ SendBatch \/ MineBlock \/ StartCheck \/ FetchReceipt \/ RpcUnavailable
    \/ FinishMainnetReceipt \/ FinishBatchReceipt

-----------------------------------------------------------------------------
(* getWalletPayrollHistory over the batches of WizPayMainnetV2.  A batch is *)
(* [block, list]; the contract takes its fee from every entry.              *)
(* The transfers of one batch's receipt, in the order the contract makes    *)
(* them: the funding, then each entry's fee and its net.                    *)
TransferLog(from, to, amount) == [from |-> from, to |-> to, amount |-> amount]

EntryTransfers(e) ==
    (IF FeeOf(e.units) = 0 THEN <<>>
     ELSE <<TransferLog("contract", "collector", FeeOf(e.units))>>)
      \o <<TransferLog("contract", e.to, e.units - FeeOf(e.units))>>

ReceiptTransfers(b) ==
    <<TransferLog("employer", "contract", SumUnits(b.list))>>
      \o FlattenSeq([i \in DOMAIN b.list |-> EntryTransfers(b.list[i])])

TotalOut(b) == FoldLeft(LAMBDA sum, e : sum + e.units - FeeOf(e.units), 0, b.list)

(* Two blocks may carry one timestamp. *)
Stamp(block) == block \div 2

HistoryRow(b, employee, amount) ==
    [batch |-> b, date |-> Stamp(RoutedBatches[b].block), employee |-> employee,
     amount |-> amount]

NoHistory == [at |-> "idle", log |-> 0, events |-> <<>>, rows |-> <<>>]

HistoryInit == history = NoHistory

(* The head, the logs (ActivityFeed's scan) and the block timestamps *)
RequestHistory ==
    /\ history.at = "idle"
    /\ history' = [at |-> "receipts", log |-> 1, events |-> <<>>, rows |-> <<>>]

(* resolveBlockTimestamps is a Promise.all: one failing block fails the     *)
(* request.                                                                 *)
TimestampsUnavailable ==
    /\ history.at = "receipts" /\ history.log = 1 /\ history.rows = <<>>
    /\ history' = [NoHistory EXCEPT !.at = "failed"]

FromContract(t) == t.from = "contract"

ResolvedPayments(b) ==
    LET made == SelectSeq(ReceiptTransfers(RoutedBatches[b]), FromContract)
    IN  [i \in DOMAIN made |-> HistoryRow(b, made[i].to, made[i].amount)]

AggregateFallback(b) ==
    <<HistoryRow(b, "Multiple Recipients", TotalOut(RoutedBatches[b]))>>

(* resolveEmployeePaymentsForLog: one receipt after the other; one that     *)
(* fails or is not found leaves the batch's aggregate.                      *)
ResolveEmployeePaymentsForLog ==
    /\ history.at = "receipts" /\ history.log <= Len(RoutedBatches)
    /\ \E rows \in {ResolvedPayments(history.log), AggregateFallback(history.log)} :
         history' = [history EXCEPT !.log = @ + 1,
                                    !.events = Append(@, history.log),
                                    !.rows = @ \o rows]

(* Array.prototype.sort by descending key; it is stable. *)
SortedBy(seq, key(_)) ==
    LET rank == SetToSortSeq(DOMAIN seq, LAMBDA i, j :
                    \/ key(seq[i]) > key(seq[j])
                    \/ key(seq[i]) = key(seq[j]) /\ i < j)
    IN  [i \in DOMAIN seq |-> seq[rank[i]]]

AnswerHistory ==
    /\ history.at = "receipts" /\ history.log > Len(RoutedBatches)
    /\ history' = [history EXCEPT !.at = "answered",
                                  !.events = SortedBy(@, LAMBDA b : RoutedBatches[b].block),
                                  !.rows = SortedBy(@, LAMBDA r : r.date)]

HistoryNext ==
    \/ RequestHistory \/ TimestampsUnavailable \/ ResolveEmployeePaymentsForLog
    \/ AnswerHistory

-----------------------------------------------------------------------------
(* Whatever one untruthful answer of the node contains, a receipt is        *)
(* accepted only if the batch's accounts, and no others, were paid exactly  *)
(* what it says.  On Arc Mainnet each entry is an event of its own, paid    *)
(* exactly once (verifyMainnetPayrollEvents: index, recipient and amount by *)
(* position, no index twice, as many indexes as entries).                   *)
AcceptedIsExact ==
    receiptCheck.verdict = "accepted" =>
        LET event == IF OnMainnet THEN "PayrollPayment" ELSE "Transfer"
            paid == SelectSeq(receiptCheck.logs, LAMBDA l : l.event = event) IN
        /\ OnMainnet => Len(paid) = Len(order.list)
        /\ \A p \in Payees \cup {"collector"} :
             FoldLeft(LAMBDA sum, l : IF l.to = p THEN sum + l.amount ELSE sum, 0, paid)
               = OwedTo(order.list, p)

(* What the page sends for a batch, from either token, is what the verifier *)
(* expects of it: when the node answers truthfully, a batch the contract    *)
(* executed is never answered PAYROLL_RECEIPT_MISMATCH, which would fail    *)
(* the unit for good although it was paid.  On Arc Testnet that needs the   *)
(* order's own token and a contract that takes no fee of it: a fee is one   *)
(* more account that was paid.                                              *)
OwnBatchIsAccepted ==
    (/\ receiptCheck.verdict = "mismatch"
     /\ rpcFaults = 0
     /\ \E tokenIn \in PayTokens :
          /\ sent.call = HandleSubmit(order, tokenIn)
          /\ ~OnMainnet => tokenIn = order.token
     /\ ~OnMainnet => \A i \in DOMAIN order.list : FeeOf(order.list[i].units) = 0)
        => ~sent.success /\ Payable(sent.call)

(* An answered history lists every batch once, newest first, and accounts   *)
(* for it: either the rows are, account by account, what the contract paid, *)
(* or one row carries the batch's total output.  Rows of a batch whose      *)
(* receipt failed are not mixed with rows of its transfers.                 *)
HistoryAccounts ==
    history.at = "answered" =>
        /\ \A i, j \in DOMAIN history.events : i < j =>
             RoutedBatches[history.events[i]].block >= RoutedBatches[history.events[j]].block
        /\ \A i, j \in DOMAIN history.rows : i < j => history.rows[i].date >= history.rows[j].date
        /\ \A b \in DOMAIN RoutedBatches :
             LET mine == SelectSeq(history.rows, LAMBDA r : r.batch = b)
                 Total(rows) == FoldLeft(LAMBDA sum, r : sum + r.amount, 0, rows)
             IN  \/ /\ Len(mine) = 1
                    /\ Total(mine) = TotalOut(RoutedBatches[b])
                 \/ /\ Total(mine) = SumUnits(RoutedBatches[b].list)
                    /\ \A p \in Payees :
                         Total(SelectSeq(mine, LAMBDA r : r.employee = p))
                           = FoldLeft(LAMBDA sum, e : IF e.to = p THEN sum + e.units - FeeOf(e.units)
                                                      ELSE sum, 0, RoutedBatches[b].list)

(* Receipts are read exactly: an accepted one pays the batch, the own batch *)
(* is accepted, and the history accounts for what was paid.                 *)
ReceiptsAreExact == AcceptedIsExact /\ OwnBatchIsAccepted /\ HistoryAccounts
=============================================================================
