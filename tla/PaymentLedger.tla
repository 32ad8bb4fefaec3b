--------------------------- MODULE PaymentLedger ---------------------------
(***************************************************************************)
(* What the execution-intent table promises to the rest of the backend,     *)
(* with neither statuses nor leases: a business operation is opened once    *)
(* for one transfer, is given at most one transaction as its evidence, no   *)
(* two operations share evidence, and an operation settles only when its    *)
(* own evidence has a successful receipt of exactly its own transfer.       *)
(***************************************************************************)
CONSTANTS Operations, Transfers, Transactions, Makes, NoTransfer, NoTransaction

VARIABLES
    demand,     \* the transfer each operation was opened for
    evidence,   \* the transaction recorded for it
    settled,    \* the operations reported as paid
    receipts    \* what the chain reports of each transaction

ledgerVars == <<demand, evidence, settled, receipts>>

LedgerInit ==
    /\ demand = [k \in Operations |-> NoTransfer]
    /\ evidence = [k \in Operations |-> NoTransaction]
    /\ settled = {}
    /\ receipts = [h \in Transactions |-> "unseen"]

Open(k, d) ==
    /\ demand[k] = NoTransfer
    /\ demand' = [demand EXCEPT ![k] = d]
    /\ UNCHANGED <<evidence, settled, receipts>>

Record(k, h) ==
    /\ demand[k] # NoTransfer
    /\ evidence[k] = NoTransaction
    /\ \A l \in Operations : evidence[l] # h
    /\ evidence' = [evidence EXCEPT ![k] = h]
    /\ UNCHANGED <<demand, settled, receipts>>

Settle(k) ==
    /\ evidence[k] # NoTransaction
    /\ receipts[evidence[k]] = "success"
    /\ Makes[evidence[k]] = demand[k]
    /\ settled' = settled \cup {k}
    /\ UNCHANGED <<demand, evidence, receipts>>

Confirm(h, outcome) ==
    /\ receipts[h] = "unseen"
    /\ receipts' = [receipts EXCEPT ![h] = outcome]
    /\ UNCHANGED <<demand, evidence, settled>>

LedgerNext ==
    \/ \E k \in Operations : \/ \E d \in Transfers : Open(k, d)
                             \/ \E h \in Transactions : Record(k, h)
                             \/ Settle(k)
    \/ \E h \in Transactions : \E outcome \in {"success", "reverted"} : Confirm(h, outcome)

LedgerSpec == LedgerInit /\ [][LedgerNext]_ledgerVars
=============================================================================
