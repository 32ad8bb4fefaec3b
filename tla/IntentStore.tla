---------------------------- MODULE IntentStore ----------------------------
(***************************************************************************)
(* The ExecutionIntent table of the WizPay backend and the SQL statements   *)
(* ExecutionIntentService issues against it.  One column per variable, one  *)
(* operator per UPDATE ... WHERE statement: the statement is the unit of    *)
(* atomicity, because every Prisma call is awaited and another request may  *)
(* run between two of them.                                                 *)
(*                                                                          *)
(* StoreSpec lets any statement run whenever its WHERE clause matches.  It  *)
(* is what a request handler may rely on about every other one; the modules *)
(* that model handlers (ExecutionIntent, PayrollSettlement,                 *)
(* InvoiceSettlement) issue these statements and no others.                 *)
(***************************************************************************)
EXTENDS Naturals, FiniteSets

CONSTANTS
    Keys,       \* logical keys: one row per logical business operation
    Payloads,   \* canonical transfer data (source, recipient/digest, token, amount)
    Hashes,     \* transaction hashes
    Owners,     \* lease owners (browser tabs)
    Pays,       \* Pays[h]: the transfer that transaction h carries out
    NoHash, NoOwner, NoPayload   \* SQL NULL in the respective columns

ASSUME PaysAssumption == Pays \in [Hashes -> Payloads]
ASSUME NullAssumption == /\ NoHash \notin Hashes
                         /\ NoOwner \notin Owners
                         /\ NoPayload \notin Payloads

VARIABLES
    status,           \* ExecutionIntent.status, "ABSENT" before acquire creates the row
    payload,          \* the immutable request columns (requestFingerprint)
    transactionHash,  \* unique, NULL until bound
    leaseOwner,
    leaseLive,        \* leaseExpiresAt > now
    walletGrants,     \* how many prepare-wallet requests were granted for the row
    chain             \* what the Arc RPC reports of each hash

storeVars == <<status, payload, transactionHash, leaseOwner, leaseLive,
               walletGrants, chain>>

Terminal == {"COMPLETED", "FAILED_FINAL", "EXPIRED", "CANCELLED"}

Statuses == {"CREATED", "AWAITING_WALLET_SIGNATURE", "AUTHORIZATION_PENDING",
             "SUBMISSION_PENDING", "SUBMITTED", "VERIFYING",
             "FAILED_RETRYABLE"} \cup Terminal

ChainStates == {"unseen", "success", "reverted"}

(* EXECUTION_INTENT_TRANSITIONS *)
Transitions(s) ==
    CASE s = "CREATED" ->
           {"AWAITING_WALLET_SIGNATURE", "AUTHORIZATION_PENDING",
            "SUBMISSION_PENDING", "FAILED_FINAL", "EXPIRED", "CANCELLED"}
      [] s = "AWAITING_WALLET_SIGNATURE" ->
           {"SUBMITTED", "FAILED_RETRYABLE", "FAILED_FINAL", "CANCELLED"}
      [] s = "AUTHORIZATION_PENDING" ->
           {"SUBMISSION_PENDING", "SUBMITTED", "FAILED_RETRYABLE",
            "FAILED_FINAL", "EXPIRED"}
      [] s = "SUBMISSION_PENDING" ->
           {"SUBMITTED", "FAILED_RETRYABLE", "FAILED_FINAL", "EXPIRED"}
      [] s = "SUBMITTED" -> {"VERIFYING", "FAILED_RETRYABLE", "FAILED_FINAL"}
      [] s = "VERIFYING" -> {"COMPLETED", "FAILED_RETRYABLE", "FAILED_FINAL"}
      [] s = "FAILED_RETRYABLE" ->
           {"AWAITING_WALLET_SIGNATURE", "AUTHORIZATION_PENDING",
            "SUBMISSION_PENDING", "SUBMITTED", "VERIFYING",
            "FAILED_FINAL", "EXPIRED"}
      [] OTHER -> {}

(* The transitions of beginVerification, each with the position of its if  *)
(* in the method: a later if never returns to an earlier one.              *)
AdvanceFrom == {"CREATED", "AUTHORIZATION_PENDING", "SUBMISSION_PENDING",
                "SUBMITTED", "FAILED_RETRYABLE"}

AdvanceTo(s) ==
    CASE s = "CREATED" -> "SUBMISSION_PENDING"
      [] s \in {"AUTHORIZATION_PENDING", "SUBMISSION_PENDING"} -> "SUBMITTED"
      [] OTHER -> "VERIFYING"

AdvanceStage(s) ==
    CASE s = "CREATED" -> 1
      [] s \in {"AUTHORIZATION_PENDING", "SUBMISSION_PENDING"} -> 2
      [] OTHER -> 3

StoreInit ==
    /\ status = [k \in Keys |-> "ABSENT"]
    /\ payload = [k \in Keys |-> NoPayload]
    /\ transactionHash = [k \in Keys |-> NoHash]
    /\ leaseOwner = [k \in Keys |-> NoOwner]
    /\ leaseLive = [k \in Keys |-> FALSE]
    /\ walletGrants = [k \in Keys |-> 0]
    /\ chain = [h \in Hashes |-> "unseen"]

-----------------------------------------------------------------------------
(* acquire: find-or-create by logicalKey in one serializable transaction.   *)
(* An existing row is returned unchanged, or refused when its fingerprint   *)
(* differs; either way nothing is written.                                  *)
AcquireCreate(k, d) ==
    /\ status[k] = "ABSENT"
    /\ status' = [status EXCEPT ![k] = "CREATED"]
    /\ payload' = [payload EXCEPT ![k] = d]
    /\ UNCHANGED <<transactionHash, leaseOwner, leaseLive, walletGrants, chain>>

(* acquireLease: UPDATE ... WHERE not terminal AND (no lease OR expired).   *)
LeaseFree(k) == /\ status[k] \notin Terminal
                /\ leaseOwner[k] = NoOwner \/ ~leaseLive[k]

LeaseWrite(k, o) ==
    /\ LeaseFree(k)
    /\ leaseOwner' = [leaseOwner EXCEPT ![k] = o]
    /\ leaseLive' = [leaseLive EXCEPT ![k] = TRUE]
    /\ UNCHANGED <<status, payload, transactionHash, walletGrants, chain>>

(* transition: UPDATE ... SET status = t WHERE status = s.                  *)
TransitionWrite(k, s, t) ==
    /\ t \in Transitions(s)
    /\ status[k] = s
    /\ status' = [status EXCEPT ![k] = t]
    /\ UNCHANGED <<payload, transactionHash, leaseOwner, leaseLive, chain>>

(* The last statement of prepareWalletSignature; its success is the         *)
(* permission to open the browser wallet.                                   *)
UncheckedPrepare(k, s) ==   \* variant: the UPDATE does not name the status it read
    /\ status' = [status EXCEPT ![k] = "AWAITING_WALLET_SIGNATURE"]
    /\ walletGrants' = [walletGrants EXCEPT ![k] = @ + 1]
    /\ UNCHANGED <<payload, transactionHash, leaseOwner, leaseLive, chain>>

PrepareWrite(k, s) ==
    /\ s \in {"CREATED", "FAILED_RETRYABLE"}
    /\ TransitionWrite(k, s, "AWAITING_WALLET_SIGNATURE")
    /\ walletGrants' = [walletGrants EXCEPT ![k] = @ + 1]

(* A transition of beginVerification. *)
AdvanceWrite(k, s) ==
    /\ s \in AdvanceFrom
    /\ TransitionWrite(k, s, AdvanceTo(s))
    /\ UNCHANGED walletGrants

(* The UPDATE of bindTransactionHash: WHERE transactionHash IS NULL, under  *)
(* the unique index on transactionHash.  It names no status.                *)
NoUniqueIndex(h) == TRUE   \* variant: no unique index on transactionHash

HashFree(h) == \A l \in Keys : transactionHash[l] # h

Rebind(k, h) ==   \* variant: WHERE id only
    /\ transactionHash' = [transactionHash EXCEPT ![k] = h]
    /\ status' = [status EXCEPT ![k] = "SUBMITTED"]
    /\ leaseOwner' = [leaseOwner EXCEPT ![k] = NoOwner]
    /\ leaseLive' = [leaseLive EXCEPT ![k] = FALSE]
    /\ UNCHANGED <<payload, walletGrants, chain>>

BindWrite(k, h) ==
    /\ transactionHash[k] = NoHash
    /\ HashFree(h)
    /\ transactionHash' = [transactionHash EXCEPT ![k] = h]
    /\ status' = [status EXCEPT ![k] = "SUBMITTED"]
    /\ leaseOwner' = [leaseOwner EXCEPT ![k] = NoOwner]
    /\ leaseLive' = [leaseLive EXCEPT ![k] = FALSE]
    /\ UNCHANGED <<payload, walletGrants, chain>>

(* The UPDATE of cancelUnsubmitted: WHERE transactionHash IS NULL.          *)
CancelAs(k, s) ==
    /\ status' = [status EXCEPT ![k] = s]
    /\ leaseOwner' = [leaseOwner EXCEPT ![k] = NoOwner]
    /\ leaseLive' = [leaseLive EXCEPT ![k] = FALSE]
    /\ UNCHANGED <<payload, transactionHash, walletGrants, chain>>

BlindCancel(k) == CancelAs(k, "CANCELLED")   \* variant: WHERE id only

UnknownCancel(k) ==   \* variant: a status the enum does not have
    transactionHash[k] = NoHash /\ CancelAs(k, "ABANDONED")

CancelWrite(k) == transactionHash[k] = NoHash /\ CancelAs(k, "CANCELLED")

(* What a receipt verifier accepts: a successful receipt of exactly the     *)
(* transfer d (sender, target, calldata and one matching Transfer log).     *)
ReceiptMatches(h, d) == chain[h] = "success" /\ Pays[h] = d

(* The last statement of completeWithVerifiedReceipt. *)
CompleteWrite(k) ==
    /\ TransitionWrite(k, "VERIFYING", "COMPLETED")
    /\ UNCHANGED walletGrants

(* reconcilePayrollIntents, after a receipt was refused for good. *)
FailWrite(k) ==
    /\ TransitionWrite(k, "VERIFYING", "FAILED_FINAL")
    /\ UNCHANGED walletGrants

(* Time: the lease's leaseExpiresAt passes. *)
LeaseExpires(k) ==
    /\ leaseLive[k]
    /\ leaseLive' = [leaseLive EXCEPT ![k] = FALSE]
    /\ UNCHANGED <<status, payload, transactionHash, leaseOwner, walletGrants, chain>>

(* The chain: a broadcast transaction gets its receipt. *)
Mine(h, outcome) ==
    /\ chain[h] = "unseen"
    /\ chain' = [chain EXCEPT ![h] = outcome]
    /\ UNCHANGED <<status, payload, transactionHash, leaseOwner, leaseLive, walletGrants>>

Clock == \/ \E k \in Keys : LeaseExpires(k)
         \/ \E h \in Hashes : \E outcome \in {"success", "reverted"} : Mine(h, outcome)

-----------------------------------------------------------------------------
Exists(k) == status[k] # "ABSENT"

(* Completion and final failure are only written once the bound hash was    *)
(* looked up on chain: the conjunct on transactionHash is what the handlers *)
(* establish by the reads that precede the statement.                       *)
StoreNext ==
    \/ \E k \in Keys : \E d \in Payloads : AcquireCreate(k, d)
    \/ \E k \in Keys : Exists(k) /\ \E o \in Owners : LeaseWrite(k, o)
    \/ \E k \in Keys : \E s \in Statuses : PrepareWrite(k, s)
    \/ \E k \in Keys : \E s \in Statuses : AdvanceWrite(k, s)
    \/ \E k \in Keys : Exists(k) /\ \E h \in Hashes : BindWrite(k, h)
    \/ \E k \in Keys : Exists(k) /\ CancelWrite(k)
    \/ \E k \in Keys : /\ transactionHash[k] # NoHash
                       /\ ReceiptMatches(transactionHash[k], payload[k])
                       /\ CompleteWrite(k)
    \/ \E k \in Keys : transactionHash[k] # NoHash /\ FailWrite(k)
    \/ Clock

StoreSpec == StoreInit /\ [][StoreNext]_storeVars

-----------------------------------------------------------------------------
StoreTypeOK ==
    /\ status \in [Keys -> Statuses \cup {"ABSENT"}]
    /\ payload \in [Keys -> Payloads \cup {NoPayload}]
    /\ transactionHash \in [Keys -> Hashes \cup {NoHash}]
    /\ leaseOwner \in [Keys -> Owners \cup {NoOwner}]
    /\ leaseLive \in [Keys -> BOOLEAN]
    /\ walletGrants \in [Keys -> Nat]
    /\ chain \in [Hashes -> ChainStates]

(* A COMPLETED intent carries the hash of a successful transaction that     *)
(* makes exactly the transfer the intent was acquired for, and goes on      *)
(* carrying it: no later bind, cancel, lease or verification request takes  *)
(* the evidence away (completeWithVerifiedReceipt, bindTransactionHash).    *)
CompletedIsProven ==
    \A k \in Keys : status[k] = "COMPLETED" =>
        /\ transactionHash[k] # NoHash
        /\ ReceiptMatches(transactionHash[k], payload[k])

(* One on-chain transaction settles at most one business operation, even    *)
(* when two intents ask for the same transfer.                              *)
EvidenceIsUnique ==
    \A k, l \in Keys :
        k # l /\ transactionHash[k] # NoHash => transactionHash[k] # transactionHash[l]

(* An intent with a bound hash is never reported as unsubmitted, cancelled  *)
(* or expired: a cancellation and a bind that race cannot leave a broadcast *)
(* payment behind a CANCELLED row (cancelUnsubmitted vs bindTransactionHash). *)
EvidenceStatuses == {"SUBMITTED", "VERIFYING", "COMPLETED", "FAILED_FINAL"}

EvidenceIsVisible ==
    \A k \in Keys : transactionHash[k] # NoHash => status[k] \in EvidenceStatuses

(* At most one prepare-wallet request is ever granted per intent, however   *)
(* many tabs race, leases expire, cancellations and verifications           *)
(* interleave: automatic rebroadcast is disabled (prepareWalletSignature).  *)
OneWalletOpening == \A k \in Keys : walletGrants[k] <= 1

(* Once a hash is bound it stays bound and the status only moves forward:   *)
(* SUBMITTED, VERIFYING, then one of the two outcomes for ever.             *)
NextEvidenceStatuses(s) ==
    CASE s = "SUBMITTED" -> {"SUBMITTED", "VERIFYING"}
      [] s = "VERIFYING" -> {"VERIFYING", "COMPLETED", "FAILED_FINAL"}
      [] OTHER -> {s}

ForwardStep(k) ==
    transactionHash[k] # NoHash =>
        /\ transactionHash'[k] = transactionHash[k]
        /\ payload'[k] = payload[k]
        /\ status'[k] \in NextEvidenceStatuses(status[k])

EvidenceMovesForward == [][\A k \in Keys : ForwardStep(k)]_storeVars

(* The table implements the payment ledger: its statuses, leases, retries   *)
(* and cancellations are invisible but for the three events that matter,    *)
(* acquire, bindTransactionHash and completeWithVerifiedReceipt.            *)
Ledger == INSTANCE PaymentLedger WITH
    Operations <- Keys, Transfers <- Payloads, Transactions <- Hashes,
    Makes <- Pays, NoTransfer <- NoPayload, NoTransaction <- NoHash,
    demand <- payload, evidence <- transactionHash, receipts <- chain,
    settled <- {k \in Keys : status[k] = "COMPLETED"}

ImplementsLedger == Ledger!LedgerSpec
=============================================================================
