------------------------- MODULE IntentStoreProofs -------------------------
(***************************************************************************)
(* Theorems about IntentStore, for every set of intents, transactions and   *)
(* lease owners.                                                            *)
(***************************************************************************)
EXTENDS IntentStore, TLAPS

(* A row that was never acquired is empty, an acquired one has its payload. *)
RowsHavePayloads ==
    \A k \in Keys : /\ status[k] = "ABSENT" <=> payload[k] = NoPayload
                    /\ status[k] = "ABSENT" => transactionHash[k] = NoHash

(* A final failure was decided on a receipt, so its hash is bound. *)
FailedHasEvidence ==
    \A k \in Keys : status[k] = "FAILED_FINAL" => transactionHash[k] # NoHash

(* An intent whose wallet was opened is past every status prepare-wallet    *)
(* accepts.                                                                 *)
GrantedIsPast ==
    \A k \in Keys : status[k] \in {"ABSENT", "CREATED", "FAILED_RETRYABLE"} => walletGrants[k] = 0

StoreInv ==
    /\ StoreTypeOK
    /\ RowsHavePayloads
    /\ CompletedIsProven
    /\ EvidenceIsUnique
    /\ EvidenceIsVisible
    /\ FailedHasEvidence
    /\ OneWalletOpening
    /\ GrantedIsPast

-----------------------------------------------------------------------------
(* The empty table satisfies the invariant. *)
LEMMA StoreInitInv == StoreInit => StoreInv
  BY NullAssumption
  DEF StoreInit, StoreInv, StoreTypeOK, RowsHavePayloads, CompletedIsProven,
      EvidenceIsUnique, EvidenceIsVisible, FailedHasEvidence, OneWalletOpening,
      GrantedIsPast, ChainStates

(* Every statement a handler may issue, and the passing of time, preserves  *)
(* the invariant.                                                           *)
LEMMA StoreNextInv == StoreInv /\ [StoreNext]_storeVars => StoreInv'
<1> USE NullAssumption, PaysAssumption
<1> SUFFICES ASSUME StoreInv, [StoreNext]_storeVars
             PROVE  StoreInv'
  OBVIOUS
<1> USE DEF StoreInv, StoreTypeOK, Statuses, Terminal, ChainStates, RowsHavePayloads,
            CompletedIsProven, EvidenceIsUnique, EvidenceIsVisible, EvidenceStatuses,
            FailedHasEvidence, OneWalletOpening, GrantedIsPast, ReceiptMatches
<1>1. ASSUME NEW k \in Keys, NEW d \in Payloads, AcquireCreate(k, d)
      PROVE  StoreInv'
  BY <1>1 DEF AcquireCreate
<1>2. ASSUME NEW k \in Keys, NEW o \in Owners, LeaseWrite(k, o)
      PROVE  StoreInv'
  BY <1>2 DEF LeaseWrite
<1>3. ASSUME NEW k \in Keys, NEW s \in Statuses, PrepareWrite(k, s)
      PROVE  StoreInv'
  BY <1>3 DEF PrepareWrite, TransitionWrite
<1>4. ASSUME NEW k \in Keys, NEW s \in Statuses, AdvanceWrite(k, s)
      PROVE  StoreInv'
  BY <1>4 DEF AdvanceWrite, TransitionWrite, AdvanceFrom, AdvanceTo
<1>5. ASSUME NEW k \in Keys, NEW h \in Hashes, Exists(k), BindWrite(k, h)
      PROVE  StoreInv'
  BY <1>5 DEF BindWrite, HashFree, Exists
<1>6. ASSUME NEW k \in Keys, Exists(k), CancelWrite(k)
      PROVE  StoreInv'
  BY <1>6 DEF CancelWrite, CancelAs, Exists
<1>7. ASSUME NEW k \in Keys, transactionHash[k] # NoHash,
             ReceiptMatches(transactionHash[k], payload[k]), CompleteWrite(k)
      PROVE  StoreInv'
  BY <1>7 DEF CompleteWrite, TransitionWrite
<1>8. ASSUME NEW k \in Keys, transactionHash[k] # NoHash, FailWrite(k)
      PROVE  StoreInv'
  BY <1>8 DEF FailWrite, TransitionWrite
<1>9. ASSUME NEW k \in Keys, LeaseExpires(k)
      PROVE  StoreInv'
  BY <1>9 DEF LeaseExpires
<1>10. ASSUME NEW h \in Hashes, NEW outcome \in {"success", "reverted"}, Mine(h, outcome)
       PROVE  StoreInv'
  BY <1>10 DEF Mine
<1>11. CASE UNCHANGED storeVars
  BY <1>11 DEF storeVars
<1> QED
  BY <1>1, <1>2, <1>3, <1>4, <1>5, <1>6, <1>7, <1>8, <1>9, <1>10, <1>11
  DEF StoreNext, Clock

(* The whole inductive invariant holds of every behaviour of the table. *)
THEOREM StoreInvariant == StoreSpec => []StoreInv
  BY StoreInitInv, StoreNextInv, PTL DEF StoreSpec

-----------------------------------------------------------------------------
(* From a state of the invariant, no statement takes a bound hash or its    *)
(* payload away or moves its status back.                                   *)
LEMMA StoreStepForward ==
    StoreInv /\ [StoreNext]_storeVars => [\A k \in Keys : ForwardStep(k)]_storeVars
<1> SUFFICES ASSUME StoreInv, StoreNext, NEW k \in Keys, transactionHash[k] # NoHash
             PROVE  /\ transactionHash'[k] = transactionHash[k]
                    /\ payload'[k] = payload[k]
                    /\ status'[k] \in NextEvidenceStatuses(status[k])
  BY DEF ForwardStep
<1>1. /\ StoreTypeOK
      /\ status[k] \in EvidenceStatuses
      /\ status[k] # "ABSENT"
  BY DEF StoreInv, EvidenceIsVisible, EvidenceStatuses
<1>2. status[k] \in NextEvidenceStatuses(status[k])
  BY <1>1 DEF EvidenceStatuses, NextEvidenceStatuses
<1>3. ASSUME NEW l \in Keys, NEW s \in Statuses, NEW t \in Statuses,
             status[l] = s, t \in NextEvidenceStatuses(s) \/ s \notin EvidenceStatuses,
             status' = [status EXCEPT ![l] = t],
             UNCHANGED <<transactionHash, payload>>
      PROVE  /\ transactionHash'[k] = transactionHash[k]
             /\ payload'[k] = payload[k]
             /\ status'[k] \in NextEvidenceStatuses(status[k])
  BY <1>1, <1>2, <1>3 DEF StoreTypeOK
<1>4. ASSUME UNCHANGED <<status, payload, transactionHash>>
      PROVE  /\ transactionHash'[k] = transactionHash[k]
             /\ payload'[k] = payload[k]
             /\ status'[k] \in NextEvidenceStatuses(status[k])
  BY <1>2, <1>4
<1>5. ASSUME NEW l \in Keys, NEW d \in Payloads, AcquireCreate(l, d)
      PROVE  /\ transactionHash'[k] = transactionHash[k]
             /\ payload'[k] = payload[k]
             /\ status'[k] \in NextEvidenceStatuses(status[k])
  BY <1>1, <1>2, <1>5 DEF AcquireCreate, StoreTypeOK
<1>6. ASSUME NEW l \in Keys, NEW s \in Statuses, PrepareWrite(l, s)
      PROVE  /\ transactionHash'[k] = transactionHash[k]
             /\ payload'[k] = payload[k]
             /\ status'[k] \in NextEvidenceStatuses(status[k])
  <2>1. s \notin EvidenceStatuses /\ "AWAITING_WALLET_SIGNATURE" \in Statuses
    BY <1>6 DEF PrepareWrite, EvidenceStatuses, Statuses
  <2> QED BY <1>3, <1>6, <2>1 DEF PrepareWrite, TransitionWrite
<1>7. ASSUME NEW l \in Keys, NEW s \in Statuses, AdvanceWrite(l, s)
      PROVE  /\ transactionHash'[k] = transactionHash[k]
             /\ payload'[k] = payload[k]
             /\ status'[k] \in NextEvidenceStatuses(status[k])
  <2>1. /\ AdvanceTo(s) \in Statuses
        /\ AdvanceTo(s) \in NextEvidenceStatuses(s) \/ s \notin EvidenceStatuses
    BY <1>7 DEF AdvanceWrite, AdvanceFrom, AdvanceTo, EvidenceStatuses, Statuses,
                NextEvidenceStatuses
  <2> QED BY <1>3, <1>7, <2>1 DEF AdvanceWrite, TransitionWrite
<1>8. ASSUME NEW l \in Keys, CompleteWrite(l) \/ FailWrite(l)
      PROVE  /\ transactionHash'[k] = transactionHash[k]
             /\ payload'[k] = payload[k]
             /\ status'[k] \in NextEvidenceStatuses(status[k])
  <2>1. /\ {"VERIFYING", "COMPLETED", "FAILED_FINAL"} \subseteq Statuses
        /\ {"COMPLETED", "FAILED_FINAL"} \subseteq NextEvidenceStatuses("VERIFYING")
    BY DEF Statuses, Terminal, NextEvidenceStatuses
  <2> QED BY <1>3, <1>8, <2>1 DEF CompleteWrite, FailWrite, TransitionWrite
<1>9. ASSUME NEW l \in Keys, NEW h \in Hashes, BindWrite(l, h)
      PROVE  /\ transactionHash'[k] = transactionHash[k]
             /\ payload'[k] = payload[k]
             /\ status'[k] \in NextEvidenceStatuses(status[k])
  BY <1>1, <1>2, <1>9 DEF BindWrite, StoreTypeOK
<1>10. ASSUME NEW l \in Keys, CancelWrite(l)
       PROVE  /\ transactionHash'[k] = transactionHash[k]
              /\ payload'[k] = payload[k]
              /\ status'[k] \in NextEvidenceStatuses(status[k])
  BY <1>1, <1>2, <1>10 DEF CancelWrite, CancelAs, StoreTypeOK
<1>11. ASSUME NEW l \in Keys, NEW o \in Owners, LeaseWrite(l, o)
       PROVE  UNCHANGED <<status, payload, transactionHash>>
  BY <1>11 DEF LeaseWrite
<1>12. ASSUME Clock
       PROVE  UNCHANGED <<status, payload, transactionHash>>
  BY <1>12 DEF Clock, LeaseExpires, Mine
<1> QED
  BY <1>4, <1>5, <1>6, <1>7, <1>8, <1>9, <1>10, <1>11, <1>12 DEF StoreNext

(* Nothing a statement does undoes what a handler relies on: rows are not  *)
(* deleted, payloads and bound hashes do not change, receipts are final.    *)
LEMMA StoreStable ==
    ASSUME StoreInv, [StoreNext]_storeVars
    PROVE  /\ \A k \in Keys : Exists(k) => Exists(k)' /\ payload'[k] = payload[k]
           /\ \A k \in Keys : transactionHash[k] # NoHash =>
                                  transactionHash'[k] = transactionHash[k]
           /\ \A h \in Hashes : chain[h] # "unseen" => chain'[h] = chain[h]
<1> USE DEF StoreInv, StoreTypeOK, Exists
<1> USE DEF Statuses, Terminal, AdvanceFrom, AdvanceTo
<1> SUFFICES ASSUME StoreNext
             PROVE  /\ \A k \in Keys : Exists(k) => Exists(k)' /\ payload'[k] = payload[k]
                    /\ \A k \in Keys : transactionHash[k] # NoHash =>
                                           transactionHash'[k] = transactionHash[k]
                    /\ \A h \in Hashes : chain[h] # "unseen" => chain'[h] = chain[h]
  BY DEF storeVars
<1>1. \A k \in Keys : Exists(k) => Exists(k)' /\ payload'[k] = payload[k]
  BY DEF StoreNext, Clock, AcquireCreate, LeaseWrite, PrepareWrite, AdvanceWrite, BindWrite,
         CancelWrite, CancelAs, CompleteWrite, FailWrite, TransitionWrite, LeaseExpires, Mine
<1>2. \A k \in Keys : transactionHash[k] # NoHash => transactionHash'[k] = transactionHash[k]
  BY DEF StoreNext, Clock, AcquireCreate, LeaseWrite, PrepareWrite, AdvanceWrite, BindWrite,
         CancelWrite, CancelAs, CompleteWrite, FailWrite, TransitionWrite, LeaseExpires, Mine
<1>3. \A h \in Hashes : chain[h] # "unseen" => chain'[h] = chain[h]
  BY DEF StoreNext, Clock, AcquireCreate, LeaseWrite, PrepareWrite, AdvanceWrite, BindWrite,
         CancelWrite, CancelAs, CompleteWrite, FailWrite, TransitionWrite, LeaseExpires, Mine
<1> QED BY <1>1, <1>2, <1>3

(* A completed intent stays completed, with its hash and its payload.       *)
LEMMA CompletedStays ==
    ASSUME StoreInv, [StoreNext]_storeVars, NEW k \in Keys, status[k] = "COMPLETED"
    PROVE  /\ status'[k] = "COMPLETED"
           /\ transactionHash'[k] = transactionHash[k]
           /\ payload'[k] = payload[k]
<1>1. transactionHash[k] # NoHash
  BY DEF StoreInv, CompletedIsProven
<1>2. CASE UNCHANGED storeVars
  BY <1>2 DEF storeVars
<1>3. CASE ~UNCHANGED storeVars
  <2>1. ForwardStep(k)
    BY <1>3, StoreStepForward
  <2> QED BY <1>1, <2>1 DEF ForwardStep, NextEvidenceStatuses
<1> QED BY <1>2, <1>3

(* Evidence is permanent and its status moves only forward, in every        *)
(* interleaving of the statements (bindTransactionHash, beginVerification,  *)
(* cancelUnsubmitted, completeWithVerifiedReceipt).                         *)
THEOREM EvidenceForward == StoreSpec => EvidenceMovesForward
  BY StoreInvariant, StoreStepForward, PTL DEF StoreSpec, EvidenceMovesForward

-----------------------------------------------------------------------------
(* The empty table is the empty ledger. *)
LEMMA LedgerInitStep == StoreInit => Ledger!LedgerInit
  BY DEF StoreInit, Ledger!LedgerInit

(* Every statement is one ledger event or invisible to the ledger. *)
LEMMA LedgerNextStep ==
    StoreInv /\ [StoreNext]_storeVars => [Ledger!LedgerNext]_(Ledger!ledgerVars)
<1> SUFFICES ASSUME StoreInv, [StoreNext]_storeVars
             PROVE  Ledger!LedgerNext \/ UNCHANGED Ledger!ledgerVars
  OBVIOUS
<1> DEFINE Settled == {k \in Keys : status[k] = "COMPLETED"}
<1> USE NullAssumption DEF StoreInv, StoreTypeOK
<1>1. ASSUME NEW k \in Keys, NEW d \in Payloads, AcquireCreate(k, d)
      PROVE  Ledger!Open(k, d)
  BY <1>1 DEF AcquireCreate, Ledger!Open, RowsHavePayloads
<1>2. ASSUME NEW k \in Keys, NEW h \in Hashes, Exists(k), BindWrite(k, h)
      PROVE  Ledger!Record(k, h)
  BY <1>2 DEF BindWrite, HashFree, Exists, Ledger!Record, RowsHavePayloads, CompletedIsProven
<1>3. ASSUME NEW k \in Keys, transactionHash[k] # NoHash,
             ReceiptMatches(transactionHash[k], payload[k]), CompleteWrite(k)
      PROVE  Ledger!Settle(k)
  BY <1>3 DEF CompleteWrite, TransitionWrite, ReceiptMatches, Ledger!Settle
<1>4. ASSUME NEW h \in Hashes, NEW outcome \in {"success", "reverted"}, Mine(h, outcome)
      PROVE  Ledger!Confirm(h, outcome)
  BY <1>4 DEF Mine, Ledger!Confirm
<1>5. ASSUME Settled' = Settled, UNCHANGED <<payload, transactionHash, chain>>
      PROVE  UNCHANGED Ledger!ledgerVars
  BY <1>5 DEF Ledger!ledgerVars
<1>6. ASSUME NEW k \in Keys, NEW s \in Statuses, PrepareWrite(k, s) \/ AdvanceWrite(k, s)
      PROVE  UNCHANGED Ledger!ledgerVars
  BY <1>5, <1>6 DEF PrepareWrite, AdvanceWrite, TransitionWrite, AdvanceFrom, AdvanceTo
<1>7. ASSUME NEW k \in Keys, CancelWrite(k)
      PROVE  UNCHANGED Ledger!ledgerVars
  BY <1>5, <1>7 DEF CancelWrite, CancelAs, CompletedIsProven
<1>8. ASSUME NEW k \in Keys, FailWrite(k)
      PROVE  UNCHANGED Ledger!ledgerVars
  BY <1>5, <1>8 DEF FailWrite, TransitionWrite
<1>9. ASSUME NEW k \in Keys, NEW o \in Owners, LeaseWrite(k, o)
      PROVE  UNCHANGED Ledger!ledgerVars
  BY <1>5, <1>9 DEF LeaseWrite
<1>10. ASSUME NEW k \in Keys, LeaseExpires(k)
       PROVE  UNCHANGED Ledger!ledgerVars
  BY <1>5, <1>10 DEF LeaseExpires
<1>11. CASE UNCHANGED storeVars
  BY <1>5, <1>11 DEF storeVars
<1> QED
  BY <1>1, <1>2, <1>3, <1>4, <1>6, <1>7, <1>8, <1>9, <1>10, <1>11
  DEF StoreNext, Clock, Ledger!LedgerNext

(* The table implements PaymentLedger: one opening, one evidence, settled   *)
(* only by a successful receipt of its own transfer.                        *)
THEOREM StoreImplementsLedger == StoreSpec => ImplementsLedger
  BY StoreInvariant, LedgerInitStep, LedgerNextStep, PTL
  DEF StoreSpec, ImplementsLedger, Ledger!LedgerSpec
=============================================================================
