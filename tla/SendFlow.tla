------------------------------ MODULE SendFlow ------------------------------
(***************************************************************************)
(* The Send page (app/send/page.tsx): one ERC-20 transfer from the         *)
(* connected wallet, guarded by an execution intent and by a recovery      *)
(* record in localStorage (lib/send-operation.ts).  Every await of submit  *)
(* is a step; the page may be reloaded between any two, the wallet may     *)
(* broadcast without answering, and the user may cancel or start over      *)
(* while an answer is on its way.  A page can be filled from a QR code     *)
(* (lib/evm-payment-uri.ts).                                               *)
(***************************************************************************)
EXTENDS Naturals, Sequences, FiniteSets

CONSTANTS
  Pages,          \* browser tabs on the Send page of one wallet
  Reviewed,       \* transfers a user may review: token, recipient and amount
  QrAmounts,      \* base-unit amounts a QR code may carry
  Decimal,        \* base units per whole token
  MaxBalance,     \* balances a Max button may see, in base units
  MaxFee,         \* fee estimates, in native units
  WeiPerUnit,     \* native units per base unit of USDC
  GasFallback,    \* ARC_GAS_FALLBACK_UNITS
  GasMargin,      \* ARC_GAS_SAFETY_MARGIN_UNITS
  GasSafety,      \* the reciprocal of ARC_GAS_SAFETY_BPS
  MaxSends,       \* bound on intents acquired
  MaxReloads,     \* bound on page loads after the first
  MaxSendFaults   \* bound on failed backend calls

ASSUME SendAssumption ==
  /\ Decimal \in Nat \ {0} /\ QrAmounts \subseteq Nat
  /\ WeiPerUnit \in Nat \ {0} /\ GasSafety \in Nat \ {0} /\ GasFallback \in Nat /\ GasMargin \in Nat
  /\ MaxBalance \in Nat /\ MaxFee \in Nat

VARIABLES
  page,        \* page[b]: React state and the submit() under way
  storage,     \* the recovery record of the wallet: [intent, hash], intent 0 when absent
  sends,       \* execution intents of operation SEND: [what, status, hash]
  broadcasts,  \* transactions: [intent, what, outcome]
  returned,    \* hashes the wallet gave back to a page
  prompted,    \* intents for which the wallet was opened
  abandoned,   \* intents the user cancelled or started over
  qr,          \* the payload scanned and the form it filled
  max,         \* what the Max button saw and offered
  reloads,
  sendFaults

sendVars == <<page, storage, sends, broadcasts, returned, prompted, abandoned, qr,
              max, reloads, sendFaults>>

NoRecovery == [intent |-> 0, hash |-> 0]

(* stage and locked are what the buttons obey, recovery the React copy of  *)
(* the record, at the next await of submit() for intent and tx, checking a *)
(* recovery call on the record held, verified and done what the success    *)
(* dialog shows.                                                           *)
FreshPage == [stage |-> "idle", locked |-> FALSE, recovery |-> NoRecovery,
              at |-> "none", intent |-> 0, tx |-> 0, checking |-> "none",
              held |-> NoRecovery, verified |-> 0, done |-> 0]

SendInit ==
  /\ page = [b \in Pages |-> FreshPage]
  /\ storage = NoRecovery
  /\ sends = <<>>
  /\ broadcasts = <<>>
  /\ returned = {} /\ prompted = {} /\ abandoned = {}
  /\ qr = [scanned |-> FALSE]
  /\ max = [pressed |-> FALSE]
  /\ reloads = 0
  /\ sendFaults = 0

Fault == sendFaults < MaxSendFaults /\ sendFaults' = sendFaults + 1

(* ------------------------------ QR prefill ------------------------------ *)

NoQrAmount == [given |-> FALSE, units |-> 0]

QrPayloads ==
  [action : {"none", "transfer"}, chain : {"none", "arc", "other"},
   token : {"none", "listed", "unlisted"}, recipient : {"r", "zero"},
   amount : {NoQrAmount} \union [given : {TRUE}, units : QrAmounts \union {0}]]

Refused == [ok |-> FALSE]

\* parseEvmPaymentPayload; an amount given but empty is malformed, and is
\* written as units 0 here: both are refused.
ParseEvmPaymentPayload(p) ==
  LET transfer == p.action = "transfer"
  IN IF \/ p.chain = "other"
        \/ p.recipient = "zero"
        \/ transfer /\ p.token # "listed"
        \/ transfer /\ p.amount.given /\ p.amount.units = 0
        \/ ~transfer /\ (p.token # "none" \/ p.amount.given)
     THEN Refused
     ELSE [ok |-> TRUE, recipient |-> p.recipient, chain |-> p.chain,
           token |-> IF transfer THEN p.token ELSE "none",
           amount |-> IF transfer THEN p.amount ELSE NoQrAmount]

\* formatUnits and parseUnits: the query string carries a decimal number.
FormatUnits(units) == [whole |-> units \div Decimal, fraction |-> units % Decimal]

ParseUnits(display) == display.whole * Decimal + display.fraction

SerializeSendPrefill(prefill) ==
  [recipient |-> prefill.recipient, chain |-> prefill.chain, token |-> prefill.token,
   given |-> prefill.amount.given, amount |-> FormatUnits(prefill.amount.units)]

\* The Send page rebuilds a payment URI from its query and parses it again;
\* with a token the URI always has a uint256 parameter, empty without amount.
ReadPrefill(query) ==
  LET transfer == query.token # "none"
  IN ParseEvmPaymentPayload(
       [action |-> IF transfer THEN "transfer" ELSE "none", chain |-> query.chain,
        token |-> query.token, recipient |-> query.recipient,
        amount |-> IF ~transfer THEN NoQrAmount
                   ELSE [given |-> TRUE,
                         units |-> IF query.given THEN ParseUnits(query.amount) ELSE 0]])

ScanQr(p) ==
  /\ ~qr.scanned
  /\ LET prefill == ParseEvmPaymentPayload(p)
     IN /\ prefill.ok
        /\ qr' = [scanned |-> TRUE, code |-> p,
                  form |-> ReadPrefill(SerializeSendPrefill(prefill))]
  /\ UNCHANGED <<page, storage, sends, broadcasts, returned, prompted, abandoned,
                 max, reloads, sendFaults>>

(* --------------------------- the gas reserve ---------------------------- *)

CeilDiv(a, b) == (a + b - 1) \div b

\* gasReserveFromFeeWei: an estimate rounded up, with its margins, or the
\* fallback when there is none.
GasReserveFromFeeWei(fee) ==
  IF ~fee.known THEN GasFallback
  ELSE LET units == CeilDiv(fee.wei, WeiPerUnit)
       IN units + CeilDiv(units, GasSafety) + GasMargin

CalculateArcMaxAmount(usdc, balance, native, reserve) ==
  IF balance = 0 THEN 0
  ELSE IF usdc THEN IF balance > reserve THEN balance - reserve ELSE 0
  ELSE IF native >= reserve THEN balance ELSE 0

HasArcGasForAmount(usdc, amount, balance, native, reserve) ==
  /\ 0 < amount /\ amount <= balance
  /\ IF usdc THEN amount + reserve <= native ELSE native >= reserve

\* selectMax; for USDC the token balance is the native balance.
SelectMax(usdc, balance, native, fee) ==
  /\ ~max.pressed
  /\ usdc => native = balance
  /\ LET reserve == GasReserveFromFeeWei(fee)
     IN max' = [pressed |-> TRUE, usdc |-> usdc, balance |-> balance, native |-> native,
                reserve |-> reserve, fee |-> fee,
                amount |-> CalculateArcMaxAmount(usdc, balance, native, reserve)]
  /\ UNCHANGED <<page, storage, sends, broadcasts, returned, prompted, abandoned, qr,
                 reloads, sendFaults>>

(* ------------------------------- submit() ------------------------------- *)

FormLocked(b) == page[b].locked \/ page[b].stage \notin {"idle", "completed"}

Submitting(b) == page[b].at # "none"

\* Submit passes its checks and acquires an intent under a fresh reference.
Submit(b, what) ==
  /\ ~FormLocked(b) /\ ~Submitting(b)
  /\ Len(sends) < MaxSends
  /\ sends' = Append(sends, [what |-> what, status |-> "CREATED", hash |-> 0])
  /\ page' = [page EXCEPT ![b].stage = "awaiting_signature", ![b].at = "prepare",
                          ![b].intent = Len(sends) + 1, ![b].tx = 0]
  /\ UNCHANGED <<storage, broadcasts, returned, prompted, abandoned, qr, max, reloads, sendFaults>>

\* The catch and finally of submit.  externalRecovery is the value of the
\* render that called submit, null whenever the form was unlocked: the stage
\* always returns to idle.
FailedPage(b) == [page[b] EXCEPT !.stage = "idle", !.at = "none"]

\* prepare-wallet is granted by the backend...
GrantWallet(b) ==
  /\ page[b].at = "prepare"
  /\ \/ /\ sends' = [sends EXCEPT ![page[b].intent].status = "AWAITING_WALLET_SIGNATURE"]
        /\ page' = [page EXCEPT ![b].at = "prepared"]
        /\ UNCHANGED sendFaults
     \/ Fault /\ page' = [page EXCEPT ![b] = FailedPage(b)] /\ UNCHANGED sends
  /\ UNCHANGED <<storage, broadcasts, returned, prompted, abandoned, qr, max, reloads>>

\* ...and onWalletPrepared writes the record before the wallet opens.
OnWalletPrepared(b) ==
  LET record == [intent |-> page[b].intent, hash |-> 0]
  IN /\ page[b].at = "prepared"
     /\ storage' = record
     /\ page' = [page EXCEPT ![b].locked = TRUE, ![b].at = "wallet", ![b].recovery = record]
     /\ prompted' = prompted \union {page[b].intent}
     /\ UNCHANGED <<sends, broadcasts, returned, abandoned, qr, max, reloads, sendFaults>>

\* The user confirms; the wallet broadcasts before it answers.
Broadcast(b) ==
  /\ page[b].at = "wallet"
  /\ broadcasts' = Append(broadcasts, [intent |-> page[b].intent,
                     what |-> sends[page[b].intent].what, outcome |-> "pending"])
  /\ page' = [page EXCEPT ![b].at = "hash", ![b].tx = Len(broadcasts) + 1]
  /\ UNCHANGED <<storage, sends, returned, prompted, abandoned, qr, max, reloads, sendFaults>>

\* The user rejects, or the provider fails with or without a broadcast.
WalletFails(b) ==
  /\ page[b].at \in {"wallet", "hash"}
  /\ page' = [page EXCEPT ![b] = FailedPage(b)]
  /\ UNCHANGED <<storage, sends, broadcasts, returned, prompted, abandoned, qr, max, reloads,
                 sendFaults>>

\* variant: the hash is bound before it is recorded
BindBeforeRecord(b) ==
  /\ page[b].at = "hash"
  /\ returned' = returned \union {page[b].tx}
  /\ page' = [page EXCEPT ![b].at = "bind"]
  /\ UNCHANGED <<storage, sends, broadcasts, prompted, abandoned, qr, max, reloads, sendFaults>>

\* executeTransaction returns: the record gets the hash.
RecordHash(b) ==
  LET record == [intent |-> page[b].intent, hash |-> page[b].tx]
  IN /\ page[b].at = "hash"
     /\ returned' = returned \union {page[b].tx}
     /\ storage' = record
     /\ page' = [page EXCEPT ![b].at = "bind", ![b].recovery = record,
                             ![b].stage = "submitting"]
     /\ UNCHANGED <<sends, broadcasts, prompted, abandoned, qr, max, reloads, sendFaults>>

(* bindTransactionHash, as the intent table answers it: an unbound intent  *)
(* takes the hash of a transaction no other intent has.                    *)
HashUnbound(h) == \A i \in DOMAIN sends : sends[i].hash # h

Bindable(i, h) == sends[i].hash = h \/ (sends[i].hash = 0 /\ HashUnbound(h))

Bind(i, h) == sends' = [sends EXCEPT ![i].hash = h,
                 ![i].status = IF @ = "COMPLETED" THEN @ ELSE "SUBMITTED"]

BindHash(b) ==
  LET i == page[b].intent
      h == page[b].tx
  IN /\ page[b].at = "bind"
     /\ \/ /\ Bindable(i, h) /\ Bind(i, h)
           /\ page' = [page EXCEPT ![b].at = "confirm", ![b].stage = "confirming"]
           /\ UNCHANGED sendFaults
        \/ /\ page' = [page EXCEPT ![b] = FailedPage(b)]
           /\ UNCHANGED sends
           /\ \/ ~Bindable(i, h) /\ UNCHANGED sendFaults
              \/ Fault
     /\ UNCHANGED <<storage, broadcasts, returned, prompted, abandoned, qr, max, reloads>>

\* verifyErc20Transfer: a successful receipt of exactly the reviewed transfer.
VerifyErc20Transfer(i, h) ==
  broadcasts[h].outcome = "success" /\ broadcasts[h].what = sends[i].what

CompletedPage(b, i, h) ==
  [page[b] EXCEPT !.stage = "completed", !.recovery = NoRecovery, !.verified = h, !.done = i]

\* The page's own verification, then the backend's of the bound intent: the
\* record is cleared only after both.
VerifyAndComplete(b) ==
  LET i == page[b].intent
      h == page[b].tx
  IN /\ page[b].at = "confirm"
     /\ broadcasts[h].outcome # "pending"
     /\ \/ /\ VerifyErc20Transfer(i, h) /\ sends[i].hash = h
           /\ sends' = [sends EXCEPT ![i].status = "COMPLETED"]
           /\ storage' = NoRecovery
           /\ page' = [page EXCEPT ![b] = [CompletedPage(b, i, h) EXCEPT !.at = "none"]]
           /\ UNCHANGED sendFaults
        \/ /\ page' = [page EXCEPT ![b] = FailedPage(b)]
           /\ UNCHANGED <<sends, storage>>
           /\ \/ ~(VerifyErc20Transfer(i, h) /\ sends[i].hash = h) /\ UNCHANGED sendFaults
              \/ Fault
     /\ UNCHANGED <<broadcasts, returned, prompted, abandoned, qr, max, reloads>>

(* ------------------------------- recovery ------------------------------- *)

\* The effect of a loaded page on the record it finds.
Mounted(r) ==
  IF r.intent = 0 THEN FreshPage
  ELSE [FreshPage EXCEPT !.recovery = r, !.held = r, !.locked = TRUE, !.verified = r.hash,
          !.stage = IF r.hash = 0 THEN "recoverable_error" ELSE "confirming",
          !.checking = IF r.hash = 0 THEN "none" ELSE "reconcile"]

Reload(b) ==
  /\ reloads < MaxReloads
  /\ page' = [page EXCEPT ![b] = Mounted(storage)]
  /\ reloads' = reloads + 1
  /\ UNCHANGED <<storage, sends, broadcasts, returned, prompted, abandoned, qr, max, sendFaults>>

\* The reconciliation of the mount effect and of "Bind and verify hash":
\* bind, verify on chain, verify at the backend, clear the record.
Reconcile(b) ==
  LET i == page[b].held.intent
      h == page[b].held.hash
      bound == Bindable(i, h) /\ sends[i].status # "CANCELLED"
  IN /\ page[b].checking = "reconcile"
     /\ broadcasts[h].outcome # "pending"
     /\ \/ /\ bound /\ VerifyErc20Transfer(i, h)
           /\ sends' = [sends EXCEPT ![i].hash = h, ![i].status = "COMPLETED"]
           /\ storage' = NoRecovery
           /\ page' = [page EXCEPT ![b] = [CompletedPage(b, i, h) EXCEPT
                                             !.checking = "none", !.locked = FALSE]]
           /\ UNCHANGED sendFaults
        \/ /\ IF bound THEN Bind(i, h) ELSE UNCHANGED sends
           /\ page' = [page EXCEPT ![b].stage = "recoverable_error", ![b].checking = "none"]
           /\ UNCHANGED storage
           /\ \/ ~(bound /\ VerifyErc20Transfer(i, h)) /\ UNCHANGED sendFaults
              \/ Fault
     /\ UNCHANGED <<broadcasts, returned, prompted, abandoned, qr, max, reloads>>

\* The recovery panel shows while the stage is busy and no hash is known.
RecoveryPanel(b) ==
  /\ page[b].stage \notin {"idle", "completed"}
  /\ page[b].recovery.intent # 0 /\ page[b].recovery.hash = 0
  /\ page[b].checking = "none"

\* recoverExternalTransactionHash with a hash found in the wallet's activity.
EnterHash(b, h) ==
  LET i == page[b].recovery.intent
      record == [intent |-> i, hash |-> h]
  IN /\ RecoveryPanel(b)
     /\ Bindable(i, h) /\ sends[i].status # "CANCELLED"
     /\ Bind(i, h)
     /\ storage' = record
     /\ page' = [page EXCEPT ![b].recovery = record, ![b].held = record,
                             ![b].checking = "reconcile",
                             ![b].stage = "verifying", ![b].verified = h]
     /\ UNCHANGED <<broadcasts, returned, prompted, abandoned, qr, max, reloads, sendFaults>>

\* cancelExternalIntent: the request...
AskCancel(b) ==
  LET i == page[b].recovery.intent
  IN /\ RecoveryPanel(b)
     /\ sends[i].status = "AWAITING_WALLET_SIGNATURE" /\ sends[i].hash = 0
     /\ sends' = [sends EXCEPT ![i].status = "CANCELLED"]
     /\ abandoned' = abandoned \union {i}
     /\ page' = [page EXCEPT ![b].checking = "cancelled"]
     /\ UNCHANGED <<storage, broadcasts, returned, prompted, qr, max, reloads, sendFaults>>

\* ...and its answer, which clears whatever record is there by then.
Cancelled(b) ==
  /\ page[b].checking = "cancelled"
  /\ storage' = NoRecovery
  /\ page' = [page EXCEPT ![b].recovery = NoRecovery, ![b].locked = FALSE,
                          ![b].stage = "idle", ![b].checking = "none"]
  /\ UNCHANGED <<sends, broadcasts, returned, prompted, abandoned, qr, max, reloads, sendFaults>>

\* reset(): "Start over" leaves the record in localStorage.
StartOver(b) ==
  /\ page[b].stage \in {"completed", "recoverable_error"}
  /\ page[b].recovery.hash = 0 /\ page[b].checking = "none"
  /\ abandoned' = abandoned \union ({page[b].recovery.intent} \ {0})
  /\ page' = [page EXCEPT ![b].stage = "idle", ![b].locked = FALSE,
                          ![b].recovery = NoRecovery, ![b].verified = 0, ![b].done = 0]
  /\ UNCHANGED <<storage, sends, broadcasts, returned, prompted, qr, max, reloads, sendFaults>>

MineSend(h, outcome) ==
  /\ broadcasts[h].outcome = "pending"
  /\ broadcasts' = [broadcasts EXCEPT ![h].outcome = outcome]
  /\ UNCHANGED <<page, storage, sends, returned, prompted, abandoned, qr, max, reloads, sendFaults>>

SendNext ==
  \/ \E b \in Pages :
       \/ \E what \in Reviewed : Submit(b, what)
       \/ GrantWallet(b) \/ OnWalletPrepared(b) \/ Broadcast(b) \/ WalletFails(b)
       \/ RecordHash(b) \/ BindHash(b) \/ VerifyAndComplete(b)
       \/ Reload(b) \/ Reconcile(b) \/ AskCancel(b) \/ Cancelled(b) \/ StartOver(b)
       \/ \E h \in DOMAIN broadcasts : EnterHash(b, h)
  \/ \E h \in DOMAIN broadcasts : \E outcome \in {"success", "reverted"} : MineSend(h, outcome)

MaxNext ==
  \E usdc \in BOOLEAN, balance, native \in 0..MaxBalance :
    \/ SelectMax(usdc, balance, native, [known |-> FALSE])
    \/ \E wei \in 0..MaxFee : SelectMax(usdc, balance, native, [known |-> TRUE, wei |-> wei])

ScanNext == \E p \in QrPayloads : ScanQr(p)

SendSpec == SendInit /\ [][SendNext \/ ScanNext \/ MaxNext]_sendVars

(* ------------------------------ properties ------------------------------ *)

\* The success dialog speaks of a transfer the chain carried out exactly as
\* reviewed, of an intent the backend completed with that very hash, also
\* when the user typed the hash in or the page was reloaded half way.
ShownIsTransferred ==
  \A b \in Pages : page[b].stage = "completed" /\ page[b].done # 0 =>
    LET s == sends[page[b].done]
    IN /\ s.status = "COMPLETED" /\ s.hash = page[b].verified
       /\ broadcasts[s.hash].outcome = "success"
       /\ broadcasts[s.hash].what = s.what

\* No transaction hash the wallet returned is lost to a reload or a failed
\* backend call: its intent has a transaction bound, or it is in the
\* recovery record, unless the user gave the intent up.
HashSurvives ==
  \A h \in returned :
    LET i == broadcasts[h].intent
    IN \/ sends[i].hash # 0
       \/ storage = [intent |-> i, hash |-> h]
       \/ i \in abandoned

\* On one page the wallet is never opened for a second transfer while an
\* earlier one is unresolved: completed, cancelled or started over first,
\* whatever failed or was reloaded in between (docs/wallet-modes.md: a
\* refresh must not open another payment request).
OnePromptUnresolved ==
  \A i, j \in prompted \ abandoned :
    i # j => sends[i].status = "COMPLETED" \/ sends[j].status = "COMPLETED"

\* The form shows what the QR code asked for, amount included, or an error:
\* going through the scanner, the query string and the page changes nothing.
ScannedIsShown ==
  qr.scanned /\ qr.form.ok =>
    /\ qr.form.recipient = qr.code.recipient
    /\ qr.form.amount = qr.code.amount
    /\ qr.code.action = "transfer" => qr.form.token = qr.code.token

\* What Max offers, submit accepts, and it leaves the estimated network fee
\* in USDC: rounding to base units never eats into the fee.
MaxIsSendable ==
  max.pressed /\ max.amount > 0 =>
    /\ HasArcGasForAmount(max.usdc, max.amount, max.balance, max.native, max.reserve)
    /\ max.fee.known =>
         (IF max.usdc THEN max.native - max.amount ELSE max.native) * WeiPerUnit >= max.fee.wei

\* The send page asks the wallet for one transfer at a time, for what it shows
\* and the account can afford, keeps its hash, and reports done what was
\* transferred.
OneTransferAsShown ==
    /\ ShownIsTransferred
    /\ HashSurvives
    /\ OnePromptUnresolved
    /\ ScannedIsShown
    /\ MaxIsSendable
=============================================================================
