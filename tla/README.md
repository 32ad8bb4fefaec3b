# TLA+ models of WizPay

WizPay moves USDC and EURC on the Arc chain for people, merchants and employers.  A NestJS backend
(`apps/backend`, PostgreSQL and Redis) never holds keys: a browser wallet, driven by the pages of
`apps/frontend`, broadcasts every payment.  The backend records what is to be paid, which
transaction is claimed to pay it, and whether the chain proves the claim.  The money itself goes
through contracts of `packages/contracts`.  The modules here are about that chain of custody: what
the page asks the wallet to sign, what the backend records, how requests interleave between two
awaited calls, and what the contracts and their release promise.

## 1. Inventory

| Component | State | Operations | Interacts with | What makes it correct |
|---|---|---|---|---|
| Execution intents (`execution-intent/`) | one row per logical operation: key, fingerprint, status, immutable request columns, unique transaction hash, lease | acquire, prepare wallet, bind, recover, cancel, verify | every payment flow; Arc RPC | one intent per payment, one wallet opening; evidence unique, never lost or hidden; completion proven |
| Receipt verifiers (direct, payroll, invoice) and payroll history | none; one history request | verify, list | Arc RPC, logs | exact match, mismatch and "not yet known" kept apart; history adds up |
| Payroll plan (`useWizPayState`, `batch-csv`, `agents/payroll`, `task.service`) | the sheet, the imported file, the plan | edit, import, group, split, reference, approve | payroll run | every row in one batch, distinct references as long as a double counts exactly, enough approved |
| Payroll tasks and units (`task/`) | Task row with counters, TaskUnit rows, `taskId` of the intents | init, report unit, reconcile | intents, verifier | a unit is paid only by its own proven batch; counters agree with units |
| Payroll run (`useBatchPayroll`, `useWizPayContract`) | React state, a lock per tab, localStorage | plan, approve, sign, bind, confirm, report | wallet, backend | each unit broadcast once; the run ends |
| Payroll page (`app/payroll`, the composer, the success modal) | two locks, task and hashes shown, step states, polls | send, show, poll, dismiss, reset | payroll run, backend | one run at a time; what is shown is confirmed; a retry is possible and does something |
| Payroll funding (`payrollCrossTokenQuote`, `submitBatch`, the payroll contract) | probes, quote, signed call | probe, check, sign, swap and pay | the pool | quote, page and contract agree to the last unit; everyone is paid |
| Invoices (`invoice/`) and their checkout page (`useInvoicePayment`) | Invoice and InvoicePayment rows; localStorage record | create, read, cancel, expire, verify; pay, recheck, recover | intents, verifier | paid exactly when proven; rows agree; a crash or a lost answer is recoverable |
| Merchant invoice pages (`app/invoices`) | filter, offset, items; the invoice shown; the form | list, page, cancel, create | invoice endpoints, wallet session | the list is the merchant's, no invoice is skipped, a final status shown is true, what is created is what was typed |
| Send page (`app/send/page.tsx`) | form, recovery record | review, prepare, broadcast, bind, verify, recover, cancel, scan QR, Max | intents, wallet | one unresolved prompt, the hash survives, what is shown is what was transferred |
| Bridge (`bridge/`) and its page (`BridgeScreen`) | BridgeTransaction row (status, JSON result, unique columns, lease), Task row; stored intent id | quote, create, report approval/source/destination, attest, authorize, submit, verify | Circle Iris, RPCs | evidence coherent and from Circle; completion needs the mint; the way back to a burn is kept |
| Swap (`user-swap/`, `SwapScreen`) | quorum cache, quote, stored swaps | quote, prepare, sign, confirm | two RPC endpoints, executor contract | signed terms are those of the block quoted; stored swaps paid their minimum |
| Orchestrator, BullMQ queue, transaction poller (`orchestrator/`, `queue/`) | Task status, TaskTransaction rows, jobs | enqueue, pick up, poll, finalise | agents, RPC | a task comes to an end; executed means mined |
| FX services (`fx/`) | breaker window, poll loop, wind-down state | route, poll, retry, withdraw | StableFX API | decisions follow the evidence |
| Wallet sessions (`modules/wallet`, `WalletAuthProvider`) | challenge, session and wallet rows; sessionStorage | challenge, verify, revoke, authenticate | all owner endpoints | one session per signature and owner; one owner per wallet |
| Activity (`activity/`, `useUnifiedActivity`) | Activity rows, sync state with a lease, the feed | sync, project, backfill, page | reads the rows above | each operation once, in exact pages, to its own session |
| Network configuration and capabilities (`packages/arc-network`, `capabilities/`, `routing/`, `config/`) | the environment, resolved capabilities | validate, resolve, decide | every service | what is enabled is usable |
| Settlement contracts (`packages/contracts/src`) | balances, references, pause, terms | deploy, pause, pay, batch, swap, recover | verifiers read their events | nothing kept, events account for balances, a reference is paid once |
| Name service contracts (`packages/contracts/src/ans`) | nodes, namespaces, tokens with expiry, approvals and operators | rent, renew, approve, transfer, administer | - | a name stays its holder's and of those the holder appointed, a namespace its owner's |
| Release scripts (`packages/contracts/scripts`) | plan, authorization record, manifest | plan, sign, preflight, verify | two RPC endpoints, git | what is verified was planned and mined |
| Page shell (toasts, install prompt, profile) | in-memory store, localStorage | show, dismiss, offer, save | browser events | what is shown follows the browser |
| Official swap, adapters, analytics, treasury, other pages | none | read, delegate | - | not modelled, see section 6 |

Hard behaviours: two browser tabs or a double click, reads that are stale when the dependent write
is issued, a restart between two transactions, a reload between the wallet and the report, a lease
that expires in the wallet dialog, an RPC node that does not know a receipt yet or whose head lags,
two claimed transactions for one payment, READ COMMITTED transactions that overlap, redelivered
jobs, answers that arrive after what they answer was replaced.  `PROJECT.json` lists each hazard at
its line with the properties aimed at it.

## 2. Modules

    PaymentLedger <--refined by-- IntentStore <--extended by-- ExecutionIntent
                                       ^
                                       |
                       PayrollSettlement = IntentStore + TaskUnits + handlers
                       InvoiceSettlement = IntentStore + invoice rows + handlers

    pages        SendFlow  InvoiceCheckout  MerchantInvoices  BridgeClient  SwapFlow
                 PayrollPlan  PayrollFunding  PayrollRun  PayrollScreen  PageShell
    backend      IntentIdentity  WalletSession  TaskQueue  TxPoller  FxSettlement  ActivityFeed
                 PayrollReceipt  ArcNetwork  BridgeLifecycle
    contracts    SettlementContracts  NameService  DeploymentRelease

    proofs       IntentStoreProofs  ExecutionIntentProofs  PayrollSettlementProofs (and TaskUnits)
                 InvoiceSettlementProofs (and MerchantInvoices)
                 BridgeLifecycleProofs   (and BridgeClient)
                 IdentityProofs     (IntentIdentity, WalletSession, SendFlow)
                 PaymentPageProofs  (PayrollScreen, PayrollRun, InvoiceCheckout, SwapFlow, ActivityFeed)
                 ServiceProofs      (TxPoller, NameService, DeploymentRelease, SettlementContracts,
                                     PayrollFunding, PageShell)

**The unit of atomicity** is the awaited call: one SQL statement, one `$transaction` at
SERIALIZABLE or whose statements conflict on one row, one RPC exchange, one wallet dialog.  A
handler runs in a slot `p` of `Handlers` (a page in a tab); its program counter names the next
await and its locals what it has read.  Every slot may run between two awaits of another.  A crash
or reload ends it at any await: a restart, a lost connection, a closed page.  A thrown exception
ends the request and changes nothing.  A contract call is one step.

*The payment records.*

- `PaymentLedger`: the abstract specification.  An operation is opened for a transfer, gets at most
  one transaction as evidence, shares it with no other operation, and settles only on a successful
  receipt of exactly its transfer.
- `IntentStore`: the ExecutionIntent table.  One operator per `UPDATE ... WHERE` of
  `execution-intent.service.ts`, with the WHERE clause as its guard (`LeaseWrite`, `PrepareWrite`,
  `AdvanceWrite`, `BindWrite`, `CancelWrite`, `CompleteWrite`, `FailWrite`).  `StoreSpec` lets any
  of them run when its guard holds, and is shown to implement `PaymentLedger` under
  `settled <- {k : status[k] = "COMPLETED"}`.  `walletGrants` is a history variable: it counts the
  prepare-wallet requests that were granted.
- `ExecutionIntent`: the handlers of `/execution-intents`.  Each step is a read, a statement of the
  store, or the receipt check; `ImplementsStore` says there is nothing else.  A bind that loses its
  compare-and-set calls itself again, as the code does; `beginVerification` is a ladder of
  transitions, each chosen from what the previous one returned.  Only `SendKeys` (operation SEND)
  can be completed by `/verify`.
- `IntentIdentity`: what IntentStore takes for granted, one intent per logical key.  Requests are
  made canonical, looked up by key, compared by fingerprint; the serializable transaction that
  finds or creates the row may lose against another and is retried.  Beside it, in steps of their
  own, the two calls that bind a row's columns once (`bindImmutableExecutionContext`,
  `bindCircleCorrelation`): read, compare, update where it is still as read, read again.  So far
  only tests call these two.
- `TaskUnits`: Task and TaskUnit rows and the transaction of `TaskUnitService.reportUnit`, statement
  by statement at READ COMMITTED: an update waits for the row lock, reads see committed data, the
  writes appear at commit.
- `PayrollSettlement`: `createPayrollTask`, `reportTaskUnit` and `reconcilePayrollIntents` with its
  catch block.  Requests to `/execution-intents` on payroll intents appear as the store statements
  they issue.
- `PayrollReceipt`: the verifier of the payroll contract's receipts log by log, against the calls
  the page builds and the events the contract emits, with a node that may answer untruthfully; the
  testnet branch of the same verifier, which matches the decoded batch call, its batch event and
  its payment events; and the payroll history built from the same logs.
- `InvoiceSettlement`: the invoice service.  `verifyPublicPayment` await by await: the snapshot of
  the invoice, the intent, expiry, the reuse check, the lock transaction, the receipt, completion,
  settlement, and the retry and reject paths.
- `BridgeLifecycle`: all of `/bridge/intents`.  Each handler reads the row once and later overwrites
  it by id with a result document derived from that snapshot; the unique columns are the only guard
  the database adds.  Whether an intent's destination chain has a configured RPC (`readable`) is
  chosen initially.

*The pages.*

- `SendFlow`: `submit` of the send page await by await, its recovery record in localStorage,
  `Reload`, `EnterHash`, `AskCancel`, `StartOver`; the Max button's gas reserve and the QR code's
  amount are disjuncts of their own (`MaxNext`, `ScanNext`).
- `InvoiceCheckout`: `useInvoicePayment` with several tabs and payers: acquire, prepare, broadcast,
  bind, record, the bounded automatic checks, cancellation, a hash typed in.
- `BridgeClient`: `BridgeScreen.start` from quote to mint, quotes raced by edits, the stored intent,
  and the quote service's fee arithmetic with the fee check of `createIntent`.
- `SwapFlow`: debounced quotes numbered by sequence, the cached two-endpoint quorum, prepare, the
  executor over a moving rate, confirm.
- `PayrollPlan`: cells as the three parsers see them, row edits and import, validation, groups,
  chunks, references (the suffix is counted up in doubles of `Mantissa` bits), approvals.
  `PayrollRun`: `useBatchPayroll.execute` over the plan's units.
- `PayrollFunding`: the service's probes for the gross input of a cross-token payroll, the page's
  checks and the call it signs, and the contract's fee, price floor, deadline and surplus.  The
  three programs do the same integer arithmetic; the pool and the clock move between their steps.
- `PayrollScreen`: what the page makes of a run that goes through one task per token group: the
  composer's action guard and the execution lock (which a reset releases under a run), step states,
  refreshes and polls whose answers come late, the success modal.  What a run does to wallet,
  storage and intents is in `PayrollRun`; a remount, which gives fresh locks while the old run goes
  on, is `PayrollRun`'s second tab.  The session totals on the modal are left out.
- `MerchantInvoices`: the list, detail and form pages over the merchant endpoints.  Requests are
  neither aborted nor numbered, so a page shows whichever answer comes last.
- `PageShell`: the toast store with its removal timers, the deferred install event, the profile
  preferences followed through storage events.

*The services.*

- `WalletSession`: challenge, signature, the verification transaction with its consumption of the
  challenge and its revocation of older sessions; the tab's effect, account switches and
  sessionStorage.
- `TaskQueue`: `handleTask`, BullMQ's attempts and stalled jobs, `executeTask` and
  `updateStatus` as read and write.  No agent accepts a task on Arc Mainnet, so every task ends
  failed; the question is whether it ends.
- `TxPoller`: `poll` await by await in several workers, re-enqueueing under job ids, giving up, and
  `checkAndFinalizeTask`.  The first poll of a transaction is enqueued by an external caller.
- `FxSettlement`: the circuit breaker's window, the poll loop with timeout, retries and output
  validation, and the wind-down with `WithdrawalCalls` in flight at a time, for different depositors
  or for the same: the entry is marked after the transfer.  The services have no caller in the
  repository; the callers are external.
- `ActivityFeed`: four small machines: the sync with lease and throttle over replicas, cursor
  paging while rows are added, the feed hook over session changes, and the block scan.
- `ArcNetwork`: the environment is chosen; a process starts or is refused, resolves capabilities and
  answers requests.

*On chain.*

- `SettlementContracts`: one ledger for the three contracts; an employer's calls, the router's
  arbitrary behaviour, stray transfers, pausing, terms.
- `NameService`: registry, root registry, registrars, controllers, resolver and vaults over a clock.
  A name is an ERC-721 token: its holder, the operators the holder appointed in that registrar and
  the account approved for it may transfer and reclaim it while it is live.  A transfer and the
  burn of a new registration clear the approval; operators stay.
- `DeploymentRelease`: plan, signature, preflight and verification over a repository and a chain
  that go on meanwhile, with one honest endpoint of two.  Beside it the record about the swap pool:
  the block is pinned, both endpoints are scanned range by range, the one that is not honest leaves
  events out and makes others up, the record is written down, perhaps edited by hand, and
  `validateMainnetUniswapV4PoolEvidence` accepts or refuses it.  The validator is offline: it checks
  the record against itself.  What gets through is part of the model and of no claim: a pool that an
  endpoint invented, and every edit that is consistent with the rest of the file (`Edits`: a key
  with its ids, a candidate more or less, the pinned hash with all its observations, the ends and
  counts of the scan with its conclusion).  `PoolEvidenceHolds` says what is left: a record that
  validates is a candidate only, its keys and ids agree, and one that was not edited is of the
  honest endpoint's chain and complete where it says so.

The `MC*` modules hold model values, input functions (`Pays`, `Due`, `Terms`, `Receives`,
`MCRequests`...), symmetry sets and the focus of a behaviour (section 3).

**Abstractions.**  A transfer (payer, recipients, token, amount) is a value of `Payloads`; a hash
stands for its transaction, and `Pays[h]` is the transfer it makes, fixed for ever.  Where decoding
matters it has a module (`PayrollReceipt`); elsewhere comparing logs or calldata is the test
`Pays[h] = d`.  A CCTP message, its hash and its nonce are named by the burn they attest.  A digest
or fingerprint is the value it is taken of.  Amounts are small numbers and scales are scaled down
with them (`BpsScale`, `FeeScale`, `Decimal`); rounding is done as in the code.  Time is a bounded
clock or a flag that may turn at any moment (`leaseLive`, `overdue`).  The chain changes a hash from
`unseen` to `success` or `reverted` once; confirmations and node lag are choices of the receipt
step.  Definitions introduced by "variant" are deliberately wrong versions of the definition that
follows, for measuring what the properties detect; no specification uses them.

## 3. Runs

A run may host several components that do not interact.  Its MC module then has a variable `focus`,
chosen initially and never changed: a behaviour is one of a single component, the others stay at
one of their initial states.  This is the disjoint union of the components' behaviours, so each is
checked in full and their state spaces are added, not multiplied.

A property that names a module's safety as a whole is the conjunction of the named parts in front of
it, each with its own comment.

| Run | Instance | Shows |
|---|---|---|
| `intent_races` | 1 intent, 2 tabs, 2 requests at a time, a right and a wrong transaction, 2 payloads; 2 acquire calls over 11 requests; 2 overlapping binds over 2 intents; 2 tabs and 2 wallets logging in, 3 sets of existing wallet rows; the send page with 2 transfers, 2 reloads, 1 failing call | `CompletedIsProven`, `EvidenceIsVisible`, `OneWalletOpening`, `EvidenceMovesForward`; the handlers implement the store and the ledger; `OneIntentPerPayment`; `SessionsFollowWallets`; `OneTransferAsShown` |
| `intent_liveness` | 1 intent, 2 slots, 2 hashes | `RequestsReturn`: every request is answered, in spite of the retry in `bindTransactionHash` |
| `payroll` | 2 batches; either 2 requests at once about one batch with a right and a wrong transaction, or 1 at a time about both with crosswise transactions | `OutcomesFollowChain`, `EvidenceIsUnique`; `SerialTaskMatchesUnits` while requests do not overlap |
| `invoice_races` | 1 invoice, 2 slots, transactions of a payer and of the merchant; 1 swap with 2 quotes; 3 edits of a sheet, a mantissa of 3 bits and a run R-8 beyond it; 2 tabs running a payroll of several units; 6 debts against 3 deep pools and one that runs dry; 3 invoices of 2 merchants in pages of one, 2 or 3 requests of a page | `InvoiceRowsAgree`, `InvoiceMovesForward`; `SwapAsQuoted`; `PlanCoversSheet`; `UnitsArePaidOnce`; `PayrollIsFunded`; `MerchantPagesAgree` |
| `bridge` | 1 intent with 2 requests at once, or 2 intents and 2 matching burns with 1 at a time; the bridge page with 2 intents, 2 edits, 1 reload, 1 fee change | `ResultIsCoherent`, `EvidenceIsKept`, `SerialOneIntentPerMessage`; `BurnsAreQuotedAndStored` |
| `platform` | 2 units and 2 concurrent reports; each contract with 2 receipts and a stray transfer; 2 namespaces, 1 label, 4 calls over 4 ticks, and 5 of them about the tokens of one namespace; 2 source versions and 2 disturbances of a release, 2 pools over 2 block ranges and 1 edit of their record; all environments; every batch of the instance with one untruthful answer; toasts, install events, 2 profile tabs | `ReportsAreCounted`, `MoneyIsAccounted`, `NamesStayTheirs`, `ReleaseIsAsPlanned`, `CapabilitiesAreUsable`, `ReceiptsAreExact`, `PageFollowsBrowser` |
| `services` | 1 task, 2 executors, 3 attempts, 2 faults; 2 transactions, 2 workers, 1 retry, 1 fault; 6 outcomes in a window of 3; 2 depositors, 2 withdrawals in flight, 1 failing transfer; 2 replicas; 4 rows in pages of 2; 2 sessions; 6 blocks | `TasksFinish`, `ExecutedIsMined`, `FxFollowsEvidence`, `FeedIsFaithful`, `ProviderAndFeedSettle` |
| `payment_liveness` | 1 invoice; 2 checkout tabs of one or two payers with 2 automatic checks and 1 fault; 1 tab running a payroll with 3 clicks and 2 faults; the payroll page with 2 token groups, 2 payrolls one after the other, 2 presses of Send, a late poll, a failing call | `PaymentsSettle`, `OneCheckoutPrompt`, `RunEnds`, `ScreenIsTruthful` |
| `units_double_count` | 2 units, 2 reports | **violated** `ExecutedIsPaid`: two overlapping reports of one unit are both counted, the task is `executed` with a unit pending |
| `payroll_lagging_head` | 1 batch, 1 slot | **violated** `FinalFailureIsMismatch`: a node behind the receipt's block makes an exact payment FAILED_FINAL |
| `payroll_reconcile_race` | 1 batch, 2 slots | **violated** `ReconcileAgrees`: the reconcile that loses a compare-and-set reports the unit failed for good |
| `payroll_resume` | 1 tab, 2 clicks, 1 fault | **violated** `RetryResumes`: a run resumed after a reload asks for the whole group's approval under an intent already used, and is turned away |

**Why the bounds are enough.**  Rows of different intents interact only through the unique indexes,
which need two rows (`payroll`, `bridge`; the theorems cover any number).  A race needs two requests
on one row; a third adds nothing a crash and a second request do not (of unit reports,
`ReportsAreCounted` is proved for any number at once).  Two
transactions give the right and the wrong evidence.  For the pages one fault or reload suffices to
reach every recovery path, and two clicks, tabs or quotes give every overlap of an old answer with a
new request; `payment_liveness` allows one more fault and click than a single recovery uses.
Windows, pages and chunks are small enough to fill and roll over (6 outcomes in a window of 3, 4
rows in pages of 2, 6 blocks one by one).  Two token groups are enough for a run to be between
groups when the page is reset; `ScreenIsTruthful` was also explored with two batches a group.  Debts
run from the dust that buys nothing to amounts that need a second probe.  Amounts are chosen so that
rounding happens: fees that do not divide, a QR amount with a fraction, a price that is not a
multiple of the year.  The clocks
pass each deadline at least once (`MaxTime` exceeds duration plus grace).  An approval that
outlives its holder shows after five calls (open, register, approve, transfer, transfer).  Every
bound is a guard named in its module's CONSTANTS.  Three MC modules restrict the next-state relation
further, and say so: `MCPayroll` and `MCBridgeLifecycle` keep to the rows and hashes of the focus,
and in `MCPlatform` a pool's collection stops at its first record, and the last of the five calls
and the token approvals belong to behaviours of their own, about the tokens of one namespace.  Symmetry is over
interchangeable slots, tabs, bridge intents and approvals, and never in a liveness run.

**Deadlock** is checked where the system never stops (`payroll`, `intent_liveness`).  The other
passing runs contain components that end: a finished release, a started process that has answered,
a page whose bounds (presses, requests, edits) are used up.

**Serial and overlapping instances.**  Some statements are true of the code only while requests to
the same rows do not overlap.  They are checked for one request at a time, restarts included, and
their name says so: `SerialTaskMatchesUnits` and `SerialOneIntentPerMessage`.

**Fairness.**  Weak fairness of a handler's next step throughout: Node's event loop runs every
pending continuation, and a worker takes the next job.  It is conditional on the focus, so that it
demands nothing of a component that does not run.  In particular:

- `RequestsReturn`: every step of a request in a slot.
- `PaymentsSettle`, in the backend (`CompletedIsPaid`): besides, the backend does not crash for ever,
  the payer's page verifies its recorded hash again (it does so on load and on a timer, `useInvoicePayment.ts`; strong fairness,
  since the slot may be busy in between), and an RPC which can confirm the receipt does not fail
  every time (strong fairness of the confirming outcome).
- `PaymentsSettle`, on the page (`KnownPaymentSettles`): the page's timer and requests run; failing
  calls are counted against the automatic checks left, no fairness makes them succeed.
- `RunEnds`: the tab's continuations run and the chain mines; the wallet answers, since a prompt
  nobody answers keeps the run waiting.
- `TasksFinish` (`TaskEndsOnce` and `RunFinalises`): the queue delivers and workers run.  Both are
  stated for behaviours without faults, the first because marking a task failed is itself a call that may fail,
  the second also only when the 2 s delay outlasts the enqueuer's next write and a transfer is
  pending when submissions complete: the code finalises nothing otherwise.
- `ProviderAndFeedSettle`: the poll loop turns, a sync that started goes on, the backend answers the
  page.  Nothing is assumed of the provider or of a session.

**Disagreements found.**  The four violated properties are findings in `PROJECT.json`, each with
the line of the repository that says otherwise.  Others are recorded here only: most contradict
no text of the repository, and those that do are plain from one function.

- a task may stay `in_progress` after overlapping success reports of its last two units, because the
  status is computed from the counters read before the other commit;
- the slower of two concurrent verifications of the right invoice hash is answered with a conflict,
  although the stored state is right and the page's next check succeeds;
- a completed bridge row can leave `completed`, since no bridge UPDATE names a status, and two
  overlapping creates with one idempotency key make two rows;
- a cancelled checkout keeps the invoice's logical key, so the invoice cannot be paid through the
  checkout any more (`useInvoicePayment.ts:355`);
- a late `pending` write of a poll may follow the next poll's terminal status and leave the task
  unfinalised (`transaction-poller.service.ts:116`);
- the invoice list keeps an error set by an older request that failed late over the newer list, and
  a late answer for another filter or wallet is shown until the next load; `ListIsOfView` is about
  pages whose requests were answered in order (`app/invoices/page.tsx:53`);
- the `min` of the expiry input is a UTC time read as local time, so a browser west of UTC refuses
  the next hours and one east of it offers past ones, which the backend refuses
  (`app/invoices/new/page.tsx:39`);
- the first probe of a funding quote is the debt itself, so with a price above one the payroll is
  over-funded and the surplus comes back (`mainnet-uniswap-v4.service.ts:398`);
- a poll answered after a reset or a new run redisplays the old task, modal included
  (`useBatchPayroll.ts:400`): what it shows is true, of a payroll that is no longer on the page;
- a payroll has one task per token group, and the success modal follows the task shown last
  (`app/payroll/page.tsx:60`): when setting up the second group throws, the modal stays open over
  the first group's task although the others were not paid; `SuccessIsTrue` is about that task;
- `submitBatch` returns early, for an expired quote, a short balance or a refused approval, without
  resetting the step state it set (`useWizPayContract.ts:711`), so Send and Reset stay disabled
  until a reload although the message asks for a retry;
- a batch that failed is reported once and for all (`task-unit.service.ts:54`) and
  `resumablePayrollUnit` takes pending units only, so the retry that `useBatchPayroll.ts:685` asks
  for resumes nothing and ends silently;
- `executeWithdrawal` checks `entry.withdrawn` before it awaits the transfer and sets it after
  (`lp-wind-down.service.ts:226`): two overlapping calls for one depositor pay twice, the supply is
  clamped at zero, and the contract may be deprecated with another depositor unpaid.
  `DeprecationIsSafe` says that there is no other way; the spec's test "throws if
  depositor already withdrawn" makes its calls one after the other;
- from a suffix of 2^53 on two batches of a run get one reference, since `parseInt` and the sum are
  doubles (`task.service.ts:997`): batch 1 of R-9007199254740992 is called like batch 0.
  `ReferencesDistinct` is about suffixes that stay below;
- `writeProfilePreferences` fills a partial update with defaults before it merges
  (`storage.ts:113`), so saving one field resets the others.

## 4. Proofs

Eight modules hold the theorems.  They are about every value of the constants: any number of keys,
transactions, slots, tabs, units, intents.  The only assumptions are the named `ASSUME`s of the
modules, which say that the constants have their types, that a NULL is not a value
(`NullAssumption`, `BridgeAssumption`...) and that each hash makes one transfer (`PaysAssumption`).

The backend's proofs share one difficulty: a handler acts at each await on what it read at an
earlier one, so an invariant of the rows alone is never inductive.  Each inductive invariant
therefore has, besides the rows' part, a `HandlerOK(p)`: what a suspended request may still rely on.
It survives the steps of the others because evidence only moves forward, and it justifies the
request's own next statement.

- *The store* (`IntentStoreProofs`).  `StoreInv` joins the types, `CompletedIsProven`,
  `EvidenceIsUnique`, `EvidenceIsVisible` and `OneWalletOpening` with what makes them inductive: a
  row has a payload exactly when it was acquired and an absent one has no hash (`RowsHavePayloads`),
  a final failure has its hash (`FailedHasEvidence`), and a row in a status that prepare-wallet
  accepts was never granted the wallet (`GrantedIsPast`).  One step per statement; then each
  statement is one ledger event or invisible to the ledger.
- *The intent handlers* (`ExecutionIntentProofs`).  `HandlerOK` says that from `verifyReceipt` on the
  recorded hash is still the row's, and after the receipt check it still matches the payload.
  `HandlersImplementStore` then reduces every other theorem to the store.
- *reportUnit* (`PayrollSettlementProofs`, about `TaskUnits`).  `NoReportIsLost`, for any overlap of READ COMMITTED transactions:
  the number of units that show an outcome is at most its counter.  That the counters are exact,
  and that an executed task is paid, is false of overlapping reports of one unit (the run
  `units_double_count`).  It is proved for the behaviours of `DistinctSpec`, where no unit is inside
  two transactions at once while different units overlap freely; that the task's status matches its
  units is proved for `SerialSpec`, one transaction at a time.  The strengthening is `OpenReports`
  and `SnapshotCurrent`: past its check a transaction's unit is still pending, and what it has read
  of the counters is behind them, respectively current.
- *Payroll* (`PayrollSettlementProofs`).  `IndInv` adds to `StoreInv` that intents exist before the
  task and ask for what their batch is due (`RowsDue`), that a unit shown as paid has a completed
  intent, and `HandlerOK` for every await of init, report and reconcile, among them that a copy
  saying VERIFYING is met only where no UPDATE of `beginVerification` is left.  The handlers
  implement the store, hence the ledger.  `ExecutedPayrollIsPaid` and `SerialPayrollMatches` have
  the hypotheses of the previous item and no other: requests, restarts and other statements overlap.
- *Invoices* (`InvoiceSettlementProofs`).  `HandlerOK` for `verifyPublicPayment`: once bound, the hash
  is the intent's; once the lock transaction is past, it is also the payment row's; at `settle` the
  intent is completed.  With `PaymentHasHash` (a payment row names a transaction) this makes
  `InvoiceRowsAgree` inductive; `InvoiceForward` and the implementation of the ledger follow.
- *Merchant pages* (`InvoiceSettlementProofs`).  `ListCallOK` follows a list request through its two
  queries, `findMany` and `count`, between which rows appear: rows are only added, at the front of
  the list, so the number of newer rows of an invoice only grows (`NewerGrows`) and what a page
  leaves unseen stays beyond it (`BeyondStays`); with `WalkOK` a walk through all invoices with Next
  repeats some but skips none.  `DetailInv`: a final status in an answer under way is the row's, for good.
  `FormInv`: every row a form created has the form's merchant and expiry, and exactly its amount,
  because a text with no more digits than the token has decimals is not rounded
  (`CanonicalIsExact`).
- *Bridge* (`BridgeLifecycleProofs`).  Handlers replace the whole result document from a snapshot
  that may be stale.  `HandlerOK` says the snapshot was coherent and stays so, and that what Circle
  or the destination chain showed is final: so the document is coherent whichever write comes last
  (`BridgeResultIsCoherent`), though a stale write may lose fields.  `BridgeEvidenceIsKept` says
  that nothing else does.  `ApartOneIntentPerMessage`, one intent per attested burn, needs `Apart`
  (no two requests on one intent at once): with it the snapshot is the row (`SeenCurrent`) and the
  unique nonce column backs every attestation (`NonceBacks`).
- *Bridge page* (`BridgeLifecycleProofs`).  `RunFollowsQuote`: what `start()` closed over is one
  quote's, and the row it created has the same, whatever the form shows by now.  `AnswerSuffices`
  is the fee arithmetic: two roundings up never fall below the exact fee.  A new intent overwrites
  the stored id, so `StoredFollowsRun` says that at that await the old one is absent, done or
  listed as given up; it holds because the form is free only when idle, with no intent shown, or
  completed.
- *Identity* (`IdentityProofs`).  `SessionsBelong`: `SessionLinks` says that a session refers to a
  consumed challenge of its wallet and to the wallet's recorded owner, which is why a second
  verification of a challenge opens nothing.  `IntentsFollowPayments`: the key of a row is unique,
  and an answered call was answered with a row of exactly the payment it asked for.
- *Send page* (`IdentityProofs`).  `SendInv` needs no bound on tabs: an intent is granted the wallet
  by the page that acquired it (`OwnIntents`), hashes and completions are never taken back
  (`SendsGrow`), and a recovery record names an intent that was opened; so what a page shows as
  done is a completed intent (`SendShowsTheTruth`).  That a code and Max are shown truthfully is
  arithmetic: `\div` and `%` give back the amount, and rounding up covers the fee (`CeilCovers`).
  `OneSendAtATime` also proves that no hash is lost and that prompts do not overlap, for one tab
  (`OneTab`), which is what those two parts claim: the recovery record is one localStorage key, and
  a second tab overwrites it.  `TabInv` ties the two copies of the record together: the page's copy
  is the stored one, a record with a hash belongs to an intent that is bound or abandoned
  unless the form is locked on it, and an opened wallet is accounted for or still the page's own.
- *Payroll page* (`PaymentPageProofs`).  The modal's dismissal releases the execution lock under a
  live run, so that lock proves nothing.  `GuardInv` says the composer's guard is held while any
  run is live; `AnswersInv` that every answer shown or on its way has only successes the backend
  still has, since a reported success is final; `UnitsInv` that the unit a run is at is still
  pending, and paid before it is reported as such.  `ScreenInv` was model-checked before it was
  proved.
- *Checkout page* (`PaymentPageProofs`).  The invoice's intent is granted once: before the grant
  nobody has been prompted, and at most one tab stands between the grant and its prompt
  (`GrantInv`); an opened wallet broadcasts once (`WalletInv`).
- *Payroll run* (`PaymentPageProofs`).  The same argument for every unit's intent, plus what a run
  carries over its awaits: the hash it is about to bind, record or report is a transaction of the
  unit it is at, and of no other (`ExecuteOK`, `PaidOnce`); a run of a second tab or after a reload
  starts from a storage that says the same (`StorageOK`).  That the funding of a group is a number
  at all is a statement about a fold over a set.  The library's induction theorems take an operator
  as parameter, which the provers cannot instantiate; `FoldsExist` uses the well-foundedness of
  `<` instead: a smallest set for which the fold went wrong would, less one element, be a smaller
  one (`LeastNatural`).
- *Swap* (`PaymentPageProofs`).  `SwapInv` follows a quote through its four places: the request on
  its way, the cache, the screen, the plan being signed.  Each knows the block it was read at and
  what that block's rate gives, and a block's rate never changes once the head has moved past it
  (`PastStays`); the sequence number is not needed for that, so late answers are covered.
- *Activity feed* (`PaymentPageProofs`).  `LeaseInv`: a flight whose lease has not expired is the
  holder of the state row, since a claim compares with a clock read earlier, never later.
  `RowsInv`: a row is rewritten whole from a snapshot, and the key of a record with a known run does
  not depend on the snapshot (`FixedKey`).  `PageInv` is the argument for the cursor: what was read
  is not after it, what is left is; that a page has a last row is a fact about finite sets, proved
  by ranks (`PageHasLast`).  `ScanInv`: the ranges follow one another.
- *Poller* (`ServiceProofs`).  A job that has seen every row terminal and the submissions complete
  knows that no row will be added and no verdict changed, so its answer is right however late it
  writes (`JobOK`).
- *Names* (`ServiceProofs`).  The action property needs little history: a name that is held has an
  expiry, which is what the registrar looks at, and an approval was given since the token last
  changed hands, because every transfer and mint clears it (`NameInv`).  The rest is which caller reaches which
  node, because names, namespaces and accounts are distinct (`NodesDiffer`, `AccountsDiffer`).
- *Release* (`ServiceProofs`).  `RelInv`: past its receipt step a verification knows that the
  creation code of the plan it checks was mined, which no reorganisation takes back.  `PoolInv`:
  every range counted as read on the honest endpoint has contributed all its pools; a record that
  was not edited inherits that (`BodyOK`), and validation adds the rest (`AcceptedOK`).  Of an edited
  record only what validation checks is claimed.
- *Settlement contracts* (`ServiceProofs`).  `ReplayInv`: a receipt's reference hash is among the
  consumed ones of its contract, and the receipts of one hash are one.  `EveryUnitIsExplained` is
  the balance of the books.  A call is a chain of transfers among the payer, the contract, the fee
  recipient, the recipients and the pool, some of them one per payment; the lemmas `*Settles` show
  that the chain of each entry point moves every balance by exactly what its receipt says
  (`Settles`), for any batch, fee, slippage, pool or router, and leaves the contract with what it
  had.  `MoneyInv` adds up the receipts and the money sent without a call (`SettledKeeps`,
  `DonationKeeps`, `WithdrawalKeeps`).  Two things needed care.  A sum is a recursive function:
  that it exists, and what it gives for a longer batch, is proved from the least number at which it
  would fail (`SumIs`, `SumAppend`, `SumPrepend`), since the library's induction cannot be used;
  the sum over a set is that of an enumeration of it (`SumOverBumps`).  And one account may play
  several parts in a call (an employer or a recipient who is the fee recipient), so balances are
  compared part by part (`PayMoves`).  The theorem assumes finitely many employers, and that the
  contracts and the pool are not among the employers and the staff (`SettlementAssumption`): they
  have no entry point that would call another payment contract.
- *Payroll funding* (`ServiceProofs`).  Three programs divide by the same numbers.  The lemmas are
  about `\div`: the contract's fee is the service's (`FeesAgree`), slippage never raises a minimum
  (`LeastIsLess`), and a swap that pays what was quoted meets the price floor computed from the
  quote, although that floor is rounded (`FloorIsMet`).  `MineKeeps` then goes through the
  contract's checks in order and leaves only the two that the pool or the clock can fail.
- *Page shell* (`ServiceProofs`).  An offered install event is the newest one fired, and only fired
  events were answered (`InstallInv`); a tab without storage events shows what is stored
  (`ProfileInv`), because the write and the events of the other tabs are one step.

Listed theorems, with the property of a run that each one states where there is one:

| Module | Theorems |
|---|---|
| `IntentStoreProofs` | `StoreInvariant`; `EvidenceForward` (`EvidenceMovesForward`); `StoreImplementsLedger` (`ImplementsLedger`) |
| `ExecutionIntentProofs` | `TypeCorrect`; `HandlersImplementStore` (`ImplementsStore`); `CompletedProven`; `EvidenceUnique`; `EvidenceVisible`; `WalletOpensOnce`; `HandlersMoveForward`; `HandlersImplementLedger` |
| `PayrollSettlementProofs` | `NoReportIsLost` (`ReportsAreCounted`); `DistinctReportsArePaid`; `SerialTaskMatches`; `PayrollInvariant`; `OutcomesFollow` (`OutcomesFollowChain`); `PayrollReportsCounted`; `PayrollImplementsStore`; `PayrollImplementsLedger`; `PayrollEvidenceUnique`; `ExecutedPayrollIsPaid`; `SerialPayrollMatches` |
| `InvoiceSettlementProofs` | `SettlementInvariant`; `SettlementImplementsStore`; `SettlementImplementsLedger`; `RowsAgree` (`InvoiceRowsAgree`); `InvoiceForward` (`InvoiceMovesForward`); `SettlementEvidenceForward`; `MerchantSeesTheTable` (`MerchantPagesAgree`) |
| `BridgeLifecycleProofs` | `BridgeInvariant`; `BridgeResultIsCoherent` (`ResultIsCoherent`); `BridgeEvidenceIsKept` (`EvidenceIsKept`); `ApartOneIntentPerMessage`; `BurnsFollowQuotes` (`BurnsAreQuotedAndStored`) |
| `IdentityProofs` | `SessionsBelong` (`SessionsFollowWallets`); `IntentsFollowPayments` (`OneIntentPerPayment`); `SendShowsTheTruth`; `OneSendAtATime` (`OneTransferAsShown`) |
| `PaymentPageProofs` | `PayrollPageIsTruthful` (`ScreenIsTruthful`); `InvoiceIsAskedOnce` (`OneCheckoutPrompt`); `PayrollUnitsArePaidOnce` (`UnitsArePaidOnce`); `SwapIsAsQuoted` (`SwapAsQuoted`); `FeedFollowsRecords` (`FeedIsFaithful`) |
| `ServiceProofs` | `ExecutedTaskIsMined` (`ExecutedIsMined`); `HeldNamesStay` (`NamesStayTheirs`); `ReleaseFollowsPlan` (`ReleaseIsAsPlanned`); `EveryUnitIsExplained` (`MoneyIsAccounted`); `ReferencesPayOnce` (its parts `ReferencePaysOnce` and `ActivatedByOwner`); `FundedPayrollsPay` (`FundingCoversDebt`, `FundedCallHolds` and `PaidInFull` of `PayrollIsFunded`); `ShellFollowsBrowser` (`PageFollowsBrowser`) |

`SerialTaskMatchesUnits` and `SerialOneIntentPerMessage` of the runs restrict a state predicate to
one request at a time; the theorems `SerialPayrollMatches` and `ApartOneIntentPerMessage` restrict
the behaviours instead, which is the form an invariant can be proved in, and allow more.

Only model-checked:

- every liveness property (`RequestsReturn`, `PaymentsSettle`, `RunEnds`, `TasksFinish`,
  `ProviderAndFeedSettle`): fairness and ENABLED are outside this prover's reach;
- what recursive definitions and folds compute over data: the parsers, chunks and sums of
  `PayrollPlan`, `PayrollReceipt` and `FxSettlement`, the probe search
  (`DeepPoolIsFunded`, a part of `PayrollIsFunded`);
- the safety of `ArcNetwork`: not proved.

## 5. Plan

The plan of the modules, runs and theorems is carried out.  Next would be the receipt verifier and
the FX ledger (`ReceiptsAreExact`, `FxFollowsEvidence`): their sums are those of
`SettlementContracts`, for which `ServiceProofs` has the lemmas, and the parsers before them are
what stays with TLC.

## 6. Not modelled

- The creation of swap and liquidity tasks, `FxBatchService`, the adapters' send methods and the Solana adapter: nothing outside tests calls
  them.
- The branch of the payroll verifier for the legacy router, which no configured contract reaches,
  and the refresh of the displayed payload at the end of a reconcile.
- The official swap, analytics and treasury: stateless delegation and read-only aggregation.
- Rate limits, labels, wording, layout and display components; the byte-level
  encoding of Uniswap calls, CCTP messages and file formats.
- Generated ABIs and the database migration rehearsal.
- A reorganisation below a confirmed payment: the verifiers treat a confirmed receipt as final, and
  so do the models.  (`DeploymentRelease` has reorganisations, because its verifier looks for them.)
