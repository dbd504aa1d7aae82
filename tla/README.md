# Verification of micro-one-api

TLA+ models, TLC runs and TLAPS proofs for the gateway in this repository. The
sections below give the inventory of the system, the modules and how they
correspond to the code, what each run and each theorem shows, and the plan for
what is still to be modelled. Paths are relative to `src/`.

## The system

micro-one-api is an AI gateway made of Go services that talk gRPC and share
databases and Redis:

| component | state it keeps | operations | how it interacts |
|---|---|---|---|
| **billing-service: wallet, reservations, ledger** `app/billing/internal/biz/billing.go`, `data/*_repo.go` | `users` wallet columns, `billing_reservations`, ledger rows with a global dedupe key, `account_receivables` | ReserveQuota, CommitQuota, ReleaseQuota, expiry, TopUpQuota, PurchaseSubscription, ResetBalance | called by the relay for every request, by admin and identity, by payment callbacks and by its own jobs; one database transaction per operation |
| **billing-service: asynchronous settlement** `biz/async_billing.go`, `data/settlement_task_repo.go` | `billing_settlement_tasks`, an in-memory queue per process | AcceptTask, claim, commit pipeline, MarkCompleted/MarkFailed, Close | accepts CommitQuota calls of the relay, commits through the wallet, reports usage to channel-service |
| **billing-service: cleanup and reconciliation jobs** `biz/cleanup.go`, `biz/reconciliation.go` | discrepancy reports | expire reservations, compare accounts, ledger, receivables, orders, subscriptions | read every billing table |
| **billing-service: payments, refunds, redeem codes** `biz/payment*.go`, `biz/refund.go` | orders, refunds, codes, redeem records | create, pay (callback or query), reconcile, refund, redeem | provider callbacks; credit the wallet |
| **execution intents and evidence** `app/billing/internal/data/execution_repo.go`, `internal/data/execution_outbox.go` | intents and evidence in billing; a local outbox in each relay | admit, record, deliver, accept, settle, expire | the relay writes before it sends and delivers until acknowledged; billing settles or expires the reservation |
| **subscriptions** `domain/subscription/biz` | subscriptions, entitlement revisions, daily/weekly/monthly usage windows | activate, change, expire, absorb, record usage | read and locked inside the billing transactions |
| **relay-gateway** `internal/biz`, `internal/data` | retry budget, concurrency slots, request windows, runtime blocks, model health queue, execution outbox | route, attempt, retry, fall back, settle | calls identity, channel, billing and the upstream vendors |
| **channel-service** `app/channel` | channels, subscription accounts, execution slot leases, quota usage events | select, account operations, RecordSubscriptionAccountQuotaUsage | called by relay, admin, billing |
| **credential refresh** `domain/upstream/credential` | tokens with a revision and a refresh-pending claim, per-process cache | resolve, refresh, persist pending, sweep | database, Redis lease, OAuth servers |
| **routing outbox, events** `platform/routingoutbox`, `platform/events` | outbox rows, Redis streams and consumer groups, revision guard | enqueue in the owner's transaction, dispatch, consume, claim idle, invalidate | identity, channel and subscription publish; relay and admin invalidate caches |
| **identity, admin, config, log, monitor, notify** `app/*` | users, tokens, settings, logs, alerts | CRUD, queries, notifications | call the services above |
| **adaptors, web console** `internal/adaptor`, `web` | none | data conversion, user interface | |

What is hard in it: every billing operation is repeated by callers that timed
out, by workers and by jobs, so each has to be idempotent by a status
compare-and-set or a dedupe key; requests are admitted on an estimate and
settled at an actual cost, possibly above what the wallet holds; the caller is
told that a settlement is accepted before it happens, so it must survive
crashes; several replicas poll one task table; admission limits, token
refreshes and cache invalidations rest on leases and events that are late,
lost or repeated. `PROJECT.json` lists each such hazard at its line with the
properties that would catch it.

What makes each component correct: a request is charged exactly once or not at
all, and who asks for its settlement hears the settled cost (wallet); money and
holds are conserved and debt is never lost (wallet); an accepted settlement is
executed with the accepted payload, once, whatever dies (settlement); the jobs
report only real discrepancies (reconciliation); an order is credited once
(payments); the usage window is not oversold by concurrent requests
(subscriptions); an account never has more requests in flight than its limit
while Redis works (relay); a one-time refresh token is never used twice
(credentials); a cache is never left behind its owner's revision (outbox).

## Modules

| module | what it is |
|---|---|
| `Reservation` | the abstract specification: one request is opened once and then settled with one charge, or closed without |
| `Wallet` | the billing tables and every operation on them as one transaction |
| `MCWallet` | an instance of `Wallet` for TLC |
| `Settlement` | the task table, replicas with their recovery goroutine, queue and worker, callers, cleanup, crashes |
| `MCSettlement` | instances of `Settlement` for TLC |
| `Reconciliation`, `MCReconciliation` | the account check of the reconciliation job as operators on the state of `Wallet` |
| `Payment`, `MCPayment` | orders: creation, prepay claim, callback, reads, repeated creation, the reconciliation job, refunds, the provider |
| `CredentialRefresh`, `MCCredential` | one account's OAuth tokens: relay processes, Redis lease, durable claim, administrators, the upstream |
| `ExecutionDelivery`, `MCExecution` | execution evidence: the attempt in the relay, its outbox and delivery worker, billing's inbox, task and deadline |
| `SubscriptionWindow`, `MCSubscription` | one subscription: usage windows, what reservations freeze of them and commits charge to them, and the other writers of the row |
| `Sums`, `SumLemmas` | totals of a column, and lemmas on how a total moves with one entry |
| `WalletProofs`, `WalletMoney`, `SettlementProofs`, `ExecutionProofs`, `CredentialProofs`, `PaymentProofs`, `SubscriptionProofs` | theorems about the module they are named for |

`Wallet` and `Settlement` both implement `Reservation` under a refinement
mapping; `Settlement` uses the commit of `Wallet` as its status change and the
cost it charges, which is what `Wallet`'s refinement says of it.

### Wallet

A variable is a table or a column: `balance`, `frozen`, `usedAmount`,
`requestCount` are the columns of `users`; `res` is `billing_reservations`;
`consumed`, `refunded`, `topups`, `purchases` and `resets` are the ledger rows
by their dedupe key (0 is "no row"); `latest` is the `balance_after` of the
user's newest row; `receivables` is `account_receivables` in id order.
`replies` is history: what CommitQuota calls were told with success, and
whether the commit or the release of the reservation told them.

An action is one `RunInTx` (`data/tx.go`): the row locks and conditional
UPDATEs make each transaction atomic, so interleavings are between
transactions, and a transaction that returns an error rolls back, which is a
step that is not taken. The intermediate status `committing` is never seen
outside its transaction. The actions are `ReserveQuota` (both the dual-track
and the balance-only path; `sub` is what the subscription absorbs), `CommitWon`
and `CommitReplayed` (the two outcomes of the compare-and-set in
`commitQuotaDualTrack`), `DismissCommit` (a CommitQuota that goes through
`releaseReservation` instead: `success = false`, unproven or late usage of
contract 2), `ReleaseReservation` (that, an explicit release, expiry),
`TopUpQuota` with the settlement of the oldest receivables,
`PurchaseSubscription`, and `ResetBalance` with whatever balance the
administrator had read, which it refuses unless it still is the balance.

`releaseReservation` does nothing and reports success for every closed row, a
committed one included, and the service then answers success with a committed
amount of 0. So a caller that first asks for the settlement, times out and asks
for the release hears 0 for a reservation that was charged. `RepliesAgree` says
this as it is: the settled cost is heard by whoever asked for the settlement. It is
at odds with `docs/TODO.md:313`, by which a release is kept synchronous so that
the caller observes the released reservation; no run states that claim.

The computed cost and the absorbed part are any amounts, bounded as the code
bounds them (floor of 1, at most the cost, the estimate for subscription-only).
A reservation's `mode` folds the frozen billing mode with the presence of a
subscription; `intent` stands for usage contract 2, which the code ties to
reservations with an execution intent. Top-ups and purchases are those with an
idempotency key. 64-bit overflow is not modelled: amounts are far below it and
`UpdateBalanceInTx` refuses a credit that would overflow.

### Settlement

`task` is `billing_settlement_tasks` (its clock columns reduced to `due` and
`stale`, which time moves), `picked`/`batch`/`queue`/`job` are the stages a row
goes through in a process: selected by `ListPending`, claimed by its UPDATE,
handed to `settleQueue`, worked on by `settlementWorker`. `ListPending` may claim
rows and return an error (`ClaimLost`: the answer of its transaction is lost, or
a statement after it fails), and the mark that gives a row back when the queue
is full may fail, an error the code ignores (`Enqueue`); both leave rows in
processing that nobody holds until they are 300 s old. `job.at` is the next
step of `runCommitPipeline`: commit, report, complete; any of them may fail, be
abandoned by a panic, or die with its process. A caller in `Callers` is a gRPC
handler whose `AcceptTask` failed in the storage and that commits synchronously.
`CleanupSelect` and `CleanupRelease` are the two halves of the cleanup job, so
that settlements arrive between them. `Close`, `StopRecovery` and `Exit` are a
graceful shutdown, `Crash` and `Restart` the other kind.

The cleanup, claim, commit and mark statements are one transaction or one
conditional UPDATE each; everything between them interleaves. `acked`,
`charged`, `reported`, `reclaimed` and `orphaned` are history or the other
service's record, used by the properties; `orphaned` and `late` also bound
lateness (below).

### Reconciliation

`ExpectedBalance` and `AccountConsistent` are the two sides the job compares
for a wallet, with its tolerance of 100 as it is in the code. The other checks
are reports over the same tables.

### Payment

A variable is a table or what a process holds: `row` is `payment_orders` (an
order stands for its `trade_no`, its number for the row's id), `subs` is
`user_subscriptions`, `topups` and `refunds` are ledger rows, `loc` is where a
request or the job is, `todo` and `cursor` are the job's pass. `prov`, `late`
and `expired` are the provider and the clock. A database transaction, and a
statement outside one, is one action; every call of the provider lies between
two actions. `Create` to `Answer` are `CreateOrder` with the claim of the prepay
call (`ClaimRead` and `ClaimWrite` are the two statements of
`ClaimProviderOrder`), `Query` to `Apply` are `refreshProviderStatus`, which a
user's read, a repeated creation and the job share, `JobList` and `JobTake` are
`ReconcilePendingOrders`, `Notify` is the verified callback, `Refund` is
`RefundSubscriptionOrder` with its three policies.

The provider is external. It is taken to do what the code relies on: it takes a
prepay request until the order is past its time or ended, a request that timed
out may still arrive, an order that is closed or paid stays so. An order
without a request id is the case of one creator. Amounts are left out: an order
is issued or not. The `terms` of a subscription count how
often each order's validity went into it.

### CredentialRefresh

One account (accounts share nothing). `row` is its row with revision, pending
claim and token, `lease` the Redis key, `at`/`call`/`cache` a process's mutex
holder, its locals and its pending entry; `made`, `expired`, `spent` and
`origin` are the upstream, which rotates a refresh token once. Every storage or
Redis call is an action: `Resolve` the first lookup, `Acquire` to `Claim` the
lease, the second lookup, the first check and `ClaimRefresh`, `Check` the second
check, `Rotate` the OAuth call, `PersistStores` and its failures
`StoreSubscriptionCredentials` with its retries, `SweepPending` the background
task. `Reauthorize`, `EditProfile` and `AdvanceRevision` are the writes of
channel-service to the same row. `fate` is history: why the owner of an open
claim is gone.

Modelled is the mode with `RELAY_CREDENTIAL_COORDINATION=redis`. A clean cache
entry is read there only by the call that has just stored it, which goes on with
what it stored, so the model drops an entry when it is clean. Left out is the
background task's eviction between that store and that read: it leaves
`coordinated_refresh.go:105` nothing to read, which is not checked before the
expiry is looked at. Refresh tokens are not empty. Crashes,
storage errors, lost answers and lapsed leases share one bound.

### ExecutionDelivery

`rows`, `slots` and `said` are a relay's outbox (status of the row of an event,
the slots an admitted intent has reserved, the verdict in a terminal or final
row), `others` the pending rows of requests that are not followed one by one,
`call` a handler; `res`, `past`, `inbox`, `task` and `settling` are billing's
reservation, deadline, evidence, settlement task, and a worker between its
checks and its transaction. `sends` counts upstream sends (history). `Prepare`
is `prepareDurableAttempt`, `Send` the transport that asks the attempt first,
`Headers`, `Checkpoint`, `Abandon`, `Rejected` and `Finish` the records of the
durable recorder, `Commit` `durableCommit`, `SendFinal` and `AckFinal` its own
delivery, `Deliver` the worker's; `SettleCheck` and `SettleCommit` are the two
halves of `CommitQuotaWithUsage`, `Sweep` the expiry of reservations.

The worker's call and its acknowledgement are one action with a variant in
which the answer is lost; the handler's are two. Left out: the capacity in
bytes (as the capacity in events), the lease of an intent (nothing reads it),
the pruning of tombstones, the queue of the settlement worker (that is
`Settlement`), WebSocket and gRPC attempts, the canary switch.

### SubscriptionWindow

`sub` is the row of `user_subscriptions` with `rev`, its entitlement revision;
`res` the reservations bound to it, with the absorbed amount and the windows
they were admitted in; `called` the time a running `CommitQuota` took before its
transaction; `held` what an administrator's call or the expiry checker has read
and not yet written. `Reserve`, `Commit` and `Release` are the subscription's
part of the transactions of `Wallet`, whose `sub` and `bal` are what is absorbed
here and the rest. They are one step because the row is locked before anything
is read from it: no plain read of these transactions comes before the lock, so
also under MySQL's repeatable read the sum of the open reservations is current.
`snapshot` distinguishes the usage write of reservations with a request snapshot
(`AddFrozenUsageInTx`) from the older one. `Renew`, `RevokeInTx` and
`ShortenInTx` are the changes made inside payment transactions; the `ReadTo...`
actions and `WriteRow` are the two halves of everything else that writes the
row, column by column as `UpdateSubscriptionFields` does.

`disturbed` is history: the windows in which, while they run, a quota reset has
written or a commit that took its time before they began. Both lose charges, and
as requests are admitted by the usage of the row, both let it oversell:

- `ResetQuota` reads the row and writes all six usage columns back, those of the
  windows it does not reset with the values it read
  (`biz/subscription_usecase.go:426`, `data/subscription_repo.go:366`), and usage
  writes do not advance the revision that fences it (`data/contract.go:60`). A
  session reads the row for a daily reset, a request is charged 2, the reset puts
  the weekly 0 back, 2 more are admitted: a week of 3 is promised 4. The comment
  above `updateSubscriptionFieldsWithTx` says that an increment between read and
  write is preserved, which is so for the callers that leave the usage columns out.
- A commit that straddles the end of a window rolls the row back to the window
  of its stale time (`billing.go:1071`); what others have counted in the new window
  is dropped by the next roll, although `AddFrozenUsageInTx` says that every
  charge increments once. A third request is then admitted for the headroom this
  seems to leave.

So the comment of `LockSubscriptionRow` (`data/reservation_repo.go:237`: the check
cannot oversell a window) is true of concurrent requests alone, and that is what
`NotOversold` and `UsageCounted` say, of every window that is not disturbed; the
next window is protected again. `NotOversold` is about what requests were charged
(`Charged`), not about what the row counts. Without the condition it is false
after six steps of the run's own instance (the charged day is reset and promised
again). `ChargesCounted` states without the condition that a window
counts what it was charged; it is false after five
steps with a reset and after seven with a straddling commit alone, and no run
has it.

`StatusStands` holds with the entitlement revision (`Fenced`), that is with
`SUBSCRIPTION_ENTITLEMENTS_V2`, for a contract, or under an IAM scope; default
deployments have none of them. Without it the last writer wins: the checker can expire what has just
been renewed, and an extension can revive what has just been revoked. With it,
decisions on status and expiry stand; usage is not fenced (above). `NotOversold`
and `UsageCounted` need no revision.

The rate multiplier is 1, money is counted in units, and one subscription stays
the user's: changes of the plan and replacement rows are left out.

## Runs

| run | bounds | distinct states, time | shows |
|---|---|---|---|
| `wallet_money` | 2 users, 2 requests and 1 wallet operation of one of them, amounts {1,2}, wallets of 2 and 1, every mode, both contracts | 1,472,369, 90 s | type, exactly one settlement, true replies, holds, conservation of money, usage counters, receivables cover the debt, refinement of `Reservation` |
| `settlement_replicas` | 1 reservation, 2 replicas (symmetric), 2 payloads, 1 crash, 2 late claims | 279,640, 12 s | accepted payload is charged, expiry never closes it, one holder per claim, no claim without a holder |
| `settlement_fallback` | 1 reservation, a process and a caller, 2 payloads, 1 crash, 1 late claim | 1,135,168, 35 s | completed means charged and reported; refinement of `Reservation` |
| `settlement_live` | 2 reservations, a process with a queue of 1, 1 crash, fairness | 73,280, 60 s | every accepted settlement is completed |
| `reconcile_account` | 2 requests, amounts 150 and 300, wallet 1000 | violation | the account check reports a wallet that is right |
| `credential_refresh` | 2 processes (symmetric), 3 tokens, 1 administrator's write, 2 faults | 2.9 million, 90 s | a refresh token is spent once, a new authorization is kept, answers are current, an open claim is accounted for |
| `credential_live` | 2 processes, 2 tokens, 1 fault, fairness | 39 thousand, 20 s | a rotation is persisted, an expired token is refreshed |
| `credential_fence` | 2 processes, 3 tokens, 1 administrator's write, no fault | violation | an administrator's write takes an open claim from its owner |
| `payment_orders` | 3 orders (wechat, two subscriptions of one group), 2 requests, the job with batches of 1, 2 faults, fairness | 199,307, 55 s | issued once and for money, a closed order is not paid, a pay URL stands, refunds, lost callbacks, expired orders |
| `payment_revoke` | 2 subscription orders | violation | a refund revokes the subscription another paid order extended |
| `execution_delivery` | 1 relay with 2 handlers, 1 repeated request, outbox of 5 events, 2 faults, fairness | 815,175, 110 s | charged on evidence, one send, room for evidence, no late charge, evidence arrives |
| `subscription_window` | 2 requests of cost 1 or 2, a day of 2 and a week of 3, 3 days, 1 write by an administrator or a payment, the expiry checker, with revisions | 1,854,293, 70 s | no undisturbed window is oversold, and it counts what it was charged; no stale write revives a revoked or expires an extended subscription |

The bounds. Wallet: two requests of one user are needed for one's hold to matter
to the other, a second user for a step to disturb somebody else's money; amounts
1 and 2 with a wallet of 2 give estimates above, equal to and below the actual
cost and overdrafts in one or two steps; one operation is a recharge, a purchase
or a reset at any point. Nobody is in `BlockOverdraftUsers` there: what holds
for those users (`BlockedNeverNegative`) is proved. Settlement: two replicas and
one row are enough for a double claim, one crash at any point plus the retry for
a lost step. In the liveness run two rows are claimed together and meet a queue
of one slot, so that one of them finds it full, is marked failed or orphaned,
and must come back; there is one process (two replicas are in the safety runs)
and no reservation gets overdue (`LiveSpec`: an accepted one is never expired
for it). `MaxLate` bounds how often a claim gets 300 s old while its owner is
alive (0 in the liveness run): without a bound a queue that is always slow is
always taken over and nothing need ever complete; claims of dead owners always
get old. Credentials: two processes race for a lease, a third token is the
rotation of a rotation or of a new authorization, two faults are a lapsed lease
and a crash of the process that took over. Payments: two requests race for one
order's claim, a batch of 1 puts two pending orders into two passes, two faults
are a lost prepay and a death. Execution: a request that is repeated while its
first attempt runs needs two handlers and one reservation; with 5 events one
admission (4) leaves room for one row of others, so both a full outbox and a
late put happen; two faults are a failed write and a crash. Subscriptions: two
requests fill a day of 2, a week of 3 spans two days, and three days give an
admission, a commit and a later request in three different windows; one write
and the checker give a write from an old read. Symmetry is used in safety runs
only, between processes that are alike.

Deadlock checking is off: once every request is settled the system may stop.

Fairness.

- `Settlement`: timers fire and goroutines that can run do (WF); a process that
  stopped is started again (the deployment restarts it); a claim, a commit, a
  report and a mark that are tried again and again succeed at last (SF), which is
  what retrying is for, while a claim whose answer is lost and a mark for a full
  queue that fails are owed nothing; and a process that keeps being stopped and
  started at last gets to its first tick (SF on `SelectPending`). The assumption
  on commits does not hold for a user in `BlockOverdraftUsers` whose wallet is
  too small until a recharge, so the run says nothing about those.
- `CredentialRefresh`: a call that has begun runs on (WF), the background task,
  without which coordination refuses to start, sweeps pending entries and forces
  a refresh of tokens near their expiry (SF, the mutex may be held when it
  comes), a stray lease reaches its TTL (WF).
- `Payment`: the job's ticker goes on in some replica (WF). Callbacks and users
  owe nothing.
- `ExecutionDelivery`: the delivery worker looks at every pending row once a
  second for as long as the relay runs, and a relay is started again on its
  outbox (WF per row).

Every property has a mutant of the code in `PROJECT.json` that TLC refutes.

## Findings

1. **The account check reports wallets that are right** (`reconcile_account`).
   `biz/reconciliation.go:445` takes the newest ledger snapshot for settled and
   subtracts the frozen amount. The refund row of a release has no
   `balance_after`, so after reserve and release the expected balance is 0; and
   a commit's snapshot is taken while other holds are already out of the
   wallet, so these are subtracted twice.
2. **An administrator's write orphans a running refresh** (`credential_fence`).
   The runbook says ordinary account writes are refused while a claim is open
   and its owner may persist the rotation at its revision. A status change, a
   quota reset or a change of groups advances the revision without looking at
   the claim: the owner's store conflicts, the rotated token is discarded, and
   the claim stays open until a new authorization.
3. **A refund revokes somebody else's time** (`payment_revoke`). A comment in
   `biz/refund.go` says that refunding an old order after the user bought a new
   subscription revokes the right one. An order of the group the user already
   has extends the active subscription and is stamped with the same row, so
   revoking for one order ends what the other has paid.

## Theorems

Proved for every set of users, number of reservations and operations, owner
functions, initial wallets, amounts and profiles that satisfy the ASSUMEs of
`Wallet` (which only type the constants):

- `WalletProofs`: type correctness. Its steps are one lemma per action; the
  case split over actions used by the other modules is there too. `TypeOK`
  needs that a receivable is never settled beyond its overdue quota, which is
  the strengthening `Typed` carries.
- There too, `SettledOnce` and `RepliesAgree`. The inductive invariant
  `Settled` says per row what its status allows: an open row has no consume or
  refund row and no reply, a committed one has consume rows adding up to its
  actual cost, a closed one its refund, and a reply that the commit gave is the
  actual cost, one that the release gave is 0. On it rests the
  refinement theorem: every step of `Wallet` is a step or a stutter of
  `Reservation`.
- `WalletMoney`: `FrozenMatchesHolds`, `MoneyConserved`, `UsageMatchesLedger`.
  Each is an equation between a column and a total over rows; `SumLemmas` shows
  that a total changes by what its one changed entry changes, and the
  invariants are inductive together with the row invariant `Settled`.
- There too, `DebtIsReceivable`, and of what no run checks `ReceivablePerReservation`,
  `BlockedNeverNegative`, `SubscriptionOnlySparesWallet`. The settlement of the
  oldest receivables is shown to take exactly the smaller of the recharge and
  what is outstanding, by an induction over the running total.

Proved for every number of reservations and queue slots, every set of replicas
and callers, all costs and any bound on crashes and late claims (the ASSUMEs of
`Settlement` type the constants and keep replicas and callers apart):

- `SettlementProofs`: type correctness with the queue bound, `CompletedIsDone`,
  and the refinement of `Reservation`. The invariant `Sound` ties what lies in
  memory to the tables: a job's stage says how far its reservation is
  (`JobSound`), a task in a batch, a queue or a job is a copy of a stored row
  (`CopySound`), and a reported amount is the charged one (`RowSound`). It is
  inductive because reservations only move forward (`Advances`) and a stored
  payload is never rewritten (`Grows`).
- There too, under the hypothesis `Callers = {}` - every caller carries a
  receipt, so nobody falls back to the synchronous commit - `AcceptedIsCharged`
  and `AcceptedNeverExpires`, from `Accepted`: the accepted payload of a row is
  its stored one. The hypothesis is needed: without receipts a fallback commits
  its own payload (see the hazards).
- And `ClaimsAreHeld`, and under `Callers = {}` `OneHolder`, from `Handled`: a
  claim that nobody gave up is in a batch, a queue or a worker (`HandOK`), where
  it stays as it is (`Keeps`) or leaves with its row marked or orphaned
  (`LetsGo`); until it is taken over it is at one place, and nobody claims a row
  in processing. `Held` counts these places, so `HeldInHand` turns the counts
  into the predicates the steps are about. `OneHolder` needs the hypothesis: a
  fallback marks a row that a worker holds, and another replica may claim it.

Proved for every set of relays and handlers, every finite set of reservations,
any outbox capacity, number of calls and number of faults:

- `ExecutionProofs`: type correctness, `SentOnce`, `ChargedOnEvidence`,
  `EvidenceHasRoom`, `NoLateCharge`. `RelayInv` says that the intent of an
  attempt is on disk before anything else and that one handler owns it (`Owns`):
  a second handler, a repeated request or a handler after a crash finds the
  intent known and stops. So the terminal record is written by the handler that
  sent the request, and proof of usage is never taken back (`RelayKept`), which
  lets billing's part (`BillingInv`) follow a verified verdict from the final
  event to the task and the charge. `Capacity` counts pending rows and promised
  slots: a put moves one from the slots to the rows or needs free room, so the
  total never passes the capacity, and with ownership no other handler uses an
  attempt's slots (`RoomInv`).

Proved for every set of relay processes and any number of tokens, administrator
writes and faults:

- `CredentialProofs`: type correctness, `SpentOnce`, `NewAuthorizationKept`,
  `AnswersAreCurrent`, `ClaimAccounted`. The lease plays no part in the proof:
  the inductive invariant `Inv` rests on the revision alone. What a call or a
  pending entry remembers is never newer than the row, and at the row's own
  revision it is the row's token (`CallOK`) or the rotation of it that the open
  claim waits for (`EntryOK`); every other write advances the revision
  (`Bystander`, `AdvanceStep`), after which a stale call can neither claim nor
  store. Hence no token has two claimers (`Apart`), so it is presented once, and
  what is stored descends from the authorization the row already has.

Proved for every finite set of orders, with any of them wechat's or
subscriptions', every set of callers, any batch of the job and any number of
calls and faults:

- `PaymentProofs`: type correctness, `IssuedOnceForPayment`,
  `RefundTakesOwnTime`, `ClosedIsNeverPaid`, `HandedUrlStands`. `Issued` says
  for each order what its row's status has put into the ledger and into which
  subscription; the steps that do not settle keep it, and marking an order paid
  and refunding it are the only ones that do. It also bounds the number of
  subscriptions (each was opened by an order stamped with it), which `TypeOK`
  needs; hence the assumption that the orders are finitely many. `Verdicts`
  says that an answer a call acts on is final: what the provider called paid
  stays paid, and an order is closed only when the provider closed it or never
  heard of it and takes no request any more (`Never`). `Urls` says that a URL
  once in the row stays, that no call holds another one when it answers
  (`SeenOK`), and that an alipay row without a URL has one creator
  (`CreatorOK`); for wechat the claim token does that, checked when the result
  is attached.

Proved for any number of requests, any writers and windows, all lengths and
limits of the windows, and any bound on time and edits:

- `SubscriptionProofs`: type correctness, `UsageCounted` and `NotOversold`, and
  under the hypothesis `Fenced` `StatusStands` (false without it, see above).
  Every start of a window and every time in a row is in the past (`Typed`), so
  that usage is rolled forward and never taken from a later window. `Fences`:
  while the revision a writer read is the row's, so are status and expiry.
  `Counted`: no row, stored or held by a writer, counts more in a window than its
  charges; a commit adds the same to both. `Sold` bounds what an undisturbed
  window counts and holds: a reservation adds to what is frozen at most the
  headroom; a commit moves its amount from the frozen to the used, or, when an
  earlier window admitted it, adds to both sides; a new window begins with
  nothing. With `Counted` that is `NotOversold`. The three sums over reservations
  are totals whose one changed entry moves them (`SumLemmas`).

Only model-checked: liveness under fairness (`TasksComplete`,
`RotationPersists`, `ExpiredIsRefreshed`, `PaidIsIssued`, `ExpiredEnds`,
`EvidenceArrives`), which is out of the prover's reach, as ENABLED is. Every
invariant, action property and refinement of the passing runs is the subject of
a theorem. The properties of the three violation runs are false.

## Not modelled

Pricing and vendor cost (pure calculation), protocol adaptors, the web console,
CRUD services, migrations. In billing: the `*Legacy` paths without a transaction
runner, payloads that fail validation (status `invalid`), final evidence that
billing rejects, and a poisoned row that keeps the relay's worker from the rest
of its outbox; deployments without a durable task store, the batch ledger
writer, redeem codes, refund requests and their review. Of subscriptions: plans,
contracts, upgrades and downgrades. In the relay: channel selection, retries
over several channels, admission limits. In the platform: the routing outbox and
the event streams. `PROJECT.json` lists each with its hazards.

## Plan

1. `Wallet`, `Settlement`, `Reconciliation`, `Payment`, `CredentialRefresh`,
   `ExecutionDelivery`, `SubscriptionWindow` (done, with their proofs). Left of
   these: an instance of `ExecutionDelivery` with two relays, where a repeated
   request that another relay admitted may refund a running attempt (see the
   hazards); runs that refute `ChargesCounted`, `NotOversold` without its
   condition, and that a release is observed as one.
2. `Redeem`: the inventory of a code and its records; property: a code is
   redeemed no more often than it has uses, and once by a user.
3. `Admission`: slot leases of relay and channel, retry budget, runtime blocks;
   property: at most `limit` in flight while leases are renewed in time.
4. `RoutingOutbox`: transactional enqueue, dispatch, stream redelivery, revision
   guard; properties: at-least-once delivery, a cache converges to its owner.
5. `RelayRequest`: attempts of one request against `Wallet` and `Settlement`:
   every request is charged or released, never both.
