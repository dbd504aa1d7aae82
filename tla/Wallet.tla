------------------------------- MODULE Wallet -------------------------------
(***************************************************************************)
(* The money of the billing service: the wallet columns of users, the      *)
(* billing_reservations state machine, the dedupe-keyed ledger and the     *)
(* account_receivables mirror.  Each action is one database transaction    *)
(* (RunInTx in data/tx.go): everything between two transactions of any     *)
(* caller - the relay, its retries, the settlement workers, the cleanup    *)
(* and reconciliation jobs, an administrator - is an interleaving.         *)
(***************************************************************************)
EXTENDS Sums, Sequences

CONSTANTS
  Users,
  NRes,             \* reservations: one per (user_id, request_id), ids 1..NRes
  ResUser,          \* [1..NRes -> Users], reservation.UserID
  NOps,             \* Idempotency-Keys of wallet operations, ids 1..NOps
  OpUser,           \* [1..NOps -> Users]
  InitBalance,      \* [Users -> Nat], the wallets before the first operation
  BlockOverdraft,   \* users canOverdraft answers false for
  Amounts,          \* the costs, prices and recharges of a run
  Profiles          \* the billing modes and usage contracts requests come with

ResIds == 1..NRes
OpIds  == 1..NOps

ASSUME CountsAssumption == NRes \in Nat /\ NOps \in Nat
ASSUME OwnersAssumption ==
  ResUser \in [ResIds -> Users] /\ OpUser \in [OpIds -> Users]
ASSUME MoneyAssumption ==
  /\ InitBalance \in [Users -> Nat]
  /\ BlockOverdraft \subseteq Users
  /\ Amounts \subseteq Nat \ {0}
  /\ Profiles \subseteq [mode : {"wallet", "dual", "subscription_only"}, intent : BOOLEAN]

VARIABLES
  balance, frozen,            \* users.balance, users.frozen_amount
  usedAmount, requestCount,   \* users.used_amount, users.request_count
  res,                        \* billing_reservations, one row per id
  consumed,                   \* "<id>:consume:<source>" rows; 0 = no row
  refunded,                   \* "<id>:refund:balance" rows; 0 = no row
  topups, purchases,          \* "topup:<user>:<key>", "purchase:..." rows; 0 = no row
  resets,                     \* "balance_reset:<user>:<key>" rows
  latest,                     \* balance_after of the user's newest ledger row
  receivables,                \* account_receivables in id order
  replies                     \* the answers of CommitQuota calls that were told success

walletVars == <<balance, frozen, usedAmount, requestCount>>
ledgerVars == <<consumed, refunded, topups, purchases, resets, latest>>
vars == <<balance, frozen, usedAmount, requestCount, res, consumed, refunded,
          topups, purchases, resets, latest, receivables, replies>>
-----------------------------------------------------------------------------
Modes == {"wallet", "dual", "subscription_only"}
Statuses == {"none", "reserved", "committed", "released", "expired"}

\* Reservation: Amount, BalanceAmount, ActualCost and Status; mode is the
\* frozen BillingMode with SubscriptionID (no subscription: "wallet"), intent
\* tells whether the snapshot carries an execution intent (usage contract 2).
Row == [status : Statuses, mode : Modes, intent : BOOLEAN,
        amount : Nat, balanceAmount : Nat, actualCost : Nat]

NoRow == [status |-> "none", mode |-> "wallet", intent |-> FALSE,
          amount |-> 0, balanceAmount |-> 0, actualCost |-> 0]

\* Receivable: OverdueQuota and SettledQuota; the row is pending while the
\* second is below the first.
Receivable == [id : ResIds, user : Users, overdue : Nat, settled : Nat]

\* CommitQuotaResponse with success: the committed amount, and whether the commit
\* or the release of the reservation answered.
Reply == [by : {"commit", "release"}, amount : Nat]
Told(amount) == [by |-> "commit", amount |-> amount]
Dismissed == [by |-> "release", amount |-> 0]

NoReset == [claimed |-> FALSE, amount |-> 0]

NoLedger == [found |-> FALSE, after |-> 0]
LedgerRow(after) == [found |-> TRUE, after |-> after]

Charge(r) == consumed[r].sub + consumed[r].bal

Init ==
  /\ balance = InitBalance
  /\ frozen = [u \in Users |-> 0]
  /\ usedAmount = [u \in Users |-> 0]
  /\ requestCount = [u \in Users |-> 0]
  /\ res = [r \in ResIds |-> NoRow]
  /\ consumed = [r \in ResIds |-> [sub |-> 0, bal |-> 0]]
  /\ refunded = [r \in ResIds |-> 0]
  /\ topups = [o \in OpIds |-> 0]
  /\ purchases = [o \in OpIds |-> 0]
  /\ resets = [o \in OpIds |-> NoReset]
  /\ latest = [u \in Users |-> NoLedger]
  /\ receivables = <<>>
  /\ replies = [r \in ResIds |-> {}]
-----------------------------------------------------------------------------
(* ReserveQuota.  The in-transaction lookup by (user_id, request_id) finds  *)
(* no row; the pre-deduction is one conditional UPDATE.  sub is what the    *)
(* subscription absorbs, 0 on the balance-only path.  A call that finds a   *)
(* row answers from it and changes nothing.                                 *)
\* A row of any status keeps its request_id from being reserved again.
VacantAfterRelease(row) == row.status \in {"none", "released", "expired"}
Vacant(row) == row.status = "none"

\* The absorbed part is clamped to the cost, so the wallet part is not negative.
UnclampedSplit(cost, sub) == TRUE
SplitOK(cost, sub) == sub <= cost

CanReserve(u, held) == held = 0 \/ balance[u] >= held

ReserveQuota(r, cost, sub, mode, intent) ==
  LET u == ResUser[r]
      held == cost - sub
  IN  /\ Vacant(res[r])
      /\ SplitOK(cost, sub)
      /\ mode = "wallet" => sub = 0
      /\ mode = "subscription_only" => held = 0
      /\ CanReserve(u, held)
      /\ balance' = [balance EXCEPT ![u] = @ - held]
      /\ frozen' = [frozen EXCEPT ![u] = @ + held]
      /\ res' = [res EXCEPT ![r] =
                   [status |-> "reserved", mode |-> mode, intent |-> intent,
                    amount |-> cost, balanceAmount |-> held, actualCost |-> 0]]
      /\ UNCHANGED <<usedAmount, requestCount, receivables, replies>>
      /\ UNCHANGED ledgerVars
-----------------------------------------------------------------------------
(* CommitQuota.                                                             *)

\* The computed cost, floored at 1 except under usage contract 2, which is the
\* contract of the rows with an execution intent and of no other.
SettledCost(row, cost) == IF cost <= 0 /\ ~row.intent THEN 1 ELSE cost

\* CommitBalanceInTx: the hold comes back, the actual wallet cost goes.
HoldNotReturned(b, held, actual) == b - actual
BalanceAfterCommit(b, held, actual) == b + held - actual
FrozenKept(f, held, actual) == f - actual
FrozenAfterCommit(f, held, actual) == f - held

\* Its guard: nothing to do, or overdraft allowed, or the wallet stays >= 0.
CommitAllowed(u, held, actual) ==
  \/ held = 0 /\ actual = 0
  \/ u \notin BlockOverdraft
  \/ BalanceAfterCommit(balance[u], held, actual) >= 0

\* The receivable mirrors what the commit adds to the negative part.
OverdueFromZero(old, new) == IF old < 0 THEN 0 ELSE Positive(-new)
Overdue(old, new) == Positive(-new) - Positive(-old)

RecordReceivable(r, u, old, new) ==
  IF Overdue(old, new) > 0 /\ ~ \E i \in 1..Len(receivables) : receivables[i].id = r
  THEN receivables' = Append(receivables, [id |-> r, user |-> u,
                                           overdue |-> Overdue(old, new), settled |-> 0])
  ELSE UNCHANGED receivables

\* A subscription_only request is bounded by its estimate and never falls back
\* to the wallet; the commit rolls back instead.
WithinBound(row, actual, bal) ==
  row.mode = "subscription_only" => actual <= row.amount /\ bal = 0

\* UpdateUsageInTx
UsedEstimate(used, row, actual) == used + row.amount
UsedAfterCommit(used, row, actual) == used + actual

\* The won compare-and-set reserved -> committing -> committed, with every
\* side effect of the transaction.  sub is what the subscription absorbs.
CommitWon(r, cost, sub) ==
  LET u == ResUser[r]
      row == res[r]
      actual == SettledCost(row, cost)
      bal == actual - sub
      new == BalanceAfterCommit(balance[u], row.balanceAmount, bal)
  IN  /\ row.status = "reserved"
      /\ SplitOK(actual, sub)
      /\ row.mode = "wallet" => sub = 0
      /\ WithinBound(row, actual, bal)
      /\ CommitAllowed(u, row.balanceAmount, bal)
      /\ consumed[r] = [sub |-> 0, bal |-> 0]          \* dedupe claims
      /\ balance' = [balance EXCEPT ![u] = new]
      /\ frozen' = [frozen EXCEPT ![u] = FrozenAfterCommit(@, row.balanceAmount, bal)]
      /\ RecordReceivable(r, u, balance[u], new)
      /\ consumed' = [consumed EXCEPT ![r] = [sub |-> sub, bal |-> bal]]
      /\ latest' = IF actual > 0 THEN [latest EXCEPT ![u] = LedgerRow(new)] ELSE latest
      /\ res' = [res EXCEPT ![r].status = "committed", ![r].actualCost = actual]
      /\ usedAmount' = [usedAmount EXCEPT ![u] = UsedAfterCommit(@, row, actual)]
      /\ requestCount' = [requestCount EXCEPT ![u] = @ + 1]
      /\ replies' = [replies EXCEPT ![r] = @ \cup {Told(actual)}]
      /\ UNCHANGED <<refunded, topups, purchases, resets>>

\* committedAmountFromReservation: what a retried commit is told.
AmountWhenZero(row) == IF row.actualCost > 0 THEN row.actualCost ELSE row.amount
CommittedAmount(row) ==
  IF row.actualCost > 0 \/ row.intent THEN row.actualCost ELSE row.amount

\* An answer from a row that is left as it is.
Answer(r, reply) ==
  /\ replies' = [replies EXCEPT ![r] = @ \cup {reply}]
  /\ UNCHANGED <<res, receivables>>
  /\ UNCHANGED walletVars
  /\ UNCHANGED ledgerVars

\* The lost compare-and-set, or a committed row that usage contract 2 finds
\* before: a closed row answers 0 under the older usage contracts, contract 2
\* is refused.
CommitReplayed(r) ==
  \/ res[r].status = "committed" /\ Answer(r, Told(CommittedAmount(res[r])))
  \/ res[r].status \in {"released", "expired"} /\ ~ res[r].intent /\ Answer(r, Told(0))
-----------------------------------------------------------------------------
(* releaseReservation: an explicit ReleaseQuota, the expiry of the cleanup  *)
(* and reconciliation jobs, or a CommitQuota that is not to be settled.     *)
ReleasableTwice(row) == row.status \in {"reserved", "committed"}
Releasable(row) == row.status = "reserved"

\* answers: what the call is told as a CommitQuota
ReleaseReservation(r, final, answers) ==
  LET u == ResUser[r]
      held == res[r].balanceAmount
  IN  /\ Releasable(res[r])
      /\ refunded[r] = 0                               \* dedupe claim
      /\ balance' = [balance EXCEPT ![u] = @ + held]
      /\ frozen' = [frozen EXCEPT ![u] = @ - held]
      /\ refunded' = [refunded EXCEPT ![r] = held]
      /\ latest' = IF held > 0 THEN [latest EXCEPT ![u] = LedgerRow(0)] ELSE latest
      /\ res' = [res EXCEPT ![r].status = final]
      /\ replies' = [replies EXCEPT ![r] = @ \cup answers]
      /\ UNCHANGED <<usedAmount, requestCount, receivables,
                     consumed, topups, purchases, resets>>

\* IsTerminal
Terminal(row) == row.status \in {"committed", "released", "expired"}

\* A CommitQuota with success = false, or with usage of contract 2 that is
\* unproven or late: it releases, and is told success and 0 by any closed row,
\* also by one that another call has committed.
DismissCommit(r) ==
  \/ ReleaseReservation(r, "released", {Dismissed})
  \/ Terminal(res[r]) /\ Answer(r, Dismissed)
-----------------------------------------------------------------------------
(* TopUpQuota: the credit, the settlement of the oldest receivables and the *)
(* recharge row.  A claimed key rolls everything back.                      *)

\* outstanding of the user, row by row
Outstanding(u) ==
  [i \in 1..Len(receivables) |->
     IF receivables[i].user = u
     THEN receivables[i].overdue - receivables[i].settled ELSE 0]

\* SettleOldestForUserInTx: what row i gets after the older rows took theirs.
Settlement(u, amount, i) ==
  MinOf(Outstanding(u)[i],
        Positive(amount - RunningTotal(Outstanding(u), Len(receivables))[i-1]))

SettleOldest(u, amount) ==
  receivables' = [i \in 1..Len(receivables) |->
                    [receivables[i] EXCEPT !.settled = @ + Settlement(u, amount, i)]]

TopUpQuota(o, amount) ==
  LET u == OpUser[o]
  IN  /\ topups[o] = 0
      /\ balance' = [balance EXCEPT ![u] = @ + amount]
      /\ SettleOldest(u, amount)
      /\ topups' = [topups EXCEPT ![o] = amount]
      /\ latest' = [latest EXCEPT ![u] = LedgerRow(balance[u] + amount)]
      /\ UNCHANGED <<frozen, usedAmount, requestCount, res, replies,
                     consumed, refunded, purchases, resets>>

\* PurchaseSubscription: UpdateBalanceInTx refuses what the wallet does not hold.
PurchaseSubscription(o, price) ==
  LET u == OpUser[o]
  IN  /\ purchases[o] = 0
      /\ balance[u] >= price
      /\ balance' = [balance EXCEPT ![u] = @ - price]
      /\ purchases' = [purchases EXCEPT ![o] = price]
      /\ latest' = [latest EXCEPT ![u] = LedgerRow(balance[u] - price)]
      /\ UNCHANGED <<frozen, usedAmount, requestCount, res, replies,
                     consumed, refunded, topups, resets, receivables>>

\* ResetBalance: target and the balance the administrator read, compared in
\* the transaction.
ResetBalance(o, target, expected) ==
  LET u == OpUser[o]
  IN  /\ ~ resets[o].claimed
      /\ balance[u] = expected
      /\ balance' = [balance EXCEPT ![u] = target]
      /\ resets' = [resets EXCEPT ![o] = [claimed |-> TRUE, amount |-> target - balance[u]]]
      /\ latest' = [latest EXCEPT ![u] = LedgerRow(target)]
      /\ UNCHANGED <<frozen, usedAmount, requestCount, res, replies,
                     consumed, refunded, topups, purchases, receivables>>
-----------------------------------------------------------------------------
Reserve(r) ==
  \E cost \in Amounts, sub \in Amounts \cup {0}, p \in Profiles :
    ReserveQuota(r, cost, sub, p.mode, p.intent)

Commit(r) ==
  \E cost, sub \in Amounts \cup {0} : CommitWon(r, cost, sub)

Release(r) == ReleaseReservation(r, "released", {})
Expire(r) == ReleaseReservation(r, "expired", {})
TopUp(o) == \E amount \in Amounts : TopUpQuota(o, amount)
Purchase(o) == \E price \in Amounts : PurchaseSubscription(o, price)

\* what an administrator may have read: the balance, or what it is no more
Read(u) == {balance[u]} \cup Amounts \cup {0}

Reset(o) ==
  \E target \in Amounts \cup {0}, expected \in Read(OpUser[o]) : ResetBalance(o, target, expected)

Next ==
  \/ \E r \in ResIds :
       \/ Reserve(r) \/ Commit(r) \/ CommitReplayed(r) \/ DismissCommit(r)
       \/ Release(r) \/ Expire(r)
  \/ \E o \in OpIds : TopUp(o) \/ Purchase(o) \/ Reset(o)

Spec == Init /\ [][Next]_vars

-----------------------------------------------------------------------------
(* Columns the invariants add up, one entry per row of the table.           *)
Holds(u) == [r \in ResIds |->
               IF ResUser[r] = u /\ res[r].status = "reserved"
               THEN res[r].balanceAmount ELSE 0]
WalletCharges(u) == [r \in ResIds |-> IF ResUser[r] = u THEN consumed[r].bal ELSE 0]
Charges(u) == [r \in ResIds |-> IF ResUser[r] = u THEN Charge(r) ELSE 0]
Commits(u) == [r \in ResIds |->
                 IF ResUser[r] = u /\ res[r].status = "committed" THEN 1 ELSE 0]
Credits(u) == [o \in OpIds |->
                 IF OpUser[o] = u THEN topups[o] - purchases[o] + resets[o].amount ELSE 0]

\* Every row, counter and ledger entry has its type.
TypeOK ==
  /\ balance \in [Users -> Int]
  /\ frozen \in [Users -> Int]
  /\ usedAmount \in [Users -> Nat]
  /\ requestCount \in [Users -> Nat]
  /\ res \in [ResIds -> Row]
  /\ consumed \in [ResIds -> [sub : Nat, bal : Nat]]
  /\ refunded \in [ResIds -> Nat]
  /\ topups \in [OpIds -> Nat]
  /\ purchases \in [OpIds -> Nat]
  /\ resets \in [OpIds -> [claimed : BOOLEAN, amount : Int]]
  /\ latest \in [Users -> [found : BOOLEAN, after : Int]]
  /\ receivables \in Seq(Receivable)
  /\ replies \in [ResIds -> SUBSET Reply]

\* users.frozen_amount is always the sum of the wallet holds of the user's
\* open reservations: no commit, release, expiry or retry leaves a hold behind
\* or gives one back twice (ReserveBalanceInTx, CommitBalanceInTx,
\* ReleaseBalanceInTx against the status compare-and-set).
FrozenMatchesHolds == \A u \in Users : frozen[u] = Total(Holds(u), NRes)

\* Money is conserved: what the wallet holds, available and frozen, is what it
\* started with plus the recharges and resets minus the purchases and the
\* wallet part of the committed requests, each counted once by its dedupe key.
MoneyConserved ==
  \A u \in Users :
    balance[u] + frozen[u] =
      InitBalance[u] + Total(Credits(u), NOps) - Total(WalletCharges(u), NRes)

\* users.used_amount and users.request_count are what the consume ledger and
\* the committed reservations add up to (UpdateUsageInTx runs in the commit's
\* transaction and nowhere else).
UsageMatchesLedger ==
  \A u \in Users : /\ usedAmount[u] = Total(Charges(u), NRes)
                   /\ requestCount[u] = Total(Commits(u), NRes)

\* A reservation is settled exactly once: a committed one has consume rows that
\* add up to its actual cost and no refund row, a released or expired one has
\* its hold refunded and no consume row, an open one has neither.
SettledOnce ==
  \A r \in ResIds :
    LET row == res[r]
    IN  /\ row.status = "committed" => Charge(r) = row.actualCost /\ refunded[r] = 0
        /\ row.status \in {"released", "expired"} =>
             Charge(r) = 0 /\ refunded[r] = row.balanceAmount
        /\ row.status \in {"none", "reserved"} => Charge(r) = 0 /\ refunded[r] = 0

\* A CommitQuota that is told success is told so by a closed reservation, and
\* the answer stays true: whoever asked for the settlement heard the settled
\* cost, however often and after whatever else it was retried
\* (committedAmountFromReservation), and never the estimate.  Whoever asked for
\* the release, or sent unproven usage, hears 0; that is no statement about the
\* charge, because releaseReservation answers so for a committed row too.
RepliesAgree ==
  \A r \in ResIds : \A reply \in replies[r] :
    /\ Terminal(res[r])
    /\ reply.amount = IF reply.by = "commit" THEN res[r].actualCost ELSE 0

\* No debt goes unrecorded: what a user still owes according to the pending
\* receivables covers the negative part of the wallet.
DebtIsReceivable ==
  \A u \in Users : Total(Outstanding(u), Len(receivables)) >= -balance[u]

\* One reservation makes at most one receivable, and only once it is committed:
\* the duplicate-key branch of CreateInTx never swallows a debt.
ReceivablePerReservation ==
  \A i \in 1..Len(receivables) :
    /\ res[receivables[i].id].status = "committed"
    /\ \A j \in 1..Len(receivables) : receivables[i].id = receivables[j].id => i = j

\* A user who may not overdraw never has a negative wallet, though requests are
\* admitted on an estimate and settled at their actual cost.
BlockedNeverNegative == \A u \in BlockOverdraft : balance[u] >= 0

\* A request routed to a subscription_only group never touches the wallet.
SubscriptionOnlySparesWallet ==
  \A r \in ResIds :
    res[r].mode = "subscription_only" =>
      res[r].balanceAmount = 0 /\ consumed[r].bal = 0 /\ refunded[r] = 0

\* The operations implement the exactly-once promise of Reservation.tla.
Promise == INSTANCE Reservation WITH
             Requests <- ResIds,
             state <- [r \in ResIds |-> res[r].status],
             charge <- [r \in ResIds |-> Charge(r)]
SettlesLikeReservation == Promise!ReservationSpec
=============================================================================
