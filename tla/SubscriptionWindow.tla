------------------------- MODULE SubscriptionWindow -------------------------
(***************************************************************************)
(* One subscription of a user: the usage windows that billing charges      *)
(* requests to, and the writers of the same row that do not go through     *)
(* billing (extension, revocation, quota reset, the expiry checker).       *)
(*                                                                         *)
(* Billing reads and writes the row under its lock, so a transaction of    *)
(* billing is one step; CommitQuota takes its time before it.  The other   *)
(* writers read the row, and later write the columns they change.  Time    *)
(* and money are counted in units; the rate multiplier is 1.               *)
(***************************************************************************)
EXTENDS FiniteSetsExt, Sums

CONSTANTS
    NRequests,  \* how many reservations the user makes, each bound to the subscription
    Writers,    \* sessions of administrators, and the expiry checkers
    Scopes,     \* the windows: daily, weekly, monthly
    Period,     \* the length of each window
    Limit,      \* the limit of the subscription's group for each window
    Costs,      \* what a request may be estimated or found to cost
    StartsAt,   \* starts_at of the subscription
    Term,       \* how much an extension or a renewal adds
    Fenced,     \* whether writers check the entitlement revision
    MaxTime,    \* bound: the last unit of time
    MaxEdits    \* bound: how many extensions, revocations and resets begin

ASSUME WindowAssumption ==
    /\ NRequests \in Nat
    /\ Scopes # {}
    /\ Period \in [Scopes -> Nat \ {0}]
    /\ Limit \in [Scopes -> Nat]
    /\ Costs \subseteq Nat
    /\ StartsAt \in Nat \ {0} /\ Term \in Nat \ {0}
    /\ Fenced \in BOOLEAN
    /\ MaxTime \in Nat /\ MaxEdits \in Nat

VARIABLES
    now,        \* the clock of every process
    sub,        \* the row of user_subscriptions
    res,        \* the rows of billing_reservations
    called,     \* the time the running CommitQuota of a reservation took, or 0
    held,       \* what each writer has read and is about to write
    edits,      \* extensions, revocations and resets begun
    disturbed   \* history: the windows in which, while they run, a reset has
                \* written or a commit that took its time before them

vars == <<now, sub, res, called, held, edits, disturbed>>

Requests == 1..NRequests

NoRow == [status |-> "none", amount |-> 0, snapshot |-> FALSE,
          win |-> [s \in Scopes |-> 0], charge |-> 0, at |-> 0]

\* `alignedWindowStart`: windows are anchored to starts_at
Aligned(s, t) == StartsAt + ((t - StartsAt) \div Period[s]) * Period[s]

Windows(t) == [s \in Scopes |-> Aligned(s, t)]

\* `RollUsageWindows`: a window that has ended starts again at zero; any other
\* start that is not aligned is aligned and keeps its usage
Roll(row, t) ==
  [row EXCEPT !.usage = [s \in Scopes |-> IF row.start[s] < Aligned(s, t)
                                          THEN 0 ELSE row.usage[s]],
              !.start = Windows(t)]

\* getActiveSubscriptionByUserInTx
Active == sub.status = "active" /\ sub.expires > now

Reserved(r) == res[r].status = "reserved"

\* the open reservations of R that were admitted in the window of time t
Frozen(s, t, R) ==
  LET Open == {r \in R : Reserved(r) /\ res[r].win[s] = Aligned(s, t)}
  IN  Total([r \in Requests |-> IF r \in Open THEN res[r].amount ELSE 0], NRequests)

\* mutant: open reservations do not count
RemainingOfUsage(s, R) == Limit[s] - Roll(sub, now).usage[s]

Remaining(s, R) ==
  LET used == Roll(sub, now).usage[s] + Frozen(s, now, R)
  IN  IF used < Limit[s] THEN Limit[s] - used ELSE 0

\* `ComputeAbsorbablePure`: the strictest window governs
Absorbable(R) == Min({Remaining(s, R) : s \in Scopes})

Larger(a, b) == IF a < b THEN b ELSE a

Init ==
  /\ now = StartsAt
  /\ sub = [status |-> "active", expires |-> StartsAt + Term, rev |-> 1,
            usage |-> [s \in Scopes |-> 0], start |-> [s \in Scopes |-> StartsAt]]
  /\ res = [r \in Requests |-> NoRow]
  /\ called = [r \in Requests |-> 0]
  /\ held = [w \in Writers |-> [op |-> "none"]]
  /\ edits = 0
  /\ disturbed = {}

-----------------------------------------------------------------------------
(* Billing *)

\* reserveQuotaDualTrack: the headroom of the locked row is absorbed, the rest
\* of the estimate is the wallet's
Reserve(r, cost, snapshot) ==
  /\ res[r].status = "none" /\ Active
  /\ res' = [res EXCEPT ![r] =
              [NoRow EXCEPT !.status = "reserved", !.snapshot = snapshot,
                            !.amount = MinOf(cost, Absorbable(Requests)),
                            !.win = Windows(now)]]
  /\ UNCHANGED <<now, sub, called, held, edits, disturbed>>

\* commitQuotaDualTrack takes the time of the usage write before its transaction
CallCommit(r) ==
  /\ Reserved(r) /\ called[r] = 0
  /\ called' = [called EXCEPT ![r] = now]
  /\ UNCHANGED <<now, sub, res, held, edits, disturbed>>

\* what a request that cost more than its reservation may absorb besides: with
\* a snapshot only while all its windows still run
MayAbsorbMore(r) == Active /\ (res[r].snapshot => res[r].win = Windows(now))

\* mutant: the reserved part is taken to be counted already
AbsorbsDelta(r, cost) == cost - res[r].amount

\* frozenSubscriptionAbsorbUSD and commitSubscriptionAbsorbUSD; the reservation
\* itself is "committing" by now, and not in the sum of the reserved ones
Absorbs(r, cost) ==
  IF cost <= res[r].amount \/ ~MayAbsorbMore(r)
  THEN MinOf(cost, res[r].amount)
  ELSE MinOf(cost, Larger(res[r].amount, Absorbable(Requests \ {r})))

\* AddFrozenUsageInTx: a charge admitted in an earlier window counts in this one
AddFrozenUsage(row, win, charge, at) ==
  LET rolled == Roll(row, at)
  IN  [rolled EXCEPT !.usage = [s \in Scopes |->
         rolled.usage[s] + IF win[s] <= rolled.start[s] THEN charge ELSE 0]]

\* mutant: the charge goes to the window that has ended
AddUsageUnrolled(row, charge, at) ==
  [row EXCEPT !.usage = [s \in Scopes |-> row.usage[s] + charge]]

\* addUsageByIDInTxDB, for reservations without a snapshot
AddUsageByID(row, charge, at) ==
  LET rolled == Roll(row, at)
  IN  [rolled EXCEPT !.usage = [s \in Scopes |-> rolled.usage[s] + charge]]

\* the transaction of commitQuotaDualTrack, as far as the subscription goes
Commit(r, cost) ==
  LET charge == Absorbs(r, cost)
      at == called[r]
  IN  /\ Reserved(r) /\ at # 0
      /\ sub' = IF res[r].snapshot THEN AddFrozenUsage(sub, res[r].win, charge, at)
                                   ELSE AddUsageByID(sub, charge, at)
      /\ res' = [res EXCEPT ![r].status = "committed", ![r].charge = charge, ![r].at = at]
      /\ called' = [called EXCEPT ![r] = 0]
      /\ disturbed' = disturbed \cup {s \in Scopes : Aligned(s, at) # Aligned(s, now)}
      /\ UNCHANGED <<now, held, edits>>

\* releaseReservation: the status alone frees the headroom
Release(r) ==
  /\ Reserved(r)
  /\ res' = [res EXCEPT ![r].status = "released"]
  /\ called' = [called EXCEPT ![r] = 0]
  /\ UNCHANGED <<now, sub, held, edits, disturbed>>

-----------------------------------------------------------------------------
(* The other writers of the row *)

Edit == edits < MaxEdits /\ edits' = edits + 1

Bump(row) == IF Fenced THEN [row EXCEPT !.rev = @ + 1] ELSE row

\* every one of them reads the row without a lock, or lists the active ones
ReadRow(w, op, what) ==
  /\ held[w].op = "none"
  /\ held' = [held EXCEPT ![w] = [op |-> op, row |-> sub, at |-> now, what |-> what]]
  /\ UNCHANGED <<now, sub, res, called, disturbed>>

ReadToExtend(w) == sub.status # "revoked" /\ Edit /\ ReadRow(w, "extend", {})
ReadToRevoke(w) == sub.status # "revoked" /\ Edit /\ ReadRow(w, "revoke", {})

ReadToReset(w) ==
  \E what \in {{s} : s \in Scopes} \cup {Scopes} : Edit /\ ReadRow(w, "reset", what)

\* SubscriptionExpiryChecker.Tick
ReadToExpire(w) ==
  /\ sub.status = "active" /\ sub.expires <= now
  /\ UNCHANGED edits
  /\ ReadRow(w, "expire", {})

\* the columns each of them writes, and the values it puts there
Written(job) ==
  CASE job.op = "extend" ->
         [sub EXCEPT !.expires = job.at + Term,
                     !.status = IF job.row.status = "expired" THEN "active" ELSE @]
    [] job.op = "revoke" -> [sub EXCEPT !.status = "revoked"]
    [] job.op = "expire" -> [sub EXCEPT !.status = "expired"]
    [] job.op = "reset"  ->
         [sub EXCEPT !.usage = [s \in Scopes |-> IF s \in job.what THEN 0 ELSE job.row.usage[s]],
                     !.start = [s \in Scopes |-> IF s \in job.what THEN job.at ELSE job.row.start[s]]]

\* mutant: the last writer wins
ConflictsNever(job) == FALSE

\* subscriptionMutation: with entitlements, for a contract, or under an IAM
\* scope, a row that was written since is a conflict; usage writes do not count
Conflicts(job) == Fenced /\ job.row.rev # sub.rev

WriteRow(w) ==
  LET job == held[w]
  IN  /\ job.op # "none"
      /\ held' = [held EXCEPT ![w] = [op |-> "none"]]
      /\ \/ /\ Conflicts(job)
            /\ UNCHANGED <<sub, disturbed>>
         \/ /\ ~Conflicts(job)
            /\ sub' = Bump(Written(job))
            /\ disturbed' = IF job.op = "reset" THEN Scopes ELSE disturbed
      /\ UNCHANGED <<now, res, called, edits>>

\* AssignOrExtendInTx, in the transaction that marks an order paid
Renew ==
  /\ Active /\ Edit
  /\ sub' = Bump([sub EXCEPT !.expires = Larger(@, now) + Term])
  /\ UNCHANGED <<now, res, called, held, disturbed>>

\* RevokeInTx and ShortenInTx, in the transaction of a refund
RevokeInTx ==
  /\ sub.status # "revoked" /\ Edit
  /\ sub' = Bump([sub EXCEPT !.status = "revoked"])
  /\ UNCHANGED <<now, res, called, held, disturbed>>

ShortenInTx ==
  /\ sub.status # "revoked" /\ Edit
  /\ sub' = Bump([sub EXCEPT !.expires = IF @ < now + Term THEN now ELSE @ - Term])
  /\ UNCHANGED <<now, res, called, held, disturbed>>

Tick ==
  /\ now < MaxTime /\ now' = now + 1
  /\ disturbed' = {s \in disturbed : Aligned(s, now') = Aligned(s, now)}
  /\ UNCHANGED <<sub, res, called, held, edits>>

Next ==
  \/ \E r \in Requests :
       \/ \E c \in Costs, snapshot \in BOOLEAN : Reserve(r, c, snapshot)
       \/ CallCommit(r)
       \/ \E c \in Costs : Commit(r, c)
       \/ Release(r)
  \/ \E w \in Writers :
       \/ ReadToExtend(w) \/ ReadToRevoke(w) \/ ReadToReset(w) \/ ReadToExpire(w)
       \/ WriteRow(w)
  \/ Renew \/ RevokeInTx \/ ShortenInTx
  \/ Tick

Spec == Init /\ [][Next]_vars

-----------------------------------------------------------------------------
Statuses == {"active", "expired", "revoked"}

Row == [status : Statuses, expires : Nat, rev : Nat,
        usage : [Scopes -> Nat], start : [Scopes -> Nat]]

\* Type invariant.
TypeOK ==
  /\ now \in StartsAt..Larger(MaxTime, StartsAt)
  /\ sub \in Row
  /\ res \in [Requests -> [status : {"none", "reserved", "committed", "released"},
                           amount : Nat, snapshot : BOOLEAN, win : [Scopes -> Nat],
                           charge : Nat, at : Nat]]
  /\ called \in [Requests -> Nat]
  /\ \A w \in Writers :
       \/ held[w] = [op |-> "none"]
       \/ held[w] \in [op : {"extend", "revoke", "reset", "expire"}, row : Row,
                       at : Nat, what : SUBSET Scopes]
  /\ edits \in 0..MaxEdits /\ disturbed \subseteq Scopes

\* what the current window was charged by the requests of R
Charged(s, R) ==
  LET Counted == {r \in R : /\ res[r].status = "committed"
                            /\ Aligned(s, res[r].at) = Aligned(s, now)}
  IN  Total([r \in Requests |-> IF r \in Counted THEN res[r].charge ELSE 0], NRequests)

\* the requests that an earlier window had admitted
Earlier(s) == {r \in Requests : res[r].win[s] # Aligned(s, now)}

\* Concurrent requests do not oversell a window: what requests have been
\* charged to it and what open reservations hold is within the limit, but for
\* requests that an earlier window had admitted (LockSubscriptionRow "so the
\* absorber check cannot oversell the daily/weekly/monthly window").
\* This is so in a window that no reset has written in and no commit from an
\* earlier one; in the others the code does oversell, as requests are admitted
\* by the usage of the row, and either write loses charges.  A session reads
\* the row for a daily reset, a request is charged 2 and the reset puts the
\* weekly 0 that it read back: a week of 3 is promised 4.  A commit that took
\* its time before the end of a day takes the row back to that day, and what
\* the new day was charged is forgotten with the next roll.
NotOversold ==
  \A s \in Scopes \ disturbed :
    Charged(s, Requests) + Frozen(s, now, Requests) <= Limit[s] + Charged(s, Earlier(s))

\* A window never counts more than it was charged; and exactly that, unless a
\* reset or a commit from an earlier window has written in it.
UsageCounted ==
  \A s \in Scopes :
    LET usage == Roll(sub, now).usage[s]
    IN  /\ usage <= Charged(s, Requests)
        /\ s \notin disturbed => usage = Charged(s, Requests)

\* "Each charge increments exactly once" and "the admitted spend counts against
\* the new window so its limits reflect reality" (AddFrozenUsageInTx): what a
\* window was charged is what it counts.
\* The code does not keep this when a commit
\* straddles the end of a window, or beside a reset; so no run checks it.
ChargesCounted == \A s \in Scopes : Roll(sub, now).usage[s] = Charged(s, Requests)

\* Where writers check the entitlement revision (Fenced: with
\* SUBSCRIPTION_ENTITLEMENTS_V2, for a contract, or under an IAM scope; a default
\* deployment has none of them, and there this does not hold), a write from an
\* old read undoes no newer decision on status and expiry: a revoked
\* subscription stays revoked, and one that was extended in time is not marked
\* expired.  Of the usage nothing is said: a reset writes back what it read of
\* the windows it does not name.
StatusStands ==
  [][/\ sub.status = "revoked" => sub'.status = "revoked"
     /\ sub'.status = "expired" => sub'.expires <= now']_vars
=============================================================================
