------------------------------ MODULE Payment ------------------------------
(***************************************************************************)
(* Payment orders of the billing service: how an order is created and      *)
(* gets its pay URL, how the provider's answer reaches it (the callback,   *)
(* a user's read, a repeated creation, the reconciliation job), how the    *)
(* asset is issued in the transaction that marks it paid, and how a        *)
(* subscription order is refunded.                                         *)
(*                                                                         *)
(* A database transaction, and a statement outside one, is one step; a     *)
(* call to the provider lies between steps, so everything else may happen  *)
(* while it runs.  An order stands for its trade_no, which a repeated call *)
(* of CreateOrder derives again from the user and the request id; its      *)
(* number stands for the row's id.  The provider is external: it is        *)
(* modelled by what the code relies on.                                    *)
(***************************************************************************)
EXTENDS Naturals, Sequences, FiniteSets

CONSTANTS
    Orders,         \* payment orders, by row id
    Wechat,         \* the orders of the channel "wechat"; the others are "alipay"
    Subscription,   \* the orders that buy a subscription; the others a balance
    Group,          \* the subscription group of each subscription order
    Callers,        \* requests in flight in the replicas of the service
    Job,            \* the reconciliation job of one replica
    Limit,          \* how many rows one pass of the job reads
    MaxCalls,       \* bound: how many calls each caller makes
    MaxFaults       \* bound: failed provider calls, failed writes and deaths

ASSUME PaymentAssumption ==
    /\ Orders \subseteq Nat \ {0} /\ IsFiniteSet(Orders)
    /\ Wechat \subseteq Orders
    /\ Subscription \subseteq Orders \ Wechat
    /\ Job \notin Callers
    /\ Limit \in Nat \ {0}
    /\ MaxCalls \in [Callers -> Nat]
    /\ MaxFaults \in Nat

VARIABLES
    row,        \* payment_orders: the row of each order
    subs,       \* user_subscriptions of the user, in the order of their ids
    topups,     \* ledger rows `topup:{user}:payment:{trade_no}`
    refunds,    \* the refund ledger rows of each order, by policy
    prov,       \* what the provider holds of each order
    late,       \* prepay requests whose caller no longer waits
    expired,    \* the orders older than wechatOrderTTL
    handed,     \* the pay URLs each order's users were given
    loc,        \* what each caller and the job are doing
    calls,      \* calls each caller has left
    todo,       \* the orders the job's current pass has still to refresh
    cursor,     \* reconcileAfterID
    faults      \* faults left

service == <<loc, calls, todo, cursor, faults>>
provider == <<prov, late, expired>>
ledger == <<subs, topups, refunds>>
vars == <<row, ledger, provider, handed, service>>

Procs == Callers \cup {Job}
Policies == {"revoke", "shorten", "keep"}

\* A claim marker, and the URL the claimed call obtains: both new in each call,
\* so that `HandedUrlStands` tells a URL from the one of another call.
Token == UNION {{p} \X (0..MaxCalls[p]) : p \in Callers}
NoToken == <<>>

-----------------------------------------------------------------------------
(* The row and its transactions. *)

NoRow == [status |-> "none", url |-> NoToken, claim |-> NoToken,
          live |-> FALSE, sub |-> 0]
NewRow == [NoRow EXCEPT !.status = "pending"]

Exists(o) == row[o].status # "none"

\* The subscription a grant of the group goes to: the active one, if any.
Active == {s \in DOMAIN subs : subs[s].status = "active"}

\* A subscription of another group makes the grant, and its transaction, fail.
Conflicts(o) == \E s \in Active : subs[s].group # Group[o]

\* How many times each order's validity went into a subscription.
NoTerms == [o \in Subscription |-> 0]

\* AssignOrExtendInTx: extends the active subscription in place, or opens one.
Assign(o) ==
    IF Active = {}
    THEN /\ subs' = Append(subs, [group |-> Group[o], status |-> "active",
                                  terms |-> [NoTerms EXCEPT ![o] = 1]])
         /\ row' = [row EXCEPT ![o].status = "paid", ![o].sub = Len(subs) + 1]
    ELSE \E s \in Active :
            /\ subs' = [subs EXCEPT ![s].terms[o] = @ + 1]
            /\ row' = [row EXCEPT ![o].status = "paid", ![o].sub = s]

\* the issue decided by what the caller read before
PaidUnchecked(o) == IF o \in Subscription THEN ~Conflicts(o) ELSE o \notin topups
\* MarkOrderPaid: re-reads the row under its lock; issues only what is pending.
CanBePaid(o) ==
    /\ row[o].status = "pending"
    /\ IF o \in Subscription THEN ~Conflicts(o) ELSE o \notin topups

Issue(o) ==
    IF o \in Subscription
    THEN Assign(o) /\ UNCHANGED <<topups, refunds>>
    ELSE /\ topups' = topups \cup {o}
         /\ row' = [row EXCEPT ![o].status = "paid"]
         /\ UNCHANGED <<subs, refunds>>

MarkPaid(o) ==
    IF CanBePaid(o) THEN Issue(o) ELSE UNCHANGED <<row, ledger>>

\* MarkOrderClosed: only a pending row closes.
MarkClosed(o) ==
    /\ row' = IF row[o].status = "pending"
              THEN [row EXCEPT ![o].status = "closed"] ELSE row
    /\ UNCHANGED ledger

-----------------------------------------------------------------------------
(* The calls: their control state, and how they end. *)

Idle == [pc |-> "idle", kind |-> "none", order |-> 0, seen |-> NoToken,
         answer |-> "none"]

At(p, pc) == loc[p].pc = pc
Goto(p, pc) == loc' = [loc EXCEPT ![p].pc = pc]
Order(p) == loc[p].order
MyToken(p) == <<p, calls[p]>>

\* A fault spends one unit of the bound.
Fault == faults > 0 /\ faults' = faults - 1

Given(o, url) ==
    IF url = NoToken THEN handed ELSE [handed EXCEPT ![o] = @ \cup {url}]

\* The call answers its user with an order that shows `url`; the job has none.
Return(p, url) ==
    /\ loc' = [loc EXCEPT ![p] = Idle]
    /\ handed' = IF p = Job THEN handed ELSE Given(Order(p), url)

\* reusePaymentOrder: a pending wechat order without a URL is queried first.
Reuse(p, o) ==
    IF o \in Wechat /\ row[o].status = "pending" /\ row[o].url = NoToken
    THEN /\ loc' = [loc EXCEPT ![p] = [Idle EXCEPT !.pc = "query",
                                       !.kind = "reuse", !.order = o]]
         /\ UNCHANGED handed
    ELSE /\ loc' = [loc EXCEPT ![p] = Idle]
         /\ handed' = Given(o, row[o].url)

\* CreateOrder, up to the lookup by trade_no.
Create(p, o) ==
    /\ At(p, "idle") /\ calls[p] > 0
    /\ calls' = [calls EXCEPT ![p] = @ - 1]
    /\ IF Exists(o) THEN Reuse(p, o)
       ELSE /\ loc' = [loc EXCEPT ![p] = [Idle EXCEPT !.pc = "insert",
                                          !.kind = "create", !.order = o]]
            /\ UNCHANGED handed
    /\ UNCHANGED <<row, ledger, provider, todo, cursor, faults>>

\* The insert decides between concurrent creations by the unique trade_no.
Insert(p) ==
    /\ At(p, "insert")
    /\ IF Exists(Order(p))
       THEN Goto(p, "reread") /\ UNCHANGED row
       ELSE /\ row' = [row EXCEPT ![Order(p)] = NewRow]
            /\ Goto(p, IF Order(p) \in Wechat THEN "claim" ELSE "prepay")
    /\ UNCHANGED <<ledger, provider, handed, calls, todo, cursor, faults>>

\* The loser returns the winner's row, unless it has been removed.
Reread(p) ==
    /\ At(p, "reread")
    /\ IF Exists(Order(p)) THEN Reuse(p, Order(p)) ELSE Return(p, NoToken)
    /\ UNCHANGED <<row, ledger, provider, calls, todo, cursor, faults>>

\* GetOrderByTradeNo of a user: a pending order is refreshed from the provider.
Read(p, o) ==
    /\ At(p, "idle") /\ calls[p] > 0 /\ Exists(o)
    /\ calls' = [calls EXCEPT ![p] = @ - 1]
    /\ IF row[o].status = "pending"
       THEN /\ loc' = [loc EXCEPT ![p] = [Idle EXCEPT !.pc = "query",
                             !.kind = "read", !.order = o, !.seen = row[o].url]]
            /\ UNCHANGED handed
       ELSE handed' = Given(o, row[o].url) /\ UNCHANGED loc
    /\ UNCHANGED <<row, ledger, provider, todo, cursor, faults>>

-----------------------------------------------------------------------------
(* createProviderOrder. *)

\* ClaimProviderOrder, its read: nothing to do, somebody else's live claim, or
\* a marker to replace.
ClaimRead(p) ==
    LET r == row[Order(p)] IN
    /\ At(p, "claim")
    /\ IF r.status # "pending" \/ r.url # NoToken \/ r.live
       THEN Return(p, r.url)
       ELSE /\ loc' = [loc EXCEPT ![p].pc = "claiming", ![p].seen = r.claim]
            /\ UNCHANGED handed
    /\ UNCHANGED <<row, ledger, provider, calls, todo, cursor, faults>>

\* ClaimProviderOrder, its update: only over the marker that was read.
ClaimWrite(p) ==
    LET r == row[Order(p)] IN
    /\ At(p, "claiming")
    /\ IF r.status = "pending" /\ r.url = NoToken /\ r.claim = loc[p].seen
       THEN /\ row' = [row EXCEPT ![Order(p)].claim = MyToken(p),
                                  ![Order(p)].live = TRUE]
            /\ Goto(p, "prepay")
       ELSE Goto(p, "answer") /\ UNCHANGED row
    /\ UNCHANGED <<ledger, provider, handed, calls, todo, cursor, faults>>

\* The provider's CreateOrder.  Alipay's signs a URL locally; if it cannot, the
\* placeholder row is removed.  Wechat's refuses an order past its TTL.
Prepay(p) ==
    LET o == Order(p) IN
    /\ At(p, "prepay")
    /\ \/ /\ o \in Wechat
          /\ IF o \in expired THEN Return(p, NoToken)
             ELSE Goto(p, "prepaying") /\ UNCHANGED handed
          /\ UNCHANGED <<row, faults>>
       \/ /\ o \notin Wechat
          /\ Goto(p, "attach")
          /\ UNCHANGED <<row, handed, faults>>
       \/ /\ o \notin Wechat /\ Fault
          /\ row' = IF row[o].status = "pending"
                    THEN [row EXCEPT ![o] = NoRow] ELSE row
          /\ Return(p, NoToken)
    /\ UNCHANGED <<ledger, provider, calls, todo, cursor>>

\* Wechat takes a prepay request until it has expired or come to an end.
TakesPrepay(o) == prov[o] \in {"unknown", "unpaid"} /\ o \notin expired

PrepayAnswered(p) ==
    /\ At(p, "prepaying")
    /\ IF TakesPrepay(Order(p))
       THEN /\ prov' = [prov EXCEPT ![Order(p)] = "unpaid"]
            /\ Goto(p, "attach") /\ UNCHANGED handed
       ELSE Return(p, NoToken) /\ UNCHANGED prov
    /\ UNCHANGED <<row, ledger, late, expired, calls, todo, cursor, faults>>

\* The call times out: the order is kept, and the request may still arrive.
PrepayTimeout(p) ==
    /\ At(p, "prepaying") /\ Fault
    /\ late' = late \cup {Order(p)}
    /\ Return(p, NoToken)
    /\ UNCHANGED <<row, ledger, prov, expired, calls, todo, cursor>>

\* the result attached whoever holds the claim
AttachUnfenced(p) == row[Order(p)].status = "pending"
\* AttachProviderResult: a pending row only, and for wechat only under the claim.
CanAttach(p) ==
    LET o == Order(p) IN
    /\ row[o].status = "pending"
    /\ o \in Wechat => row[o].claim = MyToken(p)

Attach(p) ==
    /\ At(p, "attach")
    /\ \/ /\ row' = IF CanAttach(p)
                    THEN [row EXCEPT ![Order(p)].url = MyToken(p),
                                     ![Order(p)].claim = NoToken,
                                     ![Order(p)].live = FALSE]
                    ELSE row
          /\ Goto(p, "answer") /\ UNCHANGED <<handed, faults>>
       \/ Fault /\ Return(p, NoToken) /\ UNCHANGED row
    /\ UNCHANGED <<ledger, provider, calls, todo, cursor>>

\* The row is read again, and answered with.
Answer(p) ==
    /\ At(p, "answer")
    /\ Return(p, row[Order(p)].url)
    /\ UNCHANGED <<row, ledger, provider, calls, todo, cursor, faults>>

-----------------------------------------------------------------------------
(* refreshProviderStatus and reusePaymentOrder. *)

\* an order wechat never heard of stays open
StatusUnaged(o) == IF prov[o] # "unknown" THEN prov[o] ELSE "missing"
\* What a query answers.  Alipay does not know a trade nobody opened; wechat's
\* ORDER_NOT_EXIST counts as closed once the order is past its TTL.
Status(o) ==
    IF prov[o] # "unknown" THEN prov[o]
    ELSE IF o \in Wechat /\ o \in expired THEN "closed" ELSE "missing"

\* A query that fails: reuse answers with the order, read with an error.
QueryFails(p) ==
    Fault /\ Return(p, IF loc[p].kind = "read" THEN NoToken ELSE loc[p].seen)

Query(p) ==
    LET o == Order(p) IN
    /\ At(p, "query")
    /\ \/ /\ IF o \in Wechat /\ Status(o) = "unpaid" /\ o \in expired
             THEN Goto(p, "close")
             ELSE loc' = [loc EXCEPT ![p].pc = "apply", ![p].answer = Status(o)]
          /\ UNCHANGED <<handed, faults>>
       \/ QueryFails(p)
    /\ UNCHANGED <<row, ledger, provider, calls, todo, cursor>>

\* the order taken as closed once CloseOrder was called
CloseUnverified(p) ==
    /\ At(p, "close")
    /\ prov' = [prov EXCEPT ![Order(p)] = IF @ = "unpaid" THEN "closed" ELSE @]
    /\ loc' = [loc EXCEPT ![p].pc = "apply", ![p].answer = "closed"]
    /\ UNCHANGED <<row, ledger, late, expired, handed, calls, todo, cursor, faults>>
\* CloseOrder of an unpaid order past its TTL; its own result is ignored.
CloseCall(p) ==
    /\ At(p, "close")
    /\ \/ /\ prov' = [prov EXCEPT ![Order(p)] = IF @ = "unpaid" THEN "closed" ELSE @]
          /\ UNCHANGED faults
       \/ Fault /\ UNCHANGED prov
    /\ Goto(p, "requery")
    /\ UNCHANGED <<row, ledger, late, expired, handed, calls, todo, cursor>>

\* "A payment may win the close race; only a second signed query settles it."
Requery(p) ==
    /\ At(p, "requery")
    /\ \/ /\ loc' = [loc EXCEPT ![p].pc = "apply", ![p].answer = Status(Order(p))]
          /\ UNCHANGED <<handed, faults>>
       \/ QueryFails(p)
    /\ UNCHANGED <<row, ledger, provider, calls, todo, cursor>>

\* The transaction's order, or its error when the row is in another status.
Shown(o, good) == IF row'[o].status \in good THEN row[o].url ELSE NoToken

\* applyProviderStatus; reusePaymentOrder then prepays an unpaid order again.
Apply(p) ==
    LET o == Order(p) IN
    /\ At(p, "apply")
    /\ CASE loc[p].answer = "paid" ->
              MarkPaid(o) /\ Return(p, Shown(o, {"paid"}))
         [] loc[p].answer = "closed" ->
              MarkClosed(o) /\ Return(p, Shown(o, {"paid", "closed"}))
         [] OTHER ->
              /\ IF loc[p].kind = "reuse"
                 THEN Goto(p, "claim") /\ UNCHANGED handed
                 ELSE Return(p, loc[p].seen)
              /\ UNCHANGED <<row, ledger>>
    /\ UNCHANGED <<provider, calls, todo, cursor, faults>>

-----------------------------------------------------------------------------
(* ReconcilePendingOrders. *)

Smallest(S, n) == {o \in S : Cardinality({x \in S : x < o}) < n}
Largest(S) == CHOOSE o \in S : \A x \in S : x <= o
Due == {o \in Orders : row[o].status = "pending" /\ o > cursor}

\* a cursor that does not start over
CursorStays(batch) == IF batch = {} THEN cursor ELSE Largest(batch)
\* A full batch moves the cursor past it; a short one starts over.
NextCursor(batch) == IF Cardinality(batch) < Limit THEN 0 ELSE Largest(batch)

JobList ==
    LET batch == Smallest(Due, Limit) IN
    /\ At(Job, "idle") /\ todo = {}
    /\ todo' = batch
    /\ cursor' = NextCursor(batch)
    /\ UNCHANGED <<row, ledger, provider, handed, loc, calls, faults>>

JobTake ==
    /\ At(Job, "idle") /\ todo # {}
    /\ \E o \in Smallest(todo, 1) :
        /\ loc' = [loc EXCEPT ![Job] = [Idle EXCEPT !.pc = "query",
                                        !.kind = "job", !.order = o]]
        /\ todo' = todo \ {o}
    /\ UNCHANGED <<row, ledger, provider, handed, calls, cursor, faults>>

-----------------------------------------------------------------------------
(* The provider, the payer, the administrator, time and deaths. *)

\* AcceptVerifiedNotify: the signed callback of a paid order, once or many times.
Notify(o) ==
    /\ prov[o] = "paid"
    /\ MarkPaid(o)
    /\ UNCHANGED <<provider, handed, service>>

LatePrepay(o) ==
    /\ o \in late
    /\ late' = late \ {o}
    /\ prov' = IF TakesPrepay(o) THEN [prov EXCEPT ![o] = "unpaid"] ELSE prov
    /\ UNCHANGED <<row, ledger, expired, handed, service>>

\* A user with a URL pays; an alipay trade begins when the URL is opened.
Payable(o) ==
    /\ handed[o] # {}
    /\ prov[o] = IF o \in Wechat THEN "unpaid" ELSE "unknown"

Pay(o) ==
    /\ Payable(o)
    /\ prov' = [prov EXCEPT ![o] = "paid"]
    /\ UNCHANGED <<row, ledger, late, expired, handed, service>>

\* The provider gives an unpaid order up by itself.
GiveUp(o) ==
    /\ Payable(o)
    /\ prov' = [prov EXCEPT ![o] = "closed"]
    /\ UNCHANGED <<row, ledger, late, expired, handed, service>>

\* wechatOrderTTL after the order's creation.
Expire(o) ==
    /\ o \in Wechat \ expired /\ Exists(o)
    /\ expired' = expired \cup {o}
    /\ UNCHANGED <<row, ledger, prov, late, handed, service>>

\* prepay_until of the claim passes.
ClaimLapses(o) ==
    /\ row[o].live
    /\ row' = [row EXCEPT ![o].live = FALSE]
    /\ UNCHANGED <<ledger, provider, handed, service>>

SubscriptionExpires(s) ==
    /\ subs[s].status = "active"
    /\ subs' = [subs EXCEPT ![s].status = "expired"]
    /\ UNCHANGED <<row, topups, refunds, provider, handed, service>>

\* the user's current subscription instead
RefundCurrent(o) == IF Active = {} THEN row[o].sub ELSE CHOOSE s \in Active : TRUE
\* applySubscriptionReversal, on the subscription the order is stamped with.
RefundTarget(o) == row[o].sub

Reverse(o, policy) ==
    LET s == RefundTarget(o) IN
    CASE policy = "keep" -> UNCHANGED subs
      [] policy = "shorten" ->
            /\ subs[s].status # "revoked"
            /\ subs' = [subs EXCEPT ![s].terms[o] = IF @ > 0 THEN @ - 1 ELSE 0]
      [] policy = "revoke" -> subs' = [subs EXCEPT ![s].status = "revoked"]

\* RefundSubscriptionOrder: wallet credit, ledger row, subscription and status
\* in one transaction, for a paid subscription order.
Refund(o, policy) ==
    /\ o \in Subscription
    /\ row[o].status = "paid"
    /\ Reverse(o, policy)
    /\ refunds' = [refunds EXCEPT ![o] = Append(@, policy)]
    /\ row' = [row EXCEPT ![o].status = "refunded"]
    /\ UNCHANGED <<topups, provider, handed, service>>

\* A process dies with the call; the job's cursor was in its memory.
Die(p) ==
    /\ loc[p] # Idle \/ (p = Job /\ cursor # 0)
    /\ Fault
    /\ loc' = [loc EXCEPT ![p] = Idle]
    /\ late' = IF At(p, "prepaying") THEN late \cup {Order(p)} ELSE late
    /\ todo' = IF p = Job THEN {} ELSE todo
    /\ cursor' = IF p = Job THEN 0 ELSE cursor
    /\ UNCHANGED <<row, ledger, prov, expired, handed, calls>>

-----------------------------------------------------------------------------
Init ==
    /\ row = [o \in Orders |-> NoRow]
    /\ subs = <<>>
    /\ topups = {}
    /\ refunds = [o \in Subscription |-> <<>>]
    /\ prov = [o \in Orders |-> "unknown"]
    /\ late = {}
    /\ expired = {}
    /\ handed = [o \in Orders |-> {}]
    /\ loc = [p \in Procs |-> Idle]
    /\ calls = MaxCalls
    /\ todo = {}
    /\ cursor = 0
    /\ faults = MaxFaults

Creation(p) ==
    \/ \E o \in Orders : Create(p, o)
    \/ Insert(p) \/ Reread(p) \/ ClaimRead(p) \/ ClaimWrite(p) \/ Prepay(p)
    \/ PrepayAnswered(p) \/ PrepayTimeout(p) \/ Attach(p) \/ Answer(p)

Refresh(p) == Query(p) \/ CloseCall(p) \/ Requery(p) \/ Apply(p)

JobStep == JobList \/ JobTake \/ Refresh(Job)

Next ==
    \/ \E p \in Callers : Creation(p) \/ Refresh(p) \/ \E o \in Orders : Read(p, o)
    \/ JobStep
    \/ \E o \in Orders : \/ Notify(o) \/ LatePrepay(o) \/ Pay(o) \/ GiveUp(o)
                         \/ Expire(o) \/ ClaimLapses(o)
    \/ \E s \in DOMAIN subs : SubscriptionExpires(s)
    \/ \E o \in Orders, policy \in Policies : Refund(o, policy)
    \/ \E p \in Procs : Die(p)

Spec == Init /\ [][Next]_vars

\* The job's ticker keeps running in a live replica; nothing else is owed.
FairSpec == Spec /\ WF_vars(JobStep)

-----------------------------------------------------------------------------
(* Properties. *)

Statuses == {"none", "pending", "paid", "closed", "refunded"}
Controls == {"idle", "insert", "reread", "claim", "claiming", "prepay", "prepaying",
             "attach", "answer", "query", "close", "requery", "apply"}
Answers == {"none", "missing", "unpaid", "paid", "closed"}
Tokens == Token \cup {NoToken}

Call == [pc : Controls, order : Orders \cup {0}, seen : Tokens,
         kind : {"none", "create", "reuse", "read", "job"}, answer : Answers]
SubscriptionRow == [group : {Group[o] : o \in Subscription},
                    status : {"active", "expired", "revoked"},
                    terms : [Subscription -> Nat]]

RowsOK ==
    /\ row \in [Orders -> [status : Statuses, url : Tokens, claim : Tokens,
                           live : BOOLEAN, sub : Nat]]
    /\ subs \in Seq(SubscriptionRow)
    /\ topups \subseteq Orders \ Subscription
    /\ refunds \in [Subscription -> Seq(Policies)]

ProviderOK ==
    /\ prov \in [Orders -> {"unknown", "unpaid", "paid", "closed"}]
    /\ late \subseteq Wechat /\ expired \subseteq Wechat
    /\ handed \in [Orders -> SUBSET Token]

CallsOK ==
    /\ loc \in [Procs -> Call]
    /\ calls \in [Callers -> Nat] /\ \A p \in Callers : calls[p] <= MaxCalls[p]
    /\ todo \subseteq Orders /\ cursor \in Orders \cup {0}
    /\ faults \in 0..MaxFaults

\* The types of the rows, of the provider's state and of the calls; and no more
\* subscriptions than orders that buy one.
TypeOK ==
    /\ RowsOK /\ ProviderOK /\ CallsOK
    /\ Len(subs) <= Cardinality(Subscription)

Settled(o) == row[o].status \in {"paid", "refunded"}
Refunded(o, policy) == o \in Subscription /\ refunds[o] = <<policy>>

\* Whatever callbacks, reads, repeated creations and the job do at the same
\* time, an order's asset is issued exactly when its row is paid, once, into
\* the subscription it is stamped with, and only for money the provider has
\* (MarkOrderPaid: "a replayed payment callback cannot double-credit").
IssuedOnceForPayment ==
    \A o \in Orders :
        /\ Settled(o) => prov[o] = "paid"
        /\ o \notin Subscription => (o \in topups <=> Settled(o))
        /\ o \in Subscription => \A s \in DOMAIN subs :
              subs[s].terms[o] =
                 IF s = row[o].sub /\ ~Refunded(o, "shorten") THEN 1 ELSE 0

\* An order the service has closed is never paid at the provider: a late
\* payment would find no order that can be marked paid (QueryOrder closes and
\* queries a second time).
ClosedIsNeverPaid == \A o \in Orders : row[o].status = "closed" => prov[o] # "paid"

\* Every user who was given a pay URL for an order was given the one that the
\* row holds, for good: a slow creation whose claim another took over does not
\* replace it (ClaimProviderOrder, AttachProviderResult).
HandedUrlStands == \A o \in Orders : handed[o] \subseteq {row[o].url}

\* A refund is credited once, and takes back the time of the order it refunds,
\* also when the user has bought another subscription since.
RefundTakesOwnTime ==
    \A o \in Subscription :
        /\ Len(refunds[o]) = IF row[o].status = "refunded" THEN 1 ELSE 0
        /\ Refunded(o, "revoke") => \A s \in DOMAIN subs :
              subs[s].terms[o] > 0 => subs[s].status = "revoked"

\* "so refunding an old order after the user bought a new subscription revokes
\* the right one" (refund.go:363): a paid order keeps its subscription when
\* another order is refunded.  It does not: an order that extends the active
\* subscription is stamped with the same row.
RevokeSparesOthers ==
    \A o \in Subscription :
        row[o].status = "paid" => subs[row[o].sub].status # "revoked"

\* A payment is issued although every callback is lost, as long as the job runs
\* (ReconcilePendingOrders "actively converges provider callbacks that were
\* lost"), also behind more pending orders than one pass reads.
PaidIsIssued == \A o \in Orders : prov[o] = "paid" ~> Settled(o)

\* A wechat order past its TTL does not stay pending.
ExpiredEnds == \A o \in Wechat : o \in expired ~> row[o].status # "pending"
=============================================================================
