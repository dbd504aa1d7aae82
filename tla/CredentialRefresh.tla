-------------------------- MODULE CredentialRefresh --------------------------
(***************************************************************************)
(* Coordinated OAuth refresh of one subscription account: relay processes  *)
(* that resolve, rotate and persist its credentials, the Redis lease that  *)
(* admits one of them, the durable claim in the account's row that fences  *)
(* the others, and the administrators who write the same row.              *)
(* Accounts share nothing, so one is modelled.  A token stands for the     *)
(* access and the refresh token one authorization or rotation returned;    *)
(* the upstream accepts a refresh token once and rotates it.               *)
(***************************************************************************)
EXTENDS Integers, FiniteSets

CONSTANTS
  Procs,        \* relay processes with RELAY_CREDENTIAL_COORDINATION=redis
  Free, Stray,  \* the lease key is absent; it is there and nobody's
  MaxTokens,    \* bound: tokens the upstream issues
  MaxEdits,     \* bound: administrator writes that bring no new token
  MaxFaults     \* bound: crashes, storage failures and lapsed leases

ASSUME BoundsAssumption == MaxTokens \in Nat \ {0} /\ MaxEdits \in Nat /\ MaxFaults \in Nat
ASSUME LeaseAssumption == Free # Stray /\ Free \notin Procs /\ Stray \notin Procs

Tokens == 1..MaxTokens

VARIABLES
  row,      \* the account's row: credential_revision, refresh_pending, tokens
  lease,    \* credential:refresh:<id> in Redis
  at,       \* where the holder of a process's per-account mutex is
  call,     \* its locals
  cache,    \* the process's tokenCache entry
  outdated, \* history: tokens returned though replaced before the call began
  made,     \* tokens issued so far
  expired,  \* tokens whose access token is within RefreshSkew of its expiry
  spent,    \* how often a refresh token was presented to the upstream
  origin,   \* the authorization a token descends from
  auths,    \* authorizations so far
  fate,     \* history: what became of the open claim's owner
  edits, faults

upstream == <<made, expired, spent, origin>>
budgets  == <<edits, faults>>
vars == <<row, lease, at, call, cache, outdated, made, expired, spent, origin,
          auths, fate, edits, faults>>

NoEntry == [token |-> 0, rev |-> 0, dirty |-> FALSE]
NoCall  == [force |-> FALSE, base |-> 0, rev |-> 0, token |-> 0, since |-> 0]
Steps == {"idle", "repersist", "acquire", "reload", "admit", "claim", "check",
          "oauth", "persist", "sweep"}

Fresh(t) == t \notin expired

Init ==
  /\ row = [rev |-> 1, pending |-> FALSE, token |-> 1]
  /\ lease = Free
  /\ at = [p \in Procs |-> "idle"]
  /\ call = [p \in Procs |-> NoCall]
  /\ cache = [p \in Procs |-> NoEntry]
  /\ outdated = {}
  /\ made = 1
  /\ expired = {}
  /\ spent = [t \in Tokens |-> 0]
  /\ origin = [t \in Tokens |-> IF t = 1 THEN 1 ELSE 0]
  /\ auths = 1
  /\ fate = "none"
  /\ edits = 0 /\ faults = 0
-----------------------------------------------------------------------------
(* The end of a call.                                                       *)

\* lease.Release deletes the holder's own key; when it fails the key stays
\* until its TTL.
Released(p) == IF lease = p THEN {Free, Stray} ELSE {lease}

\* the call returns token t, or an error (0), and unlocks the mutex
Return(p, t) ==
  /\ at' = [at EXCEPT ![p] = "idle"]
  /\ call' = [call EXCEPT ![p] = NoCall]
  /\ outdated' = IF t # 0 /\ origin[t] < call[p].since THEN outdated \cup {t} ELSE outdated
  /\ lease' \in Released(p)

Goto(p, step) ==
  /\ at' = [at EXCEPT ![p] = step]
  /\ UNCHANGED <<outdated, lease>>

Fault == faults < MaxFaults /\ faults' = faults + 1 /\ UNCHANGED edits

\* the owner of the open claim: the process that may still complete it
Owns(p) == at[p] \in {"check", "oauth"} /\ call[p].rev = row.rev
Holds(p) == cache[p].dirty /\ cache[p].rev = row.rev
\* the owner stops without a token, and the claim stays
Abandoned(p) == IF row.pending /\ (Owns(p) \/ Holds(p)) THEN "uncertain" ELSE fate
-----------------------------------------------------------------------------
(* Store: the conditional write of StoreSubscriptionCredentials.            *)

\* the write without its revision condition
LandsAnyRevision(e) == TRUE
Lands(e) == row.rev = e.rev
Replayed(e) == ~ row.pending /\ row.rev = e.rev + 1 /\ row.token = e.token
\* an entry without its tokens
StoredEmpty(e) == [rev |-> e.rev + 1, pending |-> FALSE, token |-> 0]
Stored(e) == [rev |-> e.rev + 1, pending |-> FALSE, token |-> e.token]

Persisting(p) == at[p] \in {"repersist", "persist", "sweep"}

\* Where the call goes once its rotation is durable.
AfterPersist(p) ==
  \/ /\ at[p] = "persist"
     /\ Return(p, cache[p].token)
  \/ /\ at[p] = "sweep"
     /\ Return(p, 0)
  \/ /\ at[p] = "repersist" /\ Fresh(cache[p].token)
     /\ Return(p, cache[p].token)
  \/ /\ at[p] = "repersist" /\ ~ Fresh(cache[p].token)
     /\ call' = [call EXCEPT ![p].base = IF @ = 0 THEN 0 ELSE cache[p].rev + 1]
     /\ Goto(p, "acquire")

PersistStores(p) ==
  /\ Persisting(p)
  /\ Lands(cache[p]) \/ Replayed(cache[p])
  /\ row' = Stored(cache[p])
  /\ fate' = "none"
  /\ cache' = [cache EXCEPT ![p] = NoEntry]
  /\ AfterPersist(p)
  /\ UNCHANGED <<auths, upstream, budgets>>

\* ErrCredentialConflict: the entry is discarded.
PersistConflicts(p) ==
  /\ Persisting(p)
  /\ ~ Lands(cache[p]) /\ ~ Replayed(cache[p])
  /\ cache' = [cache EXCEPT ![p] = NoEntry]
  /\ Return(p, 0)
  /\ UNCHANGED <<row, auths, fate, upstream, budgets>>

\* A call that gives up on the storage keeps its entry dirty.
GivesUp(p) ==
  LET usable == at[p] = "persist" \/ (at[p] = "repersist" /\ Fresh(cache[p].token))
  IN  Return(p, IF usable /\ ~ call[p].force THEN cache[p].token ELSE 0)

\* An attempt fails, before or after the row was written; persistWithRetry
\* tries again or gives up.
StoreFails(p) ==
  /\ Persisting(p)
  /\ Fault
  /\ \/ UNCHANGED <<row, fate>>
     \/ Lands(cache[p]) /\ row' = Stored(cache[p]) /\ fate' = "none"
  /\ (Goto(p, at[p]) /\ UNCHANGED call) \/ GivesUp(p)
  /\ UNCHANGED <<cache, auths, upstream>>
-----------------------------------------------------------------------------
(* resolveDistributedOnce.                                                  *)

Open(p, force) ==
  call' = [call EXCEPT ![p] = [NoCall EXCEPT !.force = force, !.base = IF force THEN row.rev ELSE 0,
                                     !.since = auths]]

\* The row is the one the process's pending entry belongs to.
MatchingClaim(e) == row.rev = e.rev /\ row.pending
\* pending memory trusted whatever the row says
MatchingAny(e) == TRUE
Matching(e) == MatchingClaim(e) \/ Replayed(e)

\* The first lookup finds a pending entry of this process: persist it first.
ResolvePending(p, force) ==
  /\ at[p] = "idle"
  /\ cache[p].dirty /\ Matching(cache[p])
  /\ Open(p, force)
  /\ at' = [at EXCEPT ![p] = "repersist"]
  /\ UNCHANGED <<row, lease, cache, outdated, auths, fate, upstream, budgets>>

\* Otherwise a pending entry is discarded, and the durable token is returned
\* or a rotation begins.
Resolve(p, force) ==
  /\ at[p] = "idle"
  /\ ~ (cache[p].dirty /\ Matching(cache[p]))
  /\ cache' = IF cache[p].dirty THEN [cache EXCEPT ![p] = NoEntry] ELSE cache
  /\ \/ /\ ~ row.pending /\ ~ force /\ Fresh(row.token)
        /\ Return(p, row.token)
     \/ /\ row.pending \/ force \/ ~ Fresh(row.token)
        /\ Open(p, force)
        /\ Goto(p, "acquire")
  /\ UNCHANGED <<row, auths, fate, upstream, budgets>>

Acquire(p) ==
  /\ at[p] = "acquire" /\ lease = Free
  /\ lease' = p
  /\ at' = [at EXCEPT ![p] = "reload"]
  /\ UNCHANGED <<row, call, cache, outdated, auths, fate, upstream, budgets>>

\* ErrRefreshBusy; a call that is not forced comes back 50 ms later.
Busy(p) ==
  /\ at[p] = "acquire" /\ lease # Free
  /\ Return(p, 0)
  /\ UNCHANGED <<row, cache, auths, fate, upstream, budgets>>

\* Redis or the storage fails at a step that has changed nothing; a SET whose
\* answer is lost leaves a lease behind.
StepFails(p) ==
  /\ at[p] \in {"acquire", "reload", "admit", "claim"}
  /\ Fault
  /\ \/ Return(p, 0)
     \/ /\ at[p] = "acquire" /\ lease = Free
        /\ lease' = Stray
        /\ at' = [at EXCEPT ![p] = "idle"]
        /\ call' = [call EXCEPT ![p] = NoCall]
        /\ UNCHANGED outdated
  /\ UNCHANGED <<row, cache, auths, fate, upstream>>

UsableNow(p) ==
  (~ call[p].force \/ row.rev # call[p].base) /\ Fresh(row.token)

\* The second lookup: another replica may have rotated, or be about to.
Reload(p) ==
  /\ at[p] = "reload"
  /\ \/ /\ row.pending
        /\ Return(p, 0)
     \/ /\ ~ row.pending /\ UsableNow(p)
        /\ Return(p, row.token)
     \/ /\ ~ row.pending /\ ~ UsableNow(p)
        /\ call' = [call EXCEPT ![p].rev = row.rev, ![p].token = row.token]
        /\ Goto(p, "admit")
  /\ UNCHANGED <<row, cache, auths, fate, upstream, budgets>>

\* The first lease.Check.
Admit(p) ==
  /\ at[p] = "admit"
  /\ \/ lease = p /\ Goto(p, "claim") /\ UNCHANGED call
     \/ lease # p /\ Return(p, 0)
  /\ UNCHANGED <<row, cache, auths, fate, upstream, budgets>>

Claimable(p) == row.rev = call[p].rev /\ ~ row.pending
\* a claim that fences the old revision and leaves no durable mark
ClaimedUnmarked == [row EXCEPT !.rev = row.rev + 1]
Claimed == [row EXCEPT !.rev = row.rev + 1, !.pending = TRUE]

\* ClaimRefresh.
Claim(p) ==
  /\ at[p] = "claim"
  /\ Claimable(p)
  /\ row' = Claimed
  /\ call' = [call EXCEPT ![p].rev = row.rev + 1]
  /\ Goto(p, "check")
  /\ UNCHANGED <<cache, auths, fate, upstream, budgets>>

ClaimConflicts(p) ==
  /\ at[p] = "claim" /\ ~ Claimable(p)
  /\ Return(p, 0)
  /\ UNCHANGED <<row, cache, auths, fate, upstream, budgets>>

\* The answer of a claim that was written is lost: it cannot be replayed.
ClaimAnswerLost(p) ==
  /\ at[p] = "claim" /\ Claimable(p)
  /\ Fault
  /\ row' = Claimed
  /\ fate' = "uncertain"
  /\ Return(p, 0)
  /\ UNCHANGED <<cache, auths, upstream>>

\* The second lease.Check; when it fails the claim stays.
Check(p) ==
  /\ at[p] = "check"
  /\ \/ lease = p /\ Goto(p, "oauth") /\ UNCHANGED <<call, fate>>
     \/ lease # p /\ Return(p, 0) /\ fate' = Abandoned(p)
  /\ UNCHANGED <<row, cache, auths, upstream, budgets>>

\* The upstream accepts a refresh token it has not seen, and rotates it.
Rotate(p) ==
  LET t == made + 1 IN
  /\ at[p] = "oauth"
  /\ spent[call[p].token] = 0 /\ made < MaxTokens
  /\ made' = t
  /\ spent' = [spent EXCEPT ![call[p].token] = @ + 1]
  /\ origin' = [origin EXCEPT ![t] = origin[call[p].token]]
  /\ cache' = [cache EXCEPT ![p] = [token |-> t, rev |-> call[p].rev, dirty |-> TRUE]]
  /\ Goto(p, "persist")
  /\ UNCHANGED <<row, call, expired, auths, fate, budgets>>

\* It refuses, fails or does not answer: the token may be used up.
RotateFails(p) ==
  /\ at[p] = "oauth"
  /\ spent' \in {spent, [spent EXCEPT ![call[p].token] = @ + 1]}
  /\ fate' = Abandoned(p)
  /\ Return(p, 0)
  /\ UNCHANGED <<row, cache, made, expired, origin, auths, budgets>>
-----------------------------------------------------------------------------
(* The background task.                                                     *)

\* PersistPending scans every pending entry, of cold and long-lived tokens too.
SweptIfStale(e) == e.dirty /\ ~ Fresh(e.token)
Swept(e) == e.dirty
SweepPending(p) ==
  /\ at[p] = "idle" /\ Swept(cache[p])
  /\ at' = [at EXCEPT ![p] = "sweep"]
  /\ UNCHANGED <<row, lease, call, cache, outdated, auths, fate, upstream, budgets>>

\* Evicts the entry after a background refresh, without the mutex; a pending
\* entry stays.  In this mode a clean entry is read only by the call that has
\* just stored it (`ResolvePending`), for what it has stored; so the model
\* drops an entry when it becomes clean and the call goes on with the token.
\* (An eviction between that store and that read leaves nothing to read, which
\* the code does not check: this one interleaving is left out.)
InvalidatedAlways(e) == NoEntry
Invalidated(e) == IF e.dirty THEN e ELSE NoEntry
Invalidate(p) ==
  /\ cache[p] # NoEntry
  /\ cache' = [cache EXCEPT ![p] = Invalidated(@)]
  /\ UNCHANGED <<row, lease, at, call, outdated, auths, fate, upstream, budgets>>
-----------------------------------------------------------------------------
(* Administrators, time and faults.                                         *)

\* A full account update with the refresh token of a new authorization.
Reauthorize ==
  /\ made < MaxTokens
  /\ made' = made + 1
  /\ auths' = auths + 1
  /\ origin' = [origin EXCEPT ![made + 1] = auths + 1]
  /\ row' = [rev |-> row.rev + 1, pending |-> FALSE, token |-> made + 1]
  /\ fate' = "none"
  /\ UNCHANGED <<lease, at, call, cache, outdated, expired, spent, budgets>>

Edit == edits < MaxEdits /\ edits' = edits + 1 /\ UNCHANGED faults

\* A full account update that keeps the tokens: refused while a claim is open.
EditProfile ==
  /\ ~ row.pending
  /\ Edit
  /\ row' = [row EXCEPT !.rev = @ + 1]
  /\ UNCHANGED <<lease, at, call, cache, outdated, auths, fate, upstream>>

\* A status change, quota reset, recovery or new group membership: advances
\* the revision whether or not a claim is open.
AdvanceRevision ==
  /\ Edit
  /\ row' = [row EXCEPT !.rev = @ + 1]
  /\ fate' = IF row.pending /\ fate = "none" THEN "fenced" ELSE fate
  /\ UNCHANGED <<lease, at, call, cache, outdated, auths, upstream>>

\* Only the expiry of a token somebody may still return matters.
Expire(t) ==
  /\ t = row.token \/ \E p \in Procs : cache[p].token = t
  /\ Fresh(t)
  /\ expired' = expired \cup {t}
  /\ UNCHANGED <<row, lease, at, call, cache, outdated, made, spent, origin, auths, fate, budgets>>

\* Redis drops the key of a live holder: its TTL passed, or Redis lost it.
LeaseLapses ==
  /\ lease \in Procs
  /\ Fault
  /\ lease' = Free
  /\ UNCHANGED <<row, at, call, cache, outdated, auths, fate, upstream>>

\* The key carries a TTL; without one a stray lease stays for ever.
LeaseWithoutTTL == {}
LeaseWithTTL == {Stray}
StrayExpires ==
  /\ lease \in LeaseWithTTL
  /\ lease' = Free
  /\ UNCHANGED <<row, at, call, cache, outdated, auths, fate, upstream, budgets>>

\* The process dies and comes back with an empty cache.
Crash(p) ==
  /\ Fault
  /\ fate' = Abandoned(p)
  /\ at' = [at EXCEPT ![p] = "idle"]
  /\ cache' = [cache EXCEPT ![p] = NoEntry]
  /\ call' = [call EXCEPT ![p] = NoCall]
  /\ lease' = IF lease = p THEN Stray ELSE lease
  /\ UNCHANGED <<row, outdated, auths, upstream>>
-----------------------------------------------------------------------------
Proceed(p) ==
  \/ PersistStores(p) \/ PersistConflicts(p)
  \/ Acquire(p) \/ Busy(p) \/ Reload(p) \/ Admit(p)
  \/ Claim(p) \/ ClaimConflicts(p) \/ Check(p)
  \/ Rotate(p) \/ RotateFails(p)

Next ==
  \/ \E p \in Procs : Proceed(p)
  \/ \E p \in Procs, force \in BOOLEAN : ResolvePending(p, force) \/ Resolve(p, force)
  \/ \E p \in Procs : SweepPending(p) \/ Invalidate(p)
  \/ \E p \in Procs : StoreFails(p) \/ StepFails(p) \/ ClaimAnswerLost(p) \/ Crash(p)
  \/ LeaseLapses \/ StrayExpires
  \/ Reauthorize \/ EditProfile \/ AdvanceRevision
  \/ \E t \in Tokens : Expire(t)

Spec == Init /\ [][Next]_vars

\* A call runs on; the refresh task sweeps and refreshes (coordination refuses
\* to start without it); a key with a TTL expires.
Fairness ==
  /\ \A p \in Procs : WF_vars(Proceed(p))
  /\ \A p \in Procs : SF_vars(SweepPending(p))
  /\ \A p \in Procs : SF_vars(Resolve(p, TRUE))
  /\ WF_vars(StrayExpires)

FairSpec == Spec /\ Fairness
-----------------------------------------------------------------------------
TypeOK ==
  /\ row \in [rev : Nat, pending : BOOLEAN, token : Tokens]
  /\ lease \in Procs \cup {Free, Stray}
  /\ at \in [Procs -> Steps]
  /\ call \in [Procs -> [force : BOOLEAN, base : Nat, rev : Nat, token : Tokens \cup {0}, since : Nat]]
  /\ cache \in [Procs -> [token : Tokens \cup {0}, rev : Nat, dirty : BOOLEAN]]
  /\ outdated \subseteq Tokens
  /\ made \in Tokens
  /\ expired \subseteq Tokens
  /\ spent \in [Tokens -> Nat] /\ origin \in [Tokens -> Nat]
  /\ auths \in Nat
  /\ fate \in {"none", "uncertain", "fenced"}
  /\ edits \in 0..MaxEdits /\ faults \in 0..MaxFaults

\* No refresh token is presented to the upstream twice, whatever crashes, lapsed
\* leases and lost answers lie between: the claim of ClaimRefresh is durable and
\* only a store of the rotated token or a new authorization clears it.
SpentOnce == \A t \in Tokens : spent[t] <= 1

\* A rotation of an older authorization never overwrites a newer one: the row
\* descends from the last authorization an administrator gave.
NewAuthorizationKept == origin[row.token] = auths

\* A call never returns a token of an authorization that had been replaced when
\* the call began (the check of pending memory against the durable revision).
AnswersAreCurrent == outdated = {}

Completable == \E p \in Procs : Owns(p) \/ Holds(p)

\* An open claim has an owner that can still complete it, unless the owner died,
\* its lease lapsed, an answer was lost, or an administrator's write fenced it.
ClaimAccounted == row.pending /\ fate = "none" => Completable

\* What the runbook says: an open claim stays with its owner, who may persist
\* the rotation at its revision; ordinary account writes are refused meanwhile.
OnlyUncertaintyOrphans == row.pending /\ fate # "uncertain" => Completable

\* A rotated token that only a process's memory holds becomes durable, or is
\* superseded or lost with the process: the sweep persists it without requests.
RotationPersists == \A p \in Procs : cache[p].dirty ~> ~ cache[p].dirty

\* A lapsed, stray or crashed lease never keeps an expired token in use: the
\* token is replaced, or its refresh is claimed.
ExpiredIsRefreshed ==
  (~ row.pending /\ ~ Fresh(row.token)) ~> (row.pending \/ Fresh(row.token))
=============================================================================
