-------------------------- MODULE CredentialProofs --------------------------
(***************************************************************************)
(* Proofs about credential refresh, for any number of relay processes,     *)
(* tokens, administrator writes, crashes and lapsed leases: types, the     *)
(* single presentation of a refresh token, the precedence of a new         *)
(* authorization, the currency of what a call returns, and the owner of an *)
(* open claim.                                                             *)
(***************************************************************************)
EXTENDS CredentialRefresh, TLAPS

Entry  == [token : Tokens \cup {0}, rev : Nat, dirty : BOOLEAN]
Locals == [force : BOOLEAN, base : Nat, rev : Nat, token : Tokens \cup {0}, since : Nat]

Typed ==
  /\ row \in [rev : Nat, pending : BOOLEAN, token : Tokens]
  /\ lease \in Procs \cup {Free, Stray}
  /\ at \in [Procs -> Steps]
  /\ call \in [Procs -> Locals]
  /\ cache \in [Procs -> Entry]
  /\ outdated \subseteq Tokens
  /\ made \in Tokens
  /\ expired \subseteq Tokens
  /\ spent \in [Tokens -> Nat] /\ origin \in [Tokens -> Nat]
  /\ auths \in Nat
  /\ fate \in {"none", "uncertain", "fenced"}
  /\ edits \in 0..MaxEdits /\ faults \in 0..MaxFaults

\* It has read the row and may claim it; it has claimed and may rotate.
Reader(p)  == at[p] \in {"admit", "claim"}
Claimer(p) == at[p] \in {"check", "oauth"}

\* The durable token descends from the last authorization, and unless a claim
\* is open nobody has presented it.
RowOK ==
  /\ row.token <= made
  /\ origin[row.token] = auths
  /\ ~ row.pending => spent[row.token] = 0
  /\ \A t \in Tokens : made < t => spent[t] = 0

\* What a call read is no newer than the row; at the row's revision it is the
\* row.  A claimed token is unspent until its claimer presents it.
CallOK(p) ==
  /\ call[p].since <= auths
  /\ Reader(p) \/ Claimer(p) =>
       /\ call[p].token \in Tokens /\ call[p].token <= made
       /\ call[p].rev <= row.rev
       /\ call[p].since <= origin[call[p].token]
  /\ Reader(p) /\ call[p].rev = row.rev => call[p].token = row.token
  /\ Claimer(p) =>
       /\ spent[call[p].token] = 0
       /\ call[p].rev = row.rev => call[p].token = row.token
       /\ call[p].token = row.token => row.pending

\* A pending entry is no newer than the row; at the row's revision it is the
\* rotation the open claim waits for.
EntryOK(p) ==
  /\ cache[p].dirty =>
       /\ cache[p].token \in Tokens /\ cache[p].token <= made
       /\ cache[p].rev <= row.rev
  /\ Persisting(p) => cache[p].dirty
  /\ cache[p].dirty => at[p] \in {"idle", "repersist", "persist", "sweep"}
  /\ at[p] \in {"repersist", "persist"} => call[p].since <= origin[cache[p].token]
  /\ Holds(p) =>
       /\ row.pending
       /\ spent[cache[p].token] = 0
       /\ origin[cache[p].token] = auths

\* No token has two claimers, and none claims a rotation that is still pending.
Apart ==
  \A p, q \in Procs : Claimer(q) =>
    /\ Claimer(p) /\ p # q => call[p].token # call[q].token
    /\ Holds(p) => cache[p].token # call[q].token

Inv ==
  /\ Typed /\ RowOK /\ SpentOnce
  /\ \A p \in Procs : CallOK(p) /\ EntryOK(p)
  /\ Apart
  /\ AnswersAreCurrent /\ ClaimAccounted

-----------------------------------------------------------------------------
(* How a call moves.                                                        *)

\* p is at s with the locals v; the other processes are where they were, and
\* no outdated token was returned.
Moves(p, s, v) ==
  /\ lease' \in Procs \cup {Free, Stray}
  /\ at' \in [Procs -> Steps] /\ at'[p] = s
  /\ call' \in [Procs -> Locals] /\ call'[p] = v
  /\ \A q \in Procs \ {p} : at'[q] = at[q] /\ call'[q] = call[q]
  /\ UNCHANGED outdated

Ends(p) == Moves(p, "idle", NoCall)

LEMMA ReturnEnds ==
  ASSUME Typed, NEW p \in Procs, NEW t, t # 0 => call[p].since <= origin[t],
         t \in Tokens \cup {0}, Return(p, t)
  PROVE  Ends(p)
<1>1. NoCall \in Locals /\ "idle" \in Steps
  BY DEF NoCall, Locals, Steps
<1>2. UNCHANGED outdated
  <2>1. t # 0 => ~ (origin[t] < call[p].since)
    BY DEF Typed, Locals
  <2> QED BY <2>1 DEF Return
<1>3. lease' \in Procs \cup {Free, Stray}
  BY DEF Return, Released, Typed
<1>4. at' = [at EXCEPT ![p] = "idle"] /\ call' = [call EXCEPT ![p] = NoCall]
  BY DEF Return
<1> QED BY <1>1, <1>2, <1>3, <1>4 DEF Typed, Moves, Ends

LEMMA GotoMoves ==
  ASSUME Typed, NEW p \in Procs, NEW s \in Steps, Goto(p, s), NEW v \in Locals,
         call' = [call EXCEPT ![p] = v] \/ (UNCHANGED call /\ v = call[p])
  PROVE  Moves(p, s, v)
BY DEF Typed, Moves, Goto

\* What a step of p leaves alone: the other processes, and the row's history.
Local(p) ==
  /\ cache' \in [Procs -> Entry]
  /\ \A q \in Procs \ {p} : cache'[q] = cache[q]
  /\ cache'[p] = cache[p] \/ ~ cache'[p].dirty
  /\ UNCHANGED <<row, made, spent, origin, auths>>

Chances ==
  /\ expired' \subseteq Tokens
  /\ fate' \in {"none", "uncertain", "fenced"}
  /\ edits' \in 0..MaxEdits /\ faults' \in 0..MaxFaults

\* p remains the owner of the open claim, or the claim is known to be orphaned.
Remains(p) ==
  row.pending /\ fate' = "none" =>
    /\ fate = "none"
    /\ Owns(p) \/ Holds(p) => Owns(p)' \/ Holds(p)'

\* Another process whose call and entry are as they were.
LEMMA Untouched ==
  ASSUME Inv, NEW p \in Procs, NEW q \in Procs \ {p}, NEW s, NEW v, Moves(p, s, v), Local(p)
  PROVE  /\ CallOK(q)' /\ EntryOK(q)'
         /\ Claimer(q)' = Claimer(q) /\ Holds(q)' = Holds(q) /\ Owns(q)' = Owns(q)
         /\ call'[q] = call[q] /\ cache'[q] = cache[q]
<1>1. /\ at'[q] = at[q] /\ call'[q] = call[q] /\ cache'[q] = cache[q]
      /\ UNCHANGED <<row, made, spent, origin, auths>>
  BY DEF Moves, Local
<1>2. CallOK(q) /\ EntryOK(q)
  BY DEF Inv
<1>3. CallOK(q)'
  BY <1>1, <1>2 DEF CallOK, Reader, Claimer
<1>4. EntryOK(q)'
  BY <1>1, <1>2 DEF EntryOK, Holds, Persisting
<1> QED BY <1>1, <1>3, <1>4 DEF Claimer, Holds, Owns

LEMMA LocalStep ==
  ASSUME Inv, NEW p \in Procs, NEW s, NEW v, Moves(p, s, v), Local(p), Chances, Remains(p),
         CallOK(p)', EntryOK(p)',
         Claimer(p)' => Claimer(p) /\ call'[p].token = call[p].token
  PROVE  Inv'
<1>1. Typed'
  BY DEF Inv, Typed, Moves, Local, Chances
<1>2. RowOK' /\ SpentOnce' /\ AnswersAreCurrent'
  BY DEF Inv, RowOK, SpentOnce, AnswersAreCurrent, Local, Moves
<1>3. \A q \in Procs : CallOK(q)' /\ EntryOK(q)'
  BY Untouched
<1>4. ASSUME NEW q \in Procs
      PROVE  /\ Claimer(q)' => Claimer(q) /\ call'[q].token = call[q].token
             /\ Holds(q)' => Holds(q) /\ cache'[q].token = cache[q].token
  <2>1. CASE q = p
    BY <2>1 DEF Holds, Local
  <2>2. CASE q # p
    BY <2>2, Untouched
  <2> QED BY <2>1, <2>2
<1>5. Apart'
  BY <1>4 DEF Inv, Apart
<1>6. ClaimAccounted'
  <2> SUFFICES ASSUME row'.pending, fate' = "none" PROVE Completable'
    BY DEF ClaimAccounted
  <2>1. PICK q \in Procs : Owns(q) \/ Holds(q)
    BY DEF Inv, ClaimAccounted, Completable, Remains, Local
  <2>2. Owns(q)' \/ Holds(q)'
    <3>1. CASE q = p
      BY <2>1, <3>1 DEF Remains, Local
    <3>2. CASE q # p
      BY <2>1, <3>2, Untouched
    <3> QED BY <3>1, <3>2
  <2> QED BY <2>2 DEF Completable
<1> QED BY <1>1, <1>2, <1>3, <1>5, <1>6 DEF Inv

\* A call that ends has kept the claim of nobody, unless it is uncertain.
LEMMA EndStep ==
  ASSUME Inv, NEW p \in Procs, Ends(p), Local(p), Chances,
         row.pending /\ fate' = "none" =>
           fate = "none" /\ ~ Owns(p) /\ (Holds(p) => cache'[p] = cache[p])
  PROVE  Inv'
<1>1. at'[p] = "idle" /\ call'[p] = NoCall /\ UNCHANGED <<row, made, spent, origin, auths>>
  BY DEF Ends, Moves, Local
<1>2. CallOK(p)'
  BY <1>1 DEF CallOK, Reader, Claimer, NoCall, Inv, Typed
<1>3. EntryOK(p)'
  BY <1>1 DEF EntryOK, Persisting, Holds, Inv, Local
<1>4. Remains(p)
  BY <1>1 DEF Remains, Holds
<1> QED BY <1>1, <1>2, <1>3, <1>4, LocalStep DEF Claimer, Ends

LEMMA FaultChance ==
  ASSUME Typed, Fault \/ UNCHANGED budgets
  PROVE  edits' \in 0..MaxEdits /\ faults' \in 0..MaxFaults
BY BoundsAssumption DEF Typed, Fault, budgets

\* What p's invariant says of an answer taken from the row or from its entry.
LEMMA Answers ==
  ASSUME Inv, NEW p \in Procs
  PROVE  /\ row.token \in Tokens /\ call[p].since <= origin[row.token]
         /\ Persisting(p) => cache[p].token \in Tokens /\ cache[p].token # 0
         /\ at[p] \in {"repersist", "persist"} => call[p].since <= origin[cache[p].token]
         /\ call[p] \in Locals /\ cache[p] \in Entry
         /\ at[p] \in Steps
         /\ call \in [Procs -> Locals] /\ cache \in [Procs -> Entry] /\ at \in [Procs -> Steps]
BY DEF Inv, Typed, RowOK, CallOK, EntryOK, Tokens

-----------------------------------------------------------------------------
(* Steps that leave the row alone.                                          *)

LEMMA PersistConflictsInv ==
  ASSUME Inv, NEW p \in Procs, PersistConflicts(p)
  PROVE  Inv'
<1>1. Ends(p)
  BY ReturnEnds DEF PersistConflicts, Inv
<1>2. NoEntry \in Entry /\ ~ NoEntry.dirty
  BY DEF NoEntry, Entry
<1>3. Local(p)
  BY <1>2, Answers DEF PersistConflicts, Local, upstream
<1>4. Chances
  BY FaultChance DEF PersistConflicts, Chances, upstream, Inv, Typed
<1>5. ~ Owns(p) /\ ~ Holds(p) /\ UNCHANGED fate
  BY DEF PersistConflicts, Persisting, Owns, Holds, Lands
<1> QED BY <1>1, <1>3, <1>4, <1>5, EndStep

LEMMA GivesUpEnds ==
  ASSUME Inv, NEW p \in Procs, Persisting(p), GivesUp(p)
  PROVE  Ends(p)
<1> DEFINE usable == at[p] = "persist" \/ (at[p] = "repersist" /\ Fresh(cache[p].token))
           t == IF usable /\ ~ call[p].force THEN cache[p].token ELSE 0
<1>1. t \in Tokens \cup {0} /\ (t # 0 => call[p].since <= origin[t])
  BY Answers
<1>2. Return(p, t)
  BY DEF GivesUp
<1> HIDE DEF t
<1> QED BY <1>1, <1>2, ReturnEnds DEF Inv

\* The locals a call opens with.
Opened(force) == [NoCall EXCEPT !.force = force, !.base = IF force THEN row.rev ELSE 0,
                                !.since = auths]

LEMMA OpenedLocals ==
  ASSUME Typed, NEW force \in BOOLEAN
  PROVE  Opened(force) \in Locals /\ Opened(force).since = auths
BY DEF NoCall, Locals, Typed, Opened

LEMMA ResolvePendingInv ==
  ASSUME Inv, NEW p \in Procs, NEW force \in BOOLEAN, ResolvePending(p, force)
  PROVE  Inv'
<1> DEFINE v == Opened(force)
<1>1. v \in Locals /\ v.since = auths
  BY OpenedLocals DEF Inv
<1>2. call' = [call EXCEPT ![p] = v]
  BY DEF ResolvePending, Open, Opened
<1>3. Moves(p, "repersist", v)
  <2> HIDE DEF v
  <2> QED BY <1>1, <1>2, Answers DEF ResolvePending, Moves, Inv, Typed, Steps
<1>4. Local(p) /\ Chances /\ UNCHANGED <<fate, cache>>
  BY Answers, FaultChance DEF ResolvePending, Local, Chances, upstream, Inv, Typed
<1>5. at'[p] = "repersist" /\ call'[p].since = auths
  BY <1>1, <1>3 DEF Moves
<1>6. CallOK(p)'
  BY <1>4, <1>5, Answers DEF CallOK, Reader, Claimer, Local, Inv, Typed
<1>7. auths <= origin[cache[p].token] /\ cache[p].dirty /\ at[p] = "idle"
  <2>1. auths \in Nat /\ origin[row.token] = auths /\ EntryOK(p)
    BY DEF Inv, Typed, RowOK
  <2>2. /\ at[p] = "idle" /\ cache[p].dirty
        /\ Holds(p) \/ cache[p].token = row.token
    BY DEF ResolvePending, Matching, MatchingClaim, Replayed, Holds
  <2> QED BY <2>1, <2>2 DEF EntryOK
<1>8. EntryOK(p)'
  BY <1>4, <1>5, <1>7 DEF EntryOK, Local, Holds, Persisting, Inv
<1>9. Remains(p)
  BY <1>4, <1>7 DEF Remains, Owns, Holds, Local
<1> HIDE DEF v
<1> QED BY <1>3, <1>4, <1>5, <1>6, <1>8, <1>9, LocalStep DEF Claimer

\* Steps of a call that go on with locals that neither claim nor owe anything.
LEMMA GoStep ==
  ASSUME Inv, NEW p \in Procs, NEW s, NEW v, Moves(p, s, v), Local(p), Chances, Remains(p),
         s \in {"acquire", "reload"}, v.since <= auths, ~ cache'[p].dirty
  PROVE  Inv'
<1>1. at'[p] = s /\ call'[p] = v /\ UNCHANGED <<row, made, spent, origin, auths>>
  BY DEF Moves, Local
<1>2. CallOK(p)' /\ EntryOK(p)'
  BY <1>1 DEF CallOK, Reader, Claimer, EntryOK, Persisting, Holds
<1> QED BY <1>1, <1>2, LocalStep DEF Claimer

LEMMA ResolveInv ==
  ASSUME Inv, NEW p \in Procs, NEW force \in BOOLEAN, Resolve(p, force)
  PROVE  Inv'
<1>1. NoEntry \in Entry /\ ~ NoEntry.dirty
  BY DEF NoEntry, Entry
<1>2. Local(p) /\ ~ cache'[p].dirty
  BY <1>1, Answers DEF Resolve, Local, upstream
<1>3. Chances /\ UNCHANGED fate
  BY FaultChance DEF Resolve, Chances, upstream, Inv, Typed
<1>4. ~ Owns(p) /\ (row.pending => ~ Holds(p))
  BY DEF Resolve, Owns, Holds, Matching, MatchingClaim
<1>5. CASE Return(p, row.token)
  <2>1. Ends(p)
    BY <1>5, Answers, ReturnEnds DEF Inv
  <2> QED BY <1>2, <1>3, <1>4, <2>1, EndStep
<1>6. CASE Open(p, force) /\ Goto(p, "acquire")
  <2> DEFINE v == Opened(force)
  <2>1. v \in Locals /\ v.since <= auths
    BY OpenedLocals DEF Inv, Typed
  <2>2. call' = [call EXCEPT ![p] = v]
    BY <1>6 DEF Open, Opened
  <2>3. Moves(p, "acquire", v)
    BY <1>6, <2>1, <2>2, GotoMoves DEF Inv, Steps
  <2> QED BY <1>2, <1>3, <1>4, <2>1, <2>3, GoStep DEF Remains
<1> QED BY <1>5, <1>6 DEF Resolve

LEMMA AcquireInv ==
  ASSUME Inv, NEW p \in Procs, Acquire(p)
  PROVE  Inv'
<1>1. Moves(p, "reload", call[p])
  BY Answers DEF Acquire, Moves, Steps
<1>2. Local(p)
  BY Answers DEF Acquire, Local, upstream
<1>3. Chances /\ UNCHANGED fate
  BY FaultChance DEF Acquire, Chances, upstream, Inv, Typed
<1>4. /\ ~ Owns(p) /\ ~ Holds(p) /\ ~ cache'[p].dirty
      /\ call[p].since <= auths
  BY DEF Acquire, Owns, Holds, Inv, EntryOK, CallOK
<1> QED BY <1>1, <1>2, <1>3, <1>4, GoStep DEF Remains

\* A call that ends before it has claimed.
LEMMA EarlyEnd ==
  ASSUME Inv, NEW p \in Procs, at[p] \in {"acquire", "reload", "admit", "claim"}, Ends(p),
         UNCHANGED <<row, cache, auths, fate, upstream>>, Fault \/ UNCHANGED budgets
  PROVE  Inv'
<1>1. Local(p)
  BY Answers DEF Local, upstream
<1>2. Chances
  BY FaultChance DEF Chances, upstream, Inv, Typed
<1>3. ~ Owns(p)
  BY DEF Owns
<1> QED BY <1>1, <1>2, <1>3, EndStep

LEMMA BusyInv == ASSUME Inv, NEW p \in Procs, Busy(p) PROVE Inv'
<1>1. Ends(p)
  BY ReturnEnds DEF Busy, Inv
<1> QED BY <1>1, EarlyEnd DEF Busy

LEMMA ClaimConflictsInv == ASSUME Inv, NEW p \in Procs, ClaimConflicts(p) PROVE Inv'
<1>1. Ends(p)
  BY ReturnEnds DEF ClaimConflicts, Inv
<1> QED BY <1>1, EarlyEnd DEF ClaimConflicts

LEMMA StepFailsInv == ASSUME Inv, NEW p \in Procs, StepFails(p) PROVE Inv'
<1>1. CASE Return(p, 0)
  BY <1>1, ReturnEnds, EarlyEnd DEF StepFails, Inv
<1>2. CASE /\ lease' = Stray
           /\ at' = [at EXCEPT ![p] = "idle"]
           /\ call' = [call EXCEPT ![p] = NoCall]
           /\ UNCHANGED outdated
  <2>1. NoCall \in Locals /\ "idle" \in Steps
    BY DEF NoCall, Locals, Steps
  <2>2. Ends(p)
    BY <1>2, <2>1, Answers DEF Ends, Moves
  <2> QED BY <2>2, EarlyEnd DEF StepFails
<1> QED BY <1>1, <1>2 DEF StepFails

LEMMA ReloadInv == ASSUME Inv, NEW p \in Procs, Reload(p) PROVE Inv'
<1>1. CASE Return(p, 0) \/ Return(p, row.token)
  BY <1>1, Answers, ReturnEnds, EarlyEnd DEF Reload, Inv
<1>2. CASE /\ call' = [call EXCEPT ![p].rev = row.rev, ![p].token = row.token]
           /\ Goto(p, "admit")
  <2> DEFINE v == [call[p] EXCEPT !.rev = row.rev, !.token = row.token]
  <2>1. v \in Locals /\ v.rev = row.rev /\ v.token = row.token /\ v.since = call[p].since
    BY Answers DEF Locals, Inv, Typed
  <2>2. call' = [call EXCEPT ![p] = v]
    BY <1>2, Answers
  <2> HIDE DEF v
  <2>3. Moves(p, "admit", v)
    BY <1>2, <2>1, <2>2, GotoMoves DEF Inv, Steps
  <2>4. Local(p) /\ Chances /\ UNCHANGED fate
    BY Answers, FaultChance DEF Reload, Local, Chances, upstream, Inv, Typed
  <2>5. /\ at'[p] = "admit" /\ call'[p] = v
        /\ UNCHANGED <<row, made, spent, origin, auths, cache>>
    BY <2>3, <2>4 DEF Moves, Local, Reload
  <2>6. CallOK(p)'
    BY <2>1, <2>5, Answers DEF CallOK, Reader, Claimer, Inv, RowOK, Typed
  <2>7. EntryOK(p)' /\ ~ Owns(p) /\ ~ Holds(p)
    BY <2>5 DEF EntryOK, Persisting, Holds, Owns, Reload, Inv
  <2> QED BY <2>3, <2>4, <2>5, <2>6, <2>7, LocalStep DEF Claimer, Remains
<1> QED BY <1>1, <1>2 DEF Reload

\* A call goes on with the same locals, as a reader or as a claimer.
LEMMA OnStep ==
  ASSUME Inv, NEW p \in Procs, NEW s, Moves(p, s, call[p]), ~ Persisting(p),
         UNCHANGED <<row, cache, auths, fate, upstream, budgets>>,
         \/ Reader(p) /\ s \in {"admit", "claim"}
         \/ Claimer(p) /\ s \in {"check", "oauth"}
         \/ at[p] = "idle" /\ s = "sweep" /\ cache[p].dirty
  PROVE  Inv'
<1>1. Local(p) /\ Chances
  BY Answers, FaultChance DEF Local, Chances, upstream, Inv, Typed
<1>2. /\ at'[p] = s /\ call'[p] = call[p]
      /\ UNCHANGED <<row, cache, made, spent, origin, auths, fate>>
  BY <1>1 DEF Moves, Local
<1>3. CallOK(p) /\ EntryOK(p)
  BY DEF Inv
<1>4. CallOK(p)'
  BY <1>2, <1>3 DEF CallOK, Reader, Claimer
<1>5. EntryOK(p)'
  BY <1>2, <1>3 DEF EntryOK, Persisting, Holds, Reader, Claimer
<1>6. Remains(p)
  BY <1>2 DEF Remains, Owns, Holds, Reader, Claimer
<1>7. Claimer(p)' => Claimer(p) /\ call'[p].token = call[p].token
  BY <1>2 DEF Claimer, Reader
<1> QED BY <1>1, <1>4, <1>5, <1>6, <1>7, LocalStep

LEMMA AdmitInv == ASSUME Inv, NEW p \in Procs, Admit(p) PROVE Inv'
<1>1. CASE Return(p, 0)
  BY <1>1, ReturnEnds, EarlyEnd DEF Admit, Inv
<1>2. CASE Goto(p, "claim") /\ UNCHANGED call
  <2>1. Moves(p, "claim", call[p])
    BY <1>2, Answers DEF Moves, Goto, Inv, Typed, Steps
  <2> QED BY <2>1, OnStep DEF Admit, Reader, Persisting
<1> QED BY <1>1, <1>2 DEF Admit

\* A call of an owner that ends marks the claim uncertain.
LEMMA AbandonEnds ==
  ASSUME Inv, NEW p \in Procs, Ends(p), Local(p), UNCHANGED expired,
         Fault \/ UNCHANGED budgets, fate' = Abandoned(p)
  PROVE  Inv'
<1>1. Chances
  BY FaultChance DEF Chances, Abandoned, Inv, Typed
<1>2. row.pending /\ fate' = "none" => fate = "none" /\ ~ Owns(p) /\ ~ Holds(p)
  BY DEF Abandoned
<1> QED BY <1>1, <1>2, EndStep

LEMMA CheckInv == ASSUME Inv, NEW p \in Procs, Check(p) PROVE Inv'
<1>1. CASE Return(p, 0) /\ fate' = Abandoned(p)
  <2>1. Local(p)
    BY Answers DEF Check, Local, upstream
  <2>2. Ends(p)
    BY <1>1, ReturnEnds DEF Inv
  <2> QED BY <1>1, <2>1, <2>2, AbandonEnds DEF Check, upstream
<1>2. CASE Goto(p, "oauth") /\ UNCHANGED <<call, fate>>
  <2>1. Moves(p, "oauth", call[p])
    BY <1>2, Answers DEF Moves, Goto, Inv, Typed, Steps
  <2> QED BY <1>2, <2>1, OnStep DEF Check, Claimer, Persisting
<1> QED BY <1>1, <1>2 DEF Check

LEMMA CrashInv == ASSUME Inv, NEW p \in Procs, Crash(p) PROVE Inv'
<1>1. /\ NoEntry \in Entry /\ ~ NoEntry.dirty
      /\ NoCall \in Locals /\ "idle" \in Steps
  BY DEF NoEntry, Entry, NoCall, Locals, Steps
<1>2. Local(p)
  BY <1>1, Answers DEF Crash, Local, upstream
<1>3. Ends(p)
  BY <1>1, Answers DEF Crash, Ends, Moves, Inv, Typed
<1> QED BY <1>2, <1>3, AbandonEnds DEF Crash, upstream

LEMMA SweepPendingInv == ASSUME Inv, NEW p \in Procs, SweepPending(p) PROVE Inv'
<1>1. Moves(p, "sweep", call[p])
  BY Answers DEF SweepPending, Moves, Inv, Typed, Steps
<1> QED BY <1>1, OnStep DEF SweepPending, Swept, Persisting

LEMMA InvalidateInv == ASSUME Inv, NEW p \in Procs, Invalidate(p) PROVE Inv'
<1>1. NoEntry \in Entry /\ ~ NoEntry.dirty
  BY DEF NoEntry, Entry
<1>2. cache'[p] = cache[p] \/ (cache'[p] = NoEntry /\ ~ cache[p].dirty)
  BY Answers DEF Invalidate, Invalidated
<1>3. Local(p) /\ Chances /\ UNCHANGED fate
  <2>1. cache' \in [Procs -> Entry] /\ \A q \in Procs \ {p} : cache'[q] = cache[q]
    BY <1>1, Answers DEF Invalidate, Invalidated
  <2> QED BY <1>1, <1>2, <2>1, FaultChance DEF Invalidate, Local, Chances, upstream, Inv, Typed
<1>4. Moves(p, at[p], call[p])
  BY Answers DEF Invalidate, Moves, Inv, Typed
<1>5. UNCHANGED <<row, at, call, made, spent, origin, auths>> /\ CallOK(p) /\ EntryOK(p)
  BY DEF Invalidate, upstream, Inv
<1>6. CallOK(p)' /\ EntryOK(p)'
  BY <1>1, <1>2, <1>5 DEF CallOK, Reader, Claimer, EntryOK, Persisting, Holds
<1>7. Remains(p)
  BY <1>1, <1>2, <1>3, <1>5 DEF Remains, Owns, Holds
<1> QED BY <1>3, <1>4, <1>5, <1>6, <1>7, LocalStep DEF Claimer

\* Leases and clocks: nothing the invariant speaks of changes.
LEMMA ClockInv ==
  ASSUME Inv, LeaseLapses \/ StrayExpires \/ (\E t \in Tokens : Expire(t)) \/ UNCHANGED vars
  PROVE  Inv'
<1>1. /\ UNCHANGED <<row, at, call, cache, outdated, auths, fate, made, spent, origin>>
      /\ Fault \/ UNCHANGED budgets
      /\ expired' \subseteq Tokens /\ lease' \in Procs \cup {Free, Stray}
  BY DEF LeaseLapses, StrayExpires, Expire, vars, upstream, budgets, Inv, Typed
<1>2. Typed'
  BY <1>1, FaultChance DEF Inv, Typed
<1>3. RowOK' /\ SpentOnce' /\ AnswersAreCurrent'
  BY <1>1 DEF Inv, RowOK, SpentOnce, AnswersAreCurrent
<1>4. \A p \in Procs : CallOK(p)' /\ EntryOK(p)'
  BY <1>1 DEF Inv, CallOK, Reader, Claimer, EntryOK, Persisting, Holds
<1>5. Apart' /\ ClaimAccounted'
  BY <1>1 DEF Inv, Apart, ClaimAccounted, Completable, Claimer, Holds, Owns
<1> QED BY <1>2, <1>3, <1>4, <1>5 DEF Inv

-----------------------------------------------------------------------------
(* Steps that advance the row's revision.                                   *)

\* A process that does nothing while the revision advances.
LEMMA Bystander ==
  ASSUME Inv, Typed', NEW q \in Procs,
         at'[q] = at[q] /\ call'[q] = call[q] /\ cache'[q] = cache[q],
         row.rev < row'.rev, made <= made', auths <= auths', UNCHANGED spent,
         \A t \in Tokens : t <= made => origin'[t] = origin[t],
         Claimer(q) /\ call[q].token = row'.token => row'.pending
  PROVE  CallOK(q)' /\ EntryOK(q)' /\ ~ Holds(q)' /\ Claimer(q)' = Claimer(q)
<1>1. CallOK(q) /\ EntryOK(q)
  BY DEF Inv
<1>2. /\ row.rev \in Nat /\ row'.rev \in Nat /\ made \in Nat /\ made' \in Nat
      /\ auths \in Nat /\ auths' \in Nat
      /\ call[q] \in Locals /\ cache[q] \in Entry
  BY DEF Inv, Typed, Tokens
<1>3. CallOK(q)'
  <2>1. call[q].since \in Nat /\ call[q].rev \in Nat
    BY <1>2 DEF Locals
  <2>2. call[q].token \in Tokens => call[q].token \in Nat
    BY DEF Tokens
  <2> QED BY <1>1, <1>2, <2>1, <2>2 DEF CallOK, Reader, Claimer
<1>4. EntryOK(q)' /\ ~ Holds(q)'
  <2>1. cache[q].rev \in Nat /\ (cache[q].token \in Tokens => cache[q].token \in Nat)
    BY <1>2 DEF Entry, Tokens
  <2> QED BY <1>1, <1>2, <2>1 DEF EntryOK, Holds, Persisting
<1> QED BY <1>3, <1>4 DEF Claimer

\* S: the processes that take part, one or none.
LEMMA AdvanceStep ==
  ASSUME Inv, Typed', RowOK', NEW S \in SUBSET Procs,
         \A q \in Procs \ S : at'[q] = at[q] /\ call'[q] = call[q] /\ cache'[q] = cache[q],
         row.rev < row'.rev, made <= made', auths <= auths', UNCHANGED <<spent, outdated>>,
         \A t \in Tokens : t <= made => origin'[t] = origin[t],
         \A q \in Procs \ S : Claimer(q) /\ call[q].token = row'.token => row'.pending,
         \A p \in S : CallOK(p)' /\ EntryOK(p)' /\ ~ Holds(p)',
         \A p \in S : Claimer(p)' =>
           S = {p} /\ \A q \in Procs \ S : Claimer(q) => call[q].token # call'[p].token,
         row'.pending /\ fate' = "none" => Completable'
  PROVE  Inv'
<1>1. \A q \in Procs \ S : CallOK(q)' /\ EntryOK(q)' /\ ~ Holds(q)' /\ Claimer(q)' = Claimer(q)
  BY Bystander
<1>2. \A q \in Procs : CallOK(q)' /\ EntryOK(q)' /\ ~ Holds(q)'
  BY <1>1
<1>3. Apart'
  <2> SUFFICES ASSUME NEW p \in Procs, NEW q \in Procs, Claimer(p)', Claimer(q)', p # q
               PROVE  call'[p].token # call'[q].token
    BY <1>2 DEF Apart
  <2>1. CASE p \in S
    BY <1>1, <2>1
  <2>2. CASE q \in S
    BY <1>1, <2>2
  <2>3. CASE p \notin S /\ q \notin S
    BY <1>1, <2>3 DEF Inv, Apart
  <2> QED BY <2>1, <2>2, <2>3
<1>4. SpentOnce' /\ AnswersAreCurrent' /\ ClaimAccounted'
  BY DEF Inv, SpentOnce, AnswersAreCurrent, ClaimAccounted
<1> QED BY <1>2, <1>3, <1>4 DEF Inv

\* Nobody takes part: an administrator's write.
LEMMA WriteStep ==
  ASSUME Inv, Typed', RowOK', UNCHANGED <<at, call, cache>>,
         row.rev < row'.rev, made <= made', auths <= auths', UNCHANGED <<spent, outdated>>,
         \A t \in Tokens : t <= made => origin'[t] = origin[t],
         \A q \in Procs : Claimer(q) /\ call[q].token = row'.token => row'.pending,
         row'.pending /\ fate' = "none" => Completable'
  PROVE  Inv'
<1>1. PICK S \in SUBSET Procs : S = {}
  OBVIOUS
<1>2. /\ \A q \in Procs \ S : at'[q] = at[q] /\ call'[q] = call[q] /\ cache'[q] = cache[q]
      /\ \A q \in Procs \ S : Claimer(q) /\ call[q].token = row'.token => row'.pending
  OBVIOUS
<1>3. /\ \A p \in S : CallOK(p)' /\ EntryOK(p)' /\ ~ Holds(p)'
      /\ \A p \in S : Claimer(p)' =>
           S = {p} /\ \A q \in Procs \ S : Claimer(q) => call[q].token # call'[p].token
  BY <1>1
<1> QED BY <1>2, <1>3, AdvanceStep

LEMMA EditProfileInv == ASSUME Inv, EditProfile PROVE Inv'
<1>1. /\ row' = [row EXCEPT !.rev = row.rev + 1] /\ row.rev \in Nat
      /\ row \in [rev : Nat, pending : BOOLEAN, token : Tokens]
  BY DEF EditProfile, Inv, Typed
<1>2. /\ row'.rev = row.rev + 1 /\ row'.pending = row.pending /\ row'.token = row.token
      /\ row' \in [rev : Nat, pending : BOOLEAN, token : Tokens]
  BY <1>1
<1>3. edits' \in 0..MaxEdits
  BY BoundsAssumption DEF EditProfile, Edit, Inv, Typed
<1>4. UNCHANGED <<lease, at, call, cache, outdated, auths, fate, made, expired, spent, origin, faults>>
  BY DEF EditProfile, Edit, upstream
<1>5. Typed'
  BY <1>2, <1>3, <1>4 DEF Inv, Typed
<1>6. RowOK' /\ auths <= auths' /\ made <= made' /\ row.rev < row'.rev
  BY <1>1, <1>2, <1>4 DEF Inv, RowOK, Typed, Tokens
<1>7. ~ row'.pending /\ \A q \in Procs : Claimer(q) => call[q].token # row'.token
  BY <1>2 DEF EditProfile, Inv, CallOK
<1> QED BY <1>4, <1>5, <1>6, <1>7, WriteStep

LEMMA AdvanceRevisionInv == ASSUME Inv, AdvanceRevision PROVE Inv'
<1>1. /\ row' = [row EXCEPT !.rev = row.rev + 1] /\ row.rev \in Nat
      /\ row \in [rev : Nat, pending : BOOLEAN, token : Tokens]
  BY DEF AdvanceRevision, Inv, Typed
<1>2. /\ row'.rev = row.rev + 1 /\ row'.pending = row.pending /\ row'.token = row.token
      /\ row' \in [rev : Nat, pending : BOOLEAN, token : Tokens]
  BY <1>1
<1>3. edits' \in 0..MaxEdits
  BY BoundsAssumption DEF AdvanceRevision, Edit, Inv, Typed
<1>4. /\ UNCHANGED <<lease, at, call, cache, outdated, auths, made, expired, spent, origin, faults>>
      /\ fate' \in {"none", "uncertain", "fenced"} /\ (row.pending => fate' # "none")
  BY DEF AdvanceRevision, Edit, upstream, Inv, Typed
<1>5. Typed'
  BY <1>2, <1>3, <1>4 DEF Inv, Typed
<1>6. RowOK' /\ auths <= auths' /\ made <= made' /\ row.rev < row'.rev
  BY <1>1, <1>2, <1>4 DEF Inv, RowOK, Typed, Tokens
<1>7. \A q \in Procs : Claimer(q) /\ call[q].token = row'.token => row'.pending
  BY <1>2 DEF Inv, CallOK
<1> QED BY <1>2, <1>4, <1>5, <1>6, <1>7, WriteStep

LEMMA ReauthorizeInv == ASSUME Inv, Reauthorize PROVE Inv'
<1>0. made \in Nat /\ made + 1 \in Tokens /\ auths \in Nat /\ row.rev \in Nat
  BY BoundsAssumption DEF Reauthorize, Inv, Typed, Tokens
<1>1. /\ row'.rev = row.rev + 1 /\ row'.token = made + 1 /\ ~ row'.pending
      /\ row' \in [rev : Nat, pending : BOOLEAN, token : Tokens]
      /\ made' = made + 1 /\ auths' = auths + 1 /\ fate' = "none"
  BY <1>0 DEF Reauthorize
<1>2. /\ origin' \in [Tokens -> Nat] /\ origin'[made + 1] = auths + 1
      /\ \A t \in Tokens : t <= made => origin'[t] = origin[t]
  <2>1. /\ origin \in [Tokens -> Nat] /\ origin' = [origin EXCEPT ![made + 1] = auths + 1]
        /\ \A t \in Tokens : t <= made => t # made + 1
    BY <1>0 DEF Reauthorize, Inv, Typed, Tokens
  <2> QED BY <1>0, <2>1
<1>3. UNCHANGED <<lease, at, call, cache, outdated, expired, spent, edits, faults>>
  BY DEF Reauthorize, budgets
<1>4. Typed'
  BY <1>0, <1>1, <1>2, <1>3 DEF Inv, Typed
<1>5. RowOK'
  <2>1. spent[made + 1] = 0 /\ \A t \in Tokens : made + 1 < t => spent[t] = 0
    <3>1. made < made + 1 /\ \A t \in Tokens : made + 1 < t => made < t
      BY <1>0 DEF Tokens
    <3> QED BY <1>0, <3>1 DEF Inv, RowOK
  <2> QED BY <1>0, <1>1, <1>2, <1>3, <2>1 DEF RowOK
<1>6. \A q \in Procs : Claimer(q) => call[q].token # row'.token
  BY <1>0, <1>1 DEF Inv, CallOK, Tokens
<1>7. row.rev < row'.rev /\ made <= made' /\ auths <= auths'
  BY <1>0, <1>1
<1> QED BY <1>1, <1>2, <1>3, <1>4, <1>5, <1>6, <1>7, WriteStep

\* One process takes part: a store or a claim.
LEMMA OwnStep ==
  ASSUME Inv, Typed', RowOK', NEW p \in Procs, NEW s, NEW v, Moves(p, s, v),
         \A q \in Procs \ {p} : cache'[q] = cache[q],
         row.rev < row'.rev, UNCHANGED <<made, auths, spent, origin>>,
         \A q \in Procs \ {p} : Claimer(q) => call[q].token # row'.token,
         CallOK(p)', EntryOK(p)', ~ Holds(p)',
         Claimer(p)' => call'[p].token = row'.token,
         row'.pending /\ fate' = "none" => Completable'
  PROVE  Inv'
<1>1. PICK S \in SUBSET Procs : S = {p}
  OBVIOUS
<1>2. /\ \A q \in Procs \ S : at'[q] = at[q] /\ call'[q] = call[q] /\ cache'[q] = cache[q]
      /\ UNCHANGED outdated /\ auths \in Nat /\ made \in Nat
  BY <1>1 DEF Moves, Inv, Typed, Tokens
<1>3. /\ made <= made' /\ auths <= auths'
      /\ \A t \in Tokens : t <= made => origin'[t] = origin[t]
  BY <1>2
<1>4. \A q \in Procs \ S : Claimer(q) /\ call[q].token = row'.token => row'.pending
  BY <1>1
<1>5. \A d \in S : CallOK(d)' /\ EntryOK(d)' /\ ~ Holds(d)'
  BY <1>1
<1>6. \A d \in S : Claimer(d)' =>
        S = {d} /\ \A q \in Procs \ S : Claimer(q) => call[q].token # call'[d].token
  BY <1>1
<1> QED BY <1>2, <1>3, <1>4, <1>5, <1>6, AdvanceStep

\* The entry that lands is the rotation the open claim waits for.
LEMMA StoredRow ==
  ASSUME Inv, NEW p \in Procs, cache[p].dirty, Lands(cache[p]), row' = Stored(cache[p]),
         UNCHANGED <<made, auths, spent, origin>>
  PROVE  /\ row' \in [rev : Nat, pending : BOOLEAN, token : Tokens]
         /\ row'.rev = row.rev + 1 /\ row.rev < row'.rev /\ ~ row'.pending
         /\ row'.token = cache[p].token
         /\ RowOK'
         /\ \A q \in Procs : Claimer(q) => call[q].token # row'.token
<1>1. /\ Holds(p) /\ EntryOK(p)
      /\ row.rev \in Nat /\ cache[p] \in Entry
  BY DEF Lands, Holds, Inv, Typed
<1>2. cache[p].token \in Tokens
  BY <1>1 DEF EntryOK
<1>3. /\ row'.rev = row.rev + 1 /\ ~ row'.pending /\ row'.token = cache[p].token
      /\ row' \in [rev : Nat, pending : BOOLEAN, token : Tokens]
  BY <1>1, <1>2 DEF Stored, Lands
<1>4. RowOK'
  BY <1>1, <1>3 DEF Inv, RowOK, EntryOK
<1>5. \A q \in Procs : Claimer(q) => call[q].token # row'.token
  BY <1>1, <1>3 DEF Inv, Apart
<1> QED BY <1>1, <1>3, <1>4, <1>5

\* A replayed store finds the row as it would leave it.
LEMMA ReplayedRow ==
  ASSUME Inv, NEW p \in Procs, cache[p].dirty, Replayed(cache[p])
  PROVE  Stored(cache[p]) = row /\ ~ row.pending /\ ~ Holds(p)
<1>1. /\ row \in [rev : Nat, pending : BOOLEAN, token : Tokens]
      /\ row.rev = cache[p].rev + 1 /\ ~ row.pending /\ row.token = cache[p].token
  BY DEF Replayed, Inv, Typed
<1>2. row = [rev |-> row.rev, pending |-> row.pending, token |-> row.token] /\ row.pending = FALSE
  BY <1>1
<1>3. Stored(cache[p]) = row
  BY <1>1, <1>2 DEF Stored
<1>4. ~ Holds(p)
  BY <1>1 DEF Holds, Inv, EntryOK
<1> QED BY <1>1, <1>3, <1>4

LEMMA AfterPersistMoves ==
  ASSUME Inv, NEW p \in Procs, Persisting(p), AfterPersist(p)
  PROVE  \/ Ends(p)
         \/ \E v \in Locals : v.since = call[p].since /\ Moves(p, "acquire", v)
<1>1. CASE Return(p, 0)
  BY <1>1, ReturnEnds DEF Inv
<1>2. CASE at[p] \in {"repersist", "persist"} /\ Return(p, cache[p].token)
  BY <1>2, Answers, ReturnEnds DEF Inv
<1>3. CASE /\ call' = [call EXCEPT ![p].base = IF @ = 0 THEN 0 ELSE cache[p].rev + 1]
           /\ Goto(p, "acquire")
  <2> DEFINE v == [call[p] EXCEPT !.base = IF call[p].base = 0 THEN 0 ELSE cache[p].rev + 1]
  <2>1. v \in Locals /\ v.since = call[p].since
    BY Answers DEF Locals, Entry
  <2>2. call' = [call EXCEPT ![p] = v]
    BY <1>3, Answers
  <2> HIDE DEF v
  <2>3. Moves(p, "acquire", v)
    BY <1>3, <2>1, <2>2, GotoMoves DEF Inv, Steps
  <2> QED BY <2>1, <2>3
<1> QED BY <1>1, <1>2, <1>3 DEF AfterPersist

LEMMA PersistStoresInv == ASSUME Inv, NEW p \in Procs, PersistStores(p) PROVE Inv'
<1>1. /\ Persisting(p) /\ cache[p].dirty
      /\ row' = Stored(cache[p]) /\ fate' = "none"
      /\ UNCHANGED <<auths, made, expired, spent, origin, edits, faults>>
  BY DEF PersistStores, Inv, EntryOK, upstream, budgets
<1>2. /\ NoEntry \in Entry /\ ~ NoEntry.dirty
      /\ NoCall.since = 0
  BY DEF NoEntry, Entry, NoCall
<1>3. /\ cache' \in [Procs -> Entry] /\ ~ cache'[p].dirty
      /\ \A q \in Procs \ {p} : cache'[q] = cache[q]
  BY <1>2, Answers DEF PersistStores
<1>4. PICK s \in {"idle", "acquire"}, v \in Locals :
        Moves(p, s, v) /\ (s = "idle" => v = NoCall) /\ (s = "acquire" => v.since = call[p].since)
  <2>1. NoCall \in Locals
    BY DEF NoCall, Locals
  <2> QED BY <1>1, <2>1, AfterPersistMoves DEF PersistStores, Ends
<1>5. v.since <= auths
  BY <1>2, <1>4 DEF Inv, CallOK, Typed
<1>6. at'[p] = s /\ call'[p] = v
  BY <1>4 DEF Moves
<1>7. CASE Replayed(cache[p])
  <2>1. UNCHANGED row /\ ~ row.pending
    BY <1>1, <1>7, ReplayedRow
  <2>2. Local(p) /\ Chances /\ Remains(p)
    BY <1>1, <1>3, <2>1 DEF Local, Chances, Remains, Inv, Typed
  <2>3. CASE s = "idle"
    BY <1>4, <2>1, <2>2, <2>3, EndStep DEF Ends
  <2>4. CASE s = "acquire"
    BY <1>3, <1>4, <1>5, <2>2, <2>4, GoStep
  <2> QED BY <1>4, <2>3, <2>4
<1>8. CASE Lands(cache[p])
  <2>1. /\ row' \in [rev : Nat, pending : BOOLEAN, token : Tokens]
        /\ row.rev < row'.rev /\ ~ row'.pending /\ RowOK'
        /\ \A q \in Procs : Claimer(q) => call[q].token # row'.token
    BY <1>1, <1>8, StoredRow
  <2>2. Typed'
    BY <1>1, <1>3, <1>4, <2>1 DEF Typed, Moves, Inv
  <2>3. CallOK(p)' /\ EntryOK(p)' /\ ~ Holds(p)' /\ ~ Claimer(p)'
    BY <1>1, <1>3, <1>4, <1>5, <1>6 DEF CallOK, Reader, Claimer, EntryOK, Persisting, Holds
  <2> QED BY <1>1, <1>3, <1>4, <2>1, <2>2, <2>3, OwnStep
<1> QED BY <1>7, <1>8 DEF PersistStores

LEMMA StoreFailsInv == ASSUME Inv, NEW p \in Procs, StoreFails(p) PROVE Inv'
<1>1. /\ Persisting(p) /\ cache[p].dirty /\ ~ Owns(p) /\ EntryOK(p) /\ CallOK(p)
      /\ UNCHANGED <<cache, auths, made, expired, spent, origin, edits>>
      /\ edits' \in 0..MaxEdits /\ faults' \in 0..MaxFaults
  BY FaultChance DEF StoreFails, Fault, Inv, EntryOK, upstream, Persisting, Owns
<1>2. CASE GivesUp(p)
  <2>1. Ends(p)
    BY <1>1, <1>2, GivesUpEnds
  <2>2. at'[p] = "idle" /\ call'[p] = NoCall
    BY <2>1 DEF Ends, Moves
  <2>3. CASE UNCHANGED <<row, fate>>
    <3>1. Local(p) /\ Chances
      BY <1>1, <2>3, Answers DEF Local, Chances, Inv, Typed
    <3> QED BY <1>1, <2>1, <2>3, <3>1, EndStep
  <2>4. CASE Lands(cache[p]) /\ row' = Stored(cache[p]) /\ fate' = "none"
    <3>1. /\ row' \in [rev : Nat, pending : BOOLEAN, token : Tokens]
          /\ row'.rev = row.rev + 1 /\ row.rev < row'.rev /\ ~ row'.pending /\ RowOK'
          /\ \A q \in Procs : Claimer(q) => call[q].token # row'.token
      BY <1>1, <2>4, StoredRow
    <3>2. Typed'
      BY <1>1, <2>1, <2>4, <3>1 DEF Typed, Ends, Moves, Inv
    <3>3. CallOK(p)'
      BY <1>1, <2>2 DEF CallOK, Reader, Claimer, NoCall, Inv, Typed
    <3>4. EntryOK(p)' /\ ~ Holds(p)' /\ ~ Claimer(p)'
      <4>1. row.rev \in Nat /\ row'.rev # cache[p].rev /\ cache[p].rev <= row'.rev
        BY <2>4, <3>1 DEF Lands, Inv, Typed
      <4> QED BY <1>1, <2>2, <4>1 DEF Claimer, EntryOK, Persisting, Holds
    <3> QED BY <1>1, <2>1, <3>1, <3>2, <3>3, <3>4, OwnStep DEF Ends
  <2> QED BY <2>3, <2>4 DEF StoreFails
<1>3. CASE Goto(p, at[p]) /\ UNCHANGED call
  <2>1. Moves(p, at[p], call[p])
    BY <1>3, Answers DEF Moves, Goto, Inv, Typed
  <2>2. UNCHANGED at /\ UNCHANGED call
    BY <1>3, Answers DEF Goto
  <2>3. CASE UNCHANGED <<row, fate>>
    <3>1. Local(p) /\ Chances /\ Remains(p)
      BY <1>1, <2>2, <2>3, Answers DEF Local, Chances, Remains, Owns, Holds, Inv, Typed
    <3>2. CallOK(p)' /\ EntryOK(p)'
      BY <1>1, <2>2, <2>3 DEF CallOK, Reader, Claimer, EntryOK, Persisting, Holds
    <3> QED BY <2>1, <2>2, <3>1, <3>2, LocalStep DEF Claimer
  <2>4. CASE Lands(cache[p]) /\ row' = Stored(cache[p]) /\ fate' = "none"
    <3>1. /\ row' \in [rev : Nat, pending : BOOLEAN, token : Tokens]
          /\ row'.rev = row.rev + 1 /\ row.rev < row'.rev /\ ~ row'.pending /\ RowOK'
          /\ \A q \in Procs : Claimer(q) => call[q].token # row'.token
      BY <1>1, <2>4, StoredRow
    <3>2. Typed'
      BY <1>1, <2>1, <2>4, <3>1 DEF Typed, Moves, Inv
    <3>3. CallOK(p)'
      BY <1>1, <2>2 DEF CallOK, Reader, Claimer, Persisting
    <3>4. EntryOK(p)' /\ ~ Holds(p)' /\ ~ Claimer(p)'
      <4>1. row.rev \in Nat /\ row'.rev # cache[p].rev /\ cache[p].rev <= row'.rev
        BY <2>4, <3>1 DEF Lands, Inv, Typed
      <4> QED BY <1>1, <2>2, <4>1 DEF Claimer, EntryOK, Persisting, Holds
    <3> QED BY <1>1, <2>1, <3>1, <3>2, <3>3, <3>4, OwnStep
  <2> QED BY <2>3, <2>4 DEF StoreFails
<1> QED BY <1>2, <1>3 DEF StoreFails

\* A claim is durable before its owner uses it.
LEMMA ClaimedRow ==
  ASSUME Inv, NEW p \in Procs, at[p] = "claim", Claimable(p), row' = Claimed,
         UNCHANGED <<made, auths, spent, origin>>
  PROVE  /\ row' \in [rev : Nat, pending : BOOLEAN, token : Tokens]
         /\ row'.rev = row.rev + 1 /\ row.rev < row'.rev /\ row'.pending
         /\ row'.token = row.token /\ call[p].token = row.token /\ spent[row.token] = 0
         /\ row.rev \in Nat
         /\ RowOK' /\ ~ cache[p].dirty
         /\ \A q \in Procs : Claimer(q) => call[q].token # row'.token
<1>1. /\ row \in [rev : Nat, pending : BOOLEAN, token : Tokens]
      /\ row' = [row EXCEPT !.rev = row.rev + 1, !.pending = TRUE]
  BY DEF Claimed, Inv, Typed
<1>2. /\ row' \in [rev : Nat, pending : BOOLEAN, token : Tokens]
      /\ row'.rev = row.rev + 1 /\ row.rev < row'.rev /\ row'.pending
      /\ row'.token = row.token /\ row.rev \in Nat
  <2>1. row.rev \in Nat /\ row.rev + 1 \in Nat /\ row.rev < row.rev + 1
    BY <1>1
  <2>2. row'.rev = row.rev + 1 /\ row'.pending = TRUE /\ row'.token = row.token
    BY <1>1
  <2>3. row' \in [rev : Nat, pending : BOOLEAN, token : Tokens]
    BY <1>1, <2>1
  <2> QED BY <2>1, <2>2, <2>3
<1>3. call[p].token = row.token /\ ~ row.pending
  BY DEF Claimable, Inv, CallOK, Reader
<1>4. RowOK' /\ spent[row.token] = 0 /\ ~ cache[p].dirty
  BY <1>2, <1>3 DEF Inv, RowOK, EntryOK
<1>5. \A q \in Procs : Claimer(q) => call[q].token # row'.token
  BY <1>2, <1>3 DEF Inv, CallOK
<1> QED BY <1>2, <1>3, <1>4, <1>5

LEMMA ClaimInv == ASSUME Inv, NEW p \in Procs, Claim(p) PROVE Inv'
<1>1. /\ UNCHANGED <<cache, auths, fate, made, expired, spent, origin, edits, faults>>
      /\ at[p] = "claim" /\ Claimable(p) /\ row' = Claimed
  BY DEF Claim, upstream, budgets
<1>2. /\ row' \in [rev : Nat, pending : BOOLEAN, token : Tokens]
      /\ row'.rev = row.rev + 1 /\ row.rev < row'.rev /\ row'.pending
      /\ row'.token = row.token /\ call[p].token = row.token /\ spent[row.token] = 0
      /\ row.rev \in Nat
      /\ RowOK' /\ ~ cache[p].dirty
      /\ \A q \in Procs : Claimer(q) => call[q].token # row'.token
  BY <1>1, ClaimedRow
<1> DEFINE v == [call[p] EXCEPT !.rev = row.rev + 1]
<1>3. v \in Locals /\ v.rev = row.rev + 1 /\ v.token = call[p].token /\ v.since = call[p].since
  BY <1>2, Answers DEF Locals
<1>4. call' = [call EXCEPT ![p] = v]
  BY Answers DEF Claim
<1> HIDE DEF v
<1>5. Moves(p, "check", v)
  BY <1>3, <1>4, GotoMoves DEF Claim, Inv, Steps
<1>6. at'[p] = "check" /\ call'[p] = v
  BY <1>5 DEF Moves
<1>7. Typed'
  BY <1>1, <1>2, <1>5 DEF Typed, Moves, Inv
<1>8. CallOK(p)'
  <2>1. call[p].since <= auths /\ call[p].since <= origin[call[p].token]
        /\ call[p].token <= made /\ call[p].token \in Tokens
    BY <1>1 DEF Inv, CallOK, Reader
  <2>2. /\ call'[p].token = row'.token /\ call'[p].rev = row'.rev
        /\ call'[p].since = call[p].since
    BY <1>2, <1>3, <1>6
  <2>3. row'.rev \in Nat
    BY <1>2
  <2> QED BY <1>1, <1>2, <1>6, <2>1, <2>2, <2>3 DEF CallOK, Reader, Claimer
<1>9. EntryOK(p)' /\ ~ Holds(p)' /\ Owns(p)'
  BY <1>1, <1>2, <1>3, <1>6 DEF EntryOK, Persisting, Holds, Owns
<1>10. call'[p].token = row'.token /\ Completable'
  BY <1>2, <1>3, <1>6, <1>9 DEF Completable
<1> QED BY <1>1, <1>2, <1>5, <1>7, <1>8, <1>9, <1>10, OwnStep

LEMMA ClaimAnswerLostInv == ASSUME Inv, NEW p \in Procs, ClaimAnswerLost(p) PROVE Inv'
<1>1. /\ UNCHANGED <<cache, auths, made, expired, spent, origin>>
      /\ edits' \in 0..MaxEdits /\ faults' \in 0..MaxFaults
      /\ at[p] = "claim" /\ Claimable(p) /\ row' = Claimed /\ fate' = "uncertain"
  BY FaultChance DEF ClaimAnswerLost, upstream, Inv
<1>2. /\ row' \in [rev : Nat, pending : BOOLEAN, token : Tokens]
      /\ row.rev < row'.rev /\ RowOK' /\ ~ cache[p].dirty
      /\ \A q \in Procs : Claimer(q) => call[q].token # row'.token
  BY <1>1, ClaimedRow
<1>3. Ends(p)
  BY ReturnEnds DEF ClaimAnswerLost, Inv
<1>4. at'[p] = "idle" /\ call'[p] = NoCall
  BY <1>3 DEF Ends, Moves
<1>5. Typed'
  BY <1>1, <1>2, <1>3 DEF Typed, Ends, Moves, Inv
<1>6. CallOK(p)' /\ EntryOK(p)' /\ ~ Holds(p)' /\ ~ Claimer(p)'
  BY <1>1, <1>2, <1>4
  DEF CallOK, Reader, Claimer, NoCall, EntryOK, Persisting, Holds, Inv, Typed
<1> QED BY <1>1, <1>2, <1>3, <1>5, <1>6, OwnStep DEF Ends

-----------------------------------------------------------------------------
(* The upstream.                                                            *)

\* Presenting a claimed token: it was unspent, and only its claimer had it.
LEMMA Presented ==
  ASSUME Inv, NEW p \in Procs, at[p] = "oauth",
         spent' \in {spent, [spent EXCEPT ![call[p].token] = @ + 1]}
  PROVE  /\ spent' \in [Tokens -> Nat] /\ \A t \in Tokens : spent'[t] <= 1
         /\ call[p].token \in Tokens /\ call[p].token <= made
         /\ call[p].since <= origin[call[p].token]
         /\ \A t \in Tokens : t # call[p].token => spent'[t] = spent[t]
         /\ call[p].token = row.token => row.pending
         /\ call[p].rev = row.rev => row.pending /\ call[p].token = row.token
         /\ call[p].rev <= row.rev
         /\ \A q \in Procs : Holds(q) => cache[q].token # call[p].token
         /\ \A q \in Procs \ {p} : Claimer(q) => call[q].token # call[p].token
<1>1. /\ CallOK(p) /\ Claimer(p)
      /\ spent \in [Tokens -> Nat] /\ SpentOnce
  BY DEF Inv, Typed, Claimer
<1>2. /\ call[p].token \in Tokens /\ spent[call[p].token] = 0
  BY <1>1 DEF CallOK
<1>3. /\ spent' \in [Tokens -> Nat]
      /\ \A t \in Tokens : t # call[p].token => spent'[t] = spent[t]
      /\ spent'[call[p].token] \in {0, 1}
  BY <1>1, <1>2
<1>4. \A t \in Tokens : spent'[t] <= 1
  BY <1>1, <1>2, <1>3 DEF SpentOnce
<1>5. \A q \in Procs : Holds(q) => cache[q].token # call[p].token
  BY <1>1 DEF Inv, Apart
<1>6. \A q \in Procs \ {p} : Claimer(q) => call[q].token # call[p].token
  BY <1>1 DEF Inv, Apart
<1> QED BY <1>1, <1>2, <1>3, <1>4, <1>5, <1>6 DEF CallOK

LEMMA RotateFailsInv == ASSUME Inv, NEW p \in Procs, RotateFails(p) PROVE Inv'
<1>1. /\ at[p] = "oauth" /\ fate' = Abandoned(p)
      /\ UNCHANGED <<row, cache, made, expired, origin, auths, edits, faults>>
      /\ spent' \in [Tokens -> Nat] /\ \A t \in Tokens : spent'[t] <= 1
      /\ call[p].token <= made
      /\ \A t \in Tokens : t # call[p].token => spent'[t] = spent[t]
      /\ call[p].token = row.token => row.pending
      /\ \A q \in Procs : Holds(q) => cache[q].token # call[p].token
      /\ \A q \in Procs \ {p} : Claimer(q) => call[q].token # call[p].token
  BY Presented DEF RotateFails, budgets
<1>2. Ends(p)
  BY ReturnEnds DEF RotateFails, Inv
<1>3. /\ at'[p] = "idle" /\ call'[p] = NoCall
      /\ \A q \in Procs \ {p} : at'[q] = at[q] /\ call'[q] = call[q]
      /\ UNCHANGED outdated
  BY <1>2 DEF Ends, Moves
<1>4. Typed'
  BY <1>1, <1>2 DEF Typed, Ends, Moves, Abandoned, Inv
<1>5. RowOK' /\ SpentOnce' /\ AnswersAreCurrent'
  <2>1. \A t \in Tokens : made < t => t # call[p].token
    BY <1>1 DEF Inv, Typed, Tokens
  <2>2. row.token \in Tokens /\ RowOK
    BY DEF Inv, Typed
  <2> QED BY <1>1, <1>3, <2>1, <2>2 DEF RowOK, SpentOnce, AnswersAreCurrent, Inv
<1>6. ASSUME NEW q \in Procs
      PROVE  CallOK(q)' /\ EntryOK(q)'
  <2>1. CallOK(q) /\ EntryOK(q)
    BY DEF Inv
  <2>2. CASE q = p
    <3>1. CallOK(p)'
      BY <1>1, <1>3 DEF CallOK, Reader, Claimer, NoCall, Inv, Typed
    <3>2. EntryOK(p)'
      BY <1>1, <1>3, <2>1, <2>2 DEF EntryOK, Persisting, Holds
    <3> QED BY <2>2, <3>1, <3>2
  <2>3. CASE q # p
    <3>1. CallOK(q)'
      BY <1>1, <1>3, <2>1, <2>3 DEF CallOK, Reader, Claimer
    <3>2. EntryOK(q)'
      BY <1>1, <1>3, <2>1, <2>3 DEF EntryOK, Persisting, Holds
    <3> QED BY <3>1, <3>2
  <2> QED BY <2>2, <2>3
<1>7. \A q \in Procs : /\ Claimer(q)' => q # p /\ Claimer(q) /\ call'[q] = call[q]
                       /\ Holds(q)' = Holds(q)
  BY <1>1, <1>3 DEF Claimer, Holds
<1>8. Apart'
  BY <1>1, <1>7 DEF Inv, Apart
<1>9. ClaimAccounted'
  <2> SUFFICES ASSUME row.pending, fate' = "none" PROVE Completable'
    BY <1>1 DEF ClaimAccounted
  <2>1. fate = "none" /\ ~ Owns(p) /\ ~ Holds(p)
    BY <1>1 DEF Abandoned
  <2>2. PICK q \in Procs \ {p} : Owns(q) \/ Holds(q)
    BY <2>1 DEF Inv, ClaimAccounted, Completable
  <2>3. Owns(q)' \/ Holds(q)'
    BY <1>1, <1>3, <2>2 DEF Owns, Holds
  <2> QED BY <2>3 DEF Completable
<1> QED BY <1>4, <1>5, <1>6, <1>8, <1>9 DEF Inv

LEMMA RotateInv == ASSUME Inv, NEW p \in Procs, Rotate(p) PROVE Inv'
<1>0. PICK t \in Nat : t = made + 1
  BY DEF Inv, Typed, Tokens
<1>1. /\ at[p] = "oauth" /\ ~ cache[p].dirty /\ t \in Tokens /\ made \in Nat
      /\ UNCHANGED <<row, call, expired, auths, fate, edits, faults>>
      /\ made' = t /\ origin' = [origin EXCEPT ![t] = origin[call[p].token]]
      /\ spent' = [spent EXCEPT ![call[p].token] = @ + 1]
      /\ cache' = [cache EXCEPT ![p] = [token |-> t, rev |-> call[p].rev, dirty |-> TRUE]]
      /\ Goto(p, "persist")
  <2>0. at[p] = "oauth" /\ EntryOK(p) /\ made \in Tokens
    BY DEF Rotate, Inv, Typed
  <2>1. ~ cache[p].dirty /\ made \in Nat
    BY <2>0 DEF EntryOK, Tokens
  <2>2. t \in Tokens
    BY <1>0, <2>1, BoundsAssumption DEF Rotate, Tokens
  <2> QED BY <1>0, <2>1, <2>2 DEF Rotate, budgets
<1>2. /\ spent' \in [Tokens -> Nat] /\ \A u \in Tokens : spent'[u] <= 1
      /\ call[p].token \in Tokens /\ call[p].token <= made
      /\ call[p].since <= origin[call[p].token]
      /\ \A u \in Tokens : u # call[p].token => spent'[u] = spent[u]
      /\ call[p].token = row.token => row.pending
      /\ call[p].rev = row.rev => row.pending /\ call[p].token = row.token
      /\ call[p].rev <= row.rev
      /\ \A q \in Procs : Holds(q) => cache[q].token # call[p].token
      /\ \A q \in Procs \ {p} : Claimer(q) => call[q].token # call[p].token
  BY <1>1, Presented
<1>3. /\ at'[p] = "persist" /\ at' \in [Procs -> Steps] /\ UNCHANGED <<outdated, lease, call>>
      /\ \A q \in Procs \ {p} : at'[q] = at[q]
  BY <1>1, Answers DEF Goto, Steps
<1>4. /\ cache' \in [Procs -> Entry]
      /\ cache'[p] = [token |-> t, rev |-> call[p].rev, dirty |-> TRUE]
      /\ \A q \in Procs \ {p} : cache'[q] = cache[q]
  <2>1. [token |-> t, rev |-> call[p].rev, dirty |-> TRUE] \in Entry
    BY <1>1, Answers DEF Entry, Locals
  <2> QED BY <1>1, <2>1, Answers
<1>5. /\ origin' \in [Tokens -> Nat] /\ origin'[t] = origin[call[p].token]
      /\ \A u \in Tokens : u <= made => u # t /\ origin'[u] = origin[u]
  <2>1. origin \in [Tokens -> Nat] /\ \A u \in Tokens : u <= made => u # t
    BY <1>0, <1>1 DEF Inv, Typed, Tokens
  <2> QED BY <1>1, <1>2, <2>1
<1>6. Typed'
  BY <1>1, <1>2, <1>3, <1>4, <1>5 DEF Inv, Typed
<1>7. RowOK' /\ SpentOnce' /\ AnswersAreCurrent'
  <2>1. \A u \in Tokens : t < u => made < u /\ u # call[p].token
    BY <1>0, <1>1, <1>2 DEF Tokens
  <2>2. row.token \in Tokens /\ row.token <= made /\ row.token <= t
    BY <1>0, <1>1 DEF Inv, Typed, RowOK, Tokens
  <2>3. RowOK
    BY DEF Inv
  <2>4. RowOK'
    BY <1>1, <1>2, <1>5, <2>1, <2>2, <2>3 DEF RowOK
  <2> QED BY <1>2, <1>3, <2>4 DEF SpentOnce, AnswersAreCurrent, Inv
<1>8. spent'[t] = 0 /\ t # call[p].token
  BY <1>0, <1>1, <1>2 DEF Inv, RowOK, Tokens
<1>9. ASSUME NEW q \in Procs
      PROVE  CallOK(q)' /\ EntryOK(q)'
  <2>1. CallOK(q) /\ EntryOK(q)
    BY DEF Inv
  <2>2. CASE q = p
    <3>1. CallOK(p)'
      BY <1>1, <1>3, <2>1, <2>2 DEF CallOK, Reader, Claimer
    <3>2. cache'[p].token = t /\ cache'[p].rev = call[p].rev /\ cache'[p].dirty
      BY <1>4
    <3>3. Holds(p)' => row.pending /\ origin'[t] = auths
      BY <1>1, <1>2, <1>5, <3>2 DEF Holds, Inv, RowOK
    <3>4. t <= made'
      BY <1>0, <1>1
    <3>5. EntryOK(p)'
      BY <1>1, <1>2, <1>3, <1>5, <1>8, <3>2, <3>3, <3>4 DEF EntryOK, Persisting
    <3> QED BY <2>2, <3>1, <3>5
  <2>3. CASE q # p
    <3>1. CallOK(q)'
      <4>1. call[q].token \in Tokens => call[q].token \in Nat
        BY DEF Tokens
      <4> QED BY <1>0, <1>1, <1>2, <1>3, <1>5, <2>1, <2>3, <4>1 DEF CallOK, Reader, Claimer
    <3>2. EntryOK(q)'
      <4>1. cache[q].token \in Tokens => cache[q].token \in Nat
        BY DEF Tokens
      <4>2. Holds(q)' = Holds(q)
        BY <1>1, <1>4, <2>3 DEF Holds
      <4>3. Persisting(q) => cache[q].dirty
        BY <2>1 DEF EntryOK
      <4>4. cache[q].dirty =>
              /\ origin'[cache[q].token] = origin[cache[q].token]
              /\ cache[q].token <= made'
        BY <1>0, <1>1, <1>5, <2>1, <4>1 DEF EntryOK
      <4>5. Holds(q) => cache[q].dirty /\ spent'[cache[q].token] = spent[cache[q].token]
        BY <1>2, <2>1 DEF EntryOK, Holds
      <4>6. /\ cache'[q] = cache[q] /\ at'[q] = at[q] /\ call'[q] = call[q]
            /\ UNCHANGED <<row, auths>>
        BY <1>1, <1>3, <1>4, <2>3
      <4> QED BY <2>1, <4>2, <4>3, <4>4, <4>5, <4>6 DEF EntryOK, Persisting
    <3> QED BY <3>1, <3>2
  <2> QED BY <2>2, <2>3
<1>10. Apart'
  <2>1. ASSUME NEW q \in Procs, Claimer(q)'
        PROVE  q # p /\ Claimer(q) /\ call'[q] = call[q] /\ call[q].token # t
    BY <1>0, <1>1, <1>3, <2>1 DEF Claimer, Inv, CallOK, Tokens
  <2>2. ASSUME NEW d \in Procs, NEW q \in Procs, Claimer(q)', Holds(d)'
        PROVE  cache'[d].token # call'[q].token
    <3>1. CASE d = p
      BY <1>4, <2>1, <2>2, <3>1
    <3>2. CASE d # p
      BY <1>1, <1>4, <2>1, <2>2, <3>2 DEF Inv, Apart, Holds
    <3> QED BY <3>1, <3>2
  <2>3. ASSUME NEW d \in Procs, NEW q \in Procs, Claimer(q)', Claimer(d)', d # q
        PROVE  call'[d].token # call'[q].token
    BY <2>1, <2>3 DEF Inv, Apart
  <2> QED BY <2>2, <2>3 DEF Apart
<1>11. ClaimAccounted'
  <2> SUFFICES ASSUME row.pending, fate = "none" PROVE Completable'
    BY <1>1 DEF ClaimAccounted
  <2>1. PICK q \in Procs : Owns(q) \/ Holds(q)
    BY DEF Inv, ClaimAccounted, Completable
  <2>2. CASE q = p
    BY <1>1, <1>4, <2>1, <2>2 DEF Owns, Holds, Completable
  <2>3. CASE q # p
    BY <1>1, <1>3, <1>4, <2>1, <2>3 DEF Owns, Holds, Completable
  <2> QED BY <2>2, <2>3
<1> QED BY <1>6, <1>7, <1>9, <1>10, <1>11 DEF Inv

-----------------------------------------------------------------------------
(* The theorems.                                                            *)

LEMMA InitInv == Init => Inv
<1> SUFFICES ASSUME Init PROVE Inv
  OBVIOUS
<1>1. 1 \in Tokens
  BY BoundsAssumption DEF Tokens
<1>2. Typed
  <2>1. NoCall \in Locals /\ NoEntry \in Entry /\ "idle" \in Steps
    BY DEF NoCall, Locals, NoEntry, Entry, Steps
  <2> QED BY <1>1, <2>1, BoundsAssumption DEF Init, Typed
<1>3. RowOK /\ SpentOnce /\ AnswersAreCurrent
  BY <1>1 DEF Init, RowOK, SpentOnce, AnswersAreCurrent, Tokens
<1>4. \A p \in Procs : CallOK(p) /\ EntryOK(p) /\ ~ Claimer(p)
  BY DEF Init, CallOK, Reader, Claimer, NoCall, EntryOK, Persisting, Holds, NoEntry
<1>5. Apart /\ ClaimAccounted
  BY <1>4 DEF Init, Apart, ClaimAccounted
<1> QED BY <1>2, <1>3, <1>4, <1>5 DEF Inv

LEMMA NextInv == Inv /\ [Next]_vars => Inv'
<1> SUFFICES ASSUME Inv, [Next]_vars PROVE Inv'
  OBVIOUS
<1>1. ASSUME NEW p \in Procs, Proceed(p) PROVE Inv'
  BY <1>1, PersistStoresInv, PersistConflictsInv, AcquireInv, BusyInv, ReloadInv, AdmitInv,
     ClaimInv, ClaimConflictsInv, CheckInv, RotateInv, RotateFailsInv DEF Proceed
<1>2. ASSUME NEW p \in Procs, NEW force \in BOOLEAN, ResolvePending(p, force) \/ Resolve(p, force)
      PROVE  Inv'
  BY <1>2, ResolvePendingInv, ResolveInv
<1>3. ASSUME NEW p \in Procs, SweepPending(p) \/ Invalidate(p) PROVE Inv'
  BY <1>3, SweepPendingInv, InvalidateInv
<1>4. ASSUME NEW p \in Procs,
             StoreFails(p) \/ StepFails(p) \/ ClaimAnswerLost(p) \/ Crash(p)
      PROVE  Inv'
  BY <1>4, StoreFailsInv, StepFailsInv, ClaimAnswerLostInv, CrashInv
<1>5. CASE Reauthorize \/ EditProfile \/ AdvanceRevision
  BY <1>5, ReauthorizeInv, EditProfileInv, AdvanceRevisionInv
<1>6. CASE LeaseLapses \/ StrayExpires \/ (\E t \in Tokens : Expire(t)) \/ UNCHANGED vars
  BY <1>6, ClockInv
<1> QED BY <1>1, <1>2, <1>3, <1>4, <1>5, <1>6 DEF Next

LEMMA Invariant == Spec => []Inv
BY InitInv, NextInv, PTL DEF Spec

\* Type correctness: a stored rotation is a token that was issued, though the
\* entry it comes from may hold none (persistWithRetry stores pending entries).
THEOREM Types == Spec => []TypeOK
<1>1. Inv => TypeOK
  BY DEF Inv, Typed, TypeOK, Entry, Locals
<1> QED BY <1>1, Invariant, PTL

\* However many processes refresh an account, whatever their leases do and
\* whoever dies, a refresh token is presented to the upstream at most once
\* (ClaimRefresh is the fence, not the lease).
THEOREM OnePresentation == Spec => []SpentOnce
<1>1. Inv => SpentOnce
  BY DEF Inv
<1> QED BY <1>1, Invariant, PTL

\* No late store of a rotation undoes a new authorization by an administrator
\* (the revision condition of StoreSubscriptionCredentials).
THEOREM AuthorizationStands == Spec => []NewAuthorizationKept
<1>1. Inv => NewAuthorizationKept
  BY DEF Inv, RowOK, NewAuthorizationKept
<1> QED BY <1>1, Invariant, PTL

\* A call never answers with a token of an authorization that was replaced
\* before the call began (pending memory is compared with the durable row).
THEOREM CurrentAnswers == Spec => []AnswersAreCurrent
<1>1. Inv => AnswersAreCurrent
  BY DEF Inv
<1> QED BY <1>1, Invariant, PTL

\* An open claim that no fault or fencing write orphaned has a process that can
\* still complete it (ClaimRefresh, then the rotation kept in tokenCache).
THEOREM ClaimsHaveOwners == Spec => []ClaimAccounted
<1>1. Inv => ClaimAccounted
  BY DEF Inv
<1> QED BY <1>1, Invariant, PTL
=============================================================================
