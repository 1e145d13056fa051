------------------------- MODULE LoginLockoutProofs -------------------------
(* What LoginLockout's runs check on four requests, proved for any number of *)
(* them and any configuration of the lockout.                                *)
EXTENDS LoginLockout, FiniteSetTheorems, TLAPS

-----------------------------------------------------------------------------
(* Types.                                                                    *)

LEMMA DurationPositive == Duration \in Nat /\ Duration >= 1
BY LockoutConstants DEF Duration, Max1

LEMMA ThresholdPositive == Threshold \in Nat /\ Threshold >= 1
BY LockoutConstants DEF Threshold, Max1

\* A compare-and-swap and a conditional delete leave a storable state.
LEMMA StoreTypes ==
    ASSUME NEW s \in Stored, NEW h \in BOOLEAN, NEW e \in Stored, NEW n \in Stored
    PROVE  /\ TryReplace(s, h, e, n).row \in Stored
           /\ TryDelete(s, h, e).row \in Stored
           /\ Visible(s, h) \in Stored
BY DEF TryReplace, TryDelete, Visible, Stored

LEMMA GoneType == Gone \in BOOLEAN
BY DEF Gone

\* One more failure makes a well-formed counter.
LEMMA CountedType ==
    ASSUME NEW r \in Requests, NEW s \in Stored, NEW t \in Nat
    PROVE  Counted(r, s, t) \in LockoutState
<1>1. CASE s \notin LockoutState
  BY <1>1, DurationPositive DEF Counted, LockoutState, Never
<1>2. CASE s \in LockoutState
  BY <1>2, DurationPositive DEF Counted, LockoutState, Never
<1> QED BY <1>1, <1>2

\* The locals a handler may go on with.
LEMMA BlankType == Blank \in Locals
BY LockoutConstants DEF Blank, Locals, Submitted, Hash, AllStandings, Stored

LEMMA ContinueType ==
    ASSUME TypeOK, NEW r \in Requests, NEW label \in Labels, NEW l \in Locals,
           Continue(r, label, l)
    PROVE  pc' \in [Requests -> Labels] /\ reply' \in [Requests -> Replies]
           /\ local' \in [Requests -> Locals]
BY DEF TypeOK, Continue

LEMMA AnswerType ==
    ASSUME TypeOK, NEW r \in Requests, NEW a \in Replies, Answer(r, a)
    PROVE  pc' \in [Requests -> Labels] /\ reply' \in [Requests -> Replies]
           /\ local' \in [Requests -> Locals]
BY BlankType DEF TypeOK, Answer, Labels

LEMMA RetryType ==
    ASSUME TypeOK, NEW r \in Requests, NEW label \in Labels, Retry(r, label)
    PROVE  pc' \in [Requests -> Labels] /\ reply' \in [Requests -> Replies]
           /\ local' \in [Requests -> Locals]
<1> USE DEF Retry
<1>1. CASE local[r].tries + 1 < MaxConcurrencyRetries /\ Continue(r, label, Again(local[r]))
  <2>1. local[r] \in Locals BY DEF TypeOK
  <2>a. local[r].tries + 1 \in 0 .. MaxConcurrencyRetries - 1
    BY <2>1, <1>1, LockoutConstants DEF Locals
  <2>b. NoState \in Stored /\ NoState \in LockoutState \cup {NoState} /\ 0 \in Nat
    BY DEF Stored
  <2>2. Again(local[r]) \in Locals
    BY <2>1, <2>a, <2>b DEF Again, Locals
  <2> QED BY <1>1, <2>2, ContinueType
<1>2. CASE Answer(r, "AccountLocked")
  BY <1>2, AnswerType DEF Replies
<1> QED BY <1>1, <1>2

\* Every action keeps every variable in its type.
LEMMA TypePreserved == ASSUME TypeOK, [Next]_vars PROVE TypeOK'
<1> USE LockoutConstants, DistinctStates
<1>loc. \A r \in Requests : local[r] \in Locals
  BY DEF TypeOK
<1>none. NoState \in Stored /\ NoState \in LockoutState \cup {NoState}
  BY DEF Stored
<1>1. ASSUME NEW r \in Requests, Start(r) PROVE TypeOK'
  <2>1. CASE Answer(r, "InvalidCredentials")
    BY <1>1, <2>1, AnswerType DEF TypeOK, Start, Replies, world, store
  <2>2. ASSUME NEW p \in Submitted,
               Continue(r, "gateRead",
                        [Blank EXCEPT !.entered = p, !.hash = hash, !.standing = standing])
        PROVE  TypeOK'
    <3>1. [Blank EXCEPT !.entered = p, !.hash = hash, !.standing = standing] \in Locals
      BY BlankType DEF Locals, TypeOK
    <3> QED BY <1>1, <2>2, <3>1, ContinueType DEF TypeOK, Start, Labels, world, store
  <2> QED BY <1>1, <2>1, <2>2 DEF Start
<1>2. ASSUME NEW r \in Requests, GateRead(r) PROVE TypeOK'
  <2>0. local[r] \in Locals BY <1>loc
  <2>1. [local[r] EXCEPT !.seen = Visible(row, Gone), !.saw = recorded] \in Locals
    <3>1. Visible(row, Gone) \in Stored BY <1>none, GoneType, StoreTypes DEF TypeOK
    <3> QED BY <2>0, <3>1 DEF Locals, TypeOK
  <2> QED BY <1>2, <2>1, ContinueType DEF TypeOK, GateRead, Labels, world, store
<1>3. ASSUME NEW r \in Requests, GateDecide(r) PROVE TypeOK'
  <2>1. CASE Answer(r, "AccountLocked")
    BY <1>3, <2>1, AnswerType DEF TypeOK, GateDecide, Replies, world, store
  <2>2. CASE Continue(r, "gateDelete", local[r])
    BY <1>3, <1>loc, <2>2, ContinueType DEF TypeOK, GateDecide, Labels, world, store
  <2>3. CASE /\ Open(local[r].seen)
             /\ Continue(r, "verify", [local[r] EXCEPT !.token = local[r].seen])
    <3>1. [local[r] EXCEPT !.token = local[r].seen] \in Locals
      BY <1>loc, <2>3 DEF Locals, Open
    <3> QED BY <1>3, <2>3, <3>1, ContinueType DEF TypeOK, GateDecide, Labels, world, store
  <2> QED BY <1>3, <2>1, <2>2, <2>3 DEF GateDecide
<1>4. ASSUME NEW r \in Requests, GateDelete(r) PROVE TypeOK'
  <2>1. row' \in Stored
    BY <1>4, <1>loc, StoreTypes, GoneType DEF TypeOK, GateDelete, Locals
  <2>2. recorded' \in SUBSET Requests
    BY <1>4 DEF GateDelete, Forget, TypeOK
  <2>3. CASE Continue(r, "verify", local[r])
    BY <1>4, <1>loc, <2>1, <2>2, <2>3, ContinueType DEF TypeOK, GateDelete, Labels, world
  <2>4. CASE Retry(r, "gateRead")
    BY <1>4, <2>1, <2>2, <2>4, RetryType DEF TypeOK, GateDelete, Labels, world
  <2> QED BY <1>4, <2>3, <2>4 DEF GateDelete
<1>5. ASSUME NEW r \in Requests, Verify(r) PROVE TypeOK'
  <2> DEFINE l == [local[r] EXCEPT !.tries = 0, !.seen = NoState]
  <2>0. local[r] \in Locals BY <1>loc
  <2>1. l \in Locals
    <3>1. 0 \in 0 .. MaxConcurrencyRetries - 1 BY LockoutConstants
    <3> QED BY <2>0, <1>none, <3>1 DEF Locals
  <2>2. [l EXCEPT !.token = NoState, !.saw = {}] \in Locals
    BY <2>1, <1>none DEF Locals
  <2>3. CASE Continue(r, "recordRead", [l EXCEPT !.token = NoState, !.saw = {}])
    BY <1>5, <2>2, <2>3, ContinueType DEF TypeOK, Verify, Labels, world, store
  <2>4. CASE Answer(r, "Refused")
    BY <1>5, <2>4, AnswerType DEF TypeOK, Verify, Replies, world, store
  <2>5. CASE Continue(r, IF l.hash.legacy THEN "rehash" ELSE "clear", l)
    BY <1>5, <2>1, <2>5, ContinueType DEF TypeOK, Verify, Labels, world, store
  <2> QED BY <1>5, <2>3, <2>4, <2>5 DEF Verify
<1>6. ASSUME NEW r \in Requests, RecordRead(r) PROVE TypeOK'
  <2>0. local[r] \in Locals BY <1>loc
  <2>1. [local[r] EXCEPT !.seen = Visible(row, Gone)] \in Locals
    <3>1. Visible(row, Gone) \in Stored BY <1>none, GoneType, StoreTypes DEF TypeOK
    <3> QED BY <2>0, <3>1 DEF Locals
  <2> QED BY <1>6, <2>1, ContinueType DEF TypeOK, RecordRead, Labels, world, store
<1>7. ASSUME NEW r \in Requests, RecordCompute(r) PROVE TypeOK'
  <2> DEFINE s == Counted(r, local[r].seen, now)
             ttl == IF s.lockedUntil # Never THEN s.lockedUntil ELSE now + CounterTtl
  <2>1. s \in LockoutState
    BY <1>loc, CountedType DEF Locals, TypeOK
  <2>2. ttl \in Nat
    BY <2>1 DEF LockoutState, TypeOK
  <2> HIDE DEF s, ttl
  <2>3. [local[r] EXCEPT !.next = s, !.expiry = ttl] \in Locals
    <3>1. local[r] \in Locals BY <1>loc
    <3> QED BY <3>1, <2>1, <2>2 DEF Locals
  <2> USE DEF s, ttl
  <2> QED BY <1>7, <2>3, ContinueType DEF TypeOK, RecordCompute, Labels, world, store
<1>8. ASSUME NEW r \in Requests, RecordSave(r) PROVE TypeOK'
  <2>1. row' \in Stored
    <3>1. local[r].seen \in Stored /\ local[r].next \in Stored
      BY <1>loc DEF Locals, Stored
    <3> QED BY <1>8, <3>1, StoreTypes, GoneType DEF TypeOK, RecordSave
  <2>2. expiresAt' \in Nat /\ recorded' \in SUBSET Requests
    BY <1>8, <1>loc DEF RecordSave, TypeOK, Locals
  <2>3. CASE Answer(r, FailureReply(local[r].next))
    BY <1>8, <2>1, <2>2, <2>3, AnswerType DEF TypeOK, RecordSave, FailureReply, Replies, world
  <2>4. CASE Retry(r, "recordRead")
    BY <1>8, <2>1, <2>2, <2>4, RetryType DEF TypeOK, RecordSave, Labels, world
  <2> QED BY <1>8, <2>3, <2>4 DEF RecordSave
<1>9. ASSUME NEW r \in Requests, Rehash(r) PROVE TypeOK'
  <2>0. local[r] \in Locals BY <1>loc
  <2>a. [pw |-> local[r].entered, legacy |-> FALSE] \in Hash
    BY <2>0 DEF Locals, Hash
  <2>1. hash' \in Hash
    BY <1>9, <2>a DEF Rehash, TypeOK
  <2> QED BY <1>9, <1>loc, <2>1, ContinueType DEF TypeOK, Rehash, Labels, store
<1>10. ASSUME NEW r \in Requests, ClearLockout(r) PROVE TypeOK'
  <2>1. row' \in Stored
    BY <1>10, <1>loc, StoreTypes, GoneType DEF TypeOK, ClearLockout, Locals, Stored
  <2>2. recorded' \in SUBSET Requests
    BY <1>10 DEF ClearLockout, Forget, TypeOK
  <2> QED BY <1>10, <1>loc, <2>1, <2>2, ContinueType DEF TypeOK, ClearLockout, Labels, world
<1>11. ASSUME NEW r \in Requests, ResolveRole(r) PROVE TypeOK'
  BY <1>11, AnswerType DEF TypeOK, ResolveRole, Replies, world, store
<1>12. ASSUME NEW r \in Requests, Abort(r) PROVE TypeOK'
  BY <1>12, AnswerType DEF TypeOK, Abort, Replies, world, store
<1>13. ASSUME ChangePassword PROVE TypeOK'
  <2>1. hash.pw + 1 \in Submitted
    BY <1>13 DEF ChangePassword, TypeOK, Hash, Submitted
  <2>2. hash' \in Hash
    BY <1>13, <2>1 DEF ChangePassword, Hash
  <2> QED BY <1>13, <2>2 DEF TypeOK, ChangePassword, store
<1>14. ASSUME ChangeStanding PROVE TypeOK'
  BY <1>14 DEF TypeOK, ChangeStanding, store
<1>15. ASSUME Purge PROVE TypeOK'
  BY <1>15, <1>none DEF TypeOK, Purge, Forget, world
<1>16. ASSUME Tick PROVE TypeOK'
  BY <1>16 DEF TypeOK, Tick, store
<1>17. CASE UNCHANGED vars
  BY <1>17 DEF TypeOK, vars
<1> QED
  BY <1>1, <1>2, <1>3, <1>4, <1>5, <1>6, <1>7, <1>8, <1>9, <1>10, <1>11, <1>12, <1>13,
     <1>14, <1>15, <1>16, <1>17 DEF Next, Step

\* The variables keep their types: in particular no retry loop runs past
\* MaxConcurrencyRetries and no counter is stored without its fields.
THEOREM TypeCorrect == Spec => []TypeOK
<1>1. Init => TypeOK
  BY LockoutConstants, BlankType DEF Init, TypeOK, Stored, Hash, AllStandings, Labels, Replies,
     Submitted
<1> QED BY <1>1, TypePreserved, PTL DEF Spec

-----------------------------------------------------------------------------
(* The inductive invariant.  The row alone does not carry the argument: a    *)
(* request acts on what it read or computed earlier, so the invariant says   *)
(* what these stale values are still worth when the request uses them.       *)

\* A counter is locked exactly from the threshold on, and for no longer than
\* the lockout's duration from now.
Sane(s, t) ==
    /\ s.lockedUntil <= t + Duration
    /\ s.failed >= Threshold <=> s.lockedUntil # Never

\* n is s with one more failure, or a counter of its own where s counts none.
Extends(s, n, t) ==
    \/ n.failed = 1 /\ (s \notin LockoutState \/ Lapsed(s, t))
    \/ /\ s \in LockoutState
       /\ n.failed = s.failed + 1
       /\ n.lockedUntil >= s.lockedUntil

\* What a handler at label p may rely on.
LocalInv(l, p, t) ==
    /\ l.seen \in LockoutState => Sane(l.seen, t)
    /\ Open(l.token)
    /\ p = "gateDelete" => l.seen = Corrupt \/ Lapsed(l.seen, t)
    /\ p = "recordSave" =>
         /\ l.next \in LockoutState
         /\ Sane(l.next, t)
         /\ l.next.lockedUntil # Never => l.expiry = l.next.lockedUntil
         /\ Extends(l.seen, l.next, t)
    /\ p = "rehash" => l.entered = l.hash.pw

RowInv ==
    row \in LockoutState =>
        /\ Sane(row, now)
        /\ row.lockedUntil # Never => expiresAt = row.lockedUntil
        /\ row.failed = Cardinality(recorded)

\* A request's failure is recorded by its last step.
RecordedDone == \A q \in recorded : pc[q] = "done"

LocalsInv == \A r \in Requests : LocalInv(local[r], pc[r], now)

Inv == TypeOK /\ RowInv /\ RecordedDone /\ LocalsInv

\* Time passing takes nothing away from what a handler relies on.
LEMMA SaneMonotone ==
    ASSUME NEW s \in LockoutState, NEW t \in Nat, NEW u \in Nat, t <= u, Sane(s, t)
    PROVE  Sane(s, u)
BY DurationPositive DEF Sane, LockoutState

LEMMA LocalMonotone ==
    ASSUME NEW l \in Locals, NEW p, NEW t \in Nat, NEW u \in Nat, t <= u, LocalInv(l, p, t)
    PROVE  LocalInv(l, p, u)
<1>1. \A s \in LockoutState : Sane(s, t) => Sane(s, u)
  BY SaneMonotone
<1>2. \A s : Lapsed(s, t) => Lapsed(s, u)
  BY DEF Lapsed, LockoutState
<1>3. \A s, n : Extends(s, n, t) => Extends(s, n, u)
  BY <1>2 DEF Extends
<1> QED BY <1>1, <1>2, <1>3 DEF LocalInv

\* One more failure of a sane counter is a sane counter that extends it.
LEMMA CountedSane ==
    ASSUME NEW r \in Requests, NEW s \in Stored, NEW t \in Nat,
           s \in LockoutState => Sane(s, t)
    PROVE  Sane(Counted(r, s, t), t) /\ Extends(s, Counted(r, s, t), t)
<1> USE DurationPositive, ThresholdPositive
<1>1. CASE s \notin LockoutState
  BY <1>1 DEF Counted, Sane, Extends, Never
<1>2. CASE s \in LockoutState /\ Lapsed(s, t)
  BY <1>2 DEF Counted, Sane, Extends, Never
<1>3. CASE s \in LockoutState /\ ~Lapsed(s, t)
  BY <1>3 DEF Counted, Sane, Extends, Never, LockoutState
<1> QED BY <1>1, <1>2, <1>3

LEMMA BlankInv == ASSUME NEW t \in Nat PROVE LocalInv(Blank, "done", t)
BY DistinctStates DEF LocalInv, Blank, Open

\* One request moves, the others keep what they rely on.
LEMMA ContinueLocals ==
    ASSUME TypeOK, LocalsInv, NEW r \in Requests, NEW label, NEW l,
           Continue(r, label, l), LocalInv(l, label, now), UNCHANGED now
    PROVE  LocalsInv'
BY DEF TypeOK, LocalsInv, Continue

LEMMA AnswerLocals ==
    ASSUME TypeOK, LocalsInv, NEW r \in Requests, NEW a, Answer(r, a), UNCHANGED now
    PROVE  LocalsInv'
<1>1. LocalInv(Blank, "done", now)
  BY BlankInv DEF TypeOK
<1> QED BY <1>1 DEF TypeOK, LocalsInv, Answer

LEMMA RetryLocals ==
    ASSUME TypeOK, LocalsInv, NEW r \in Requests, NEW label \in {"gateRead", "recordRead"},
           Retry(r, label), UNCHANGED now
    PROVE  LocalsInv'
<1>1. CASE Continue(r, label, Again(local[r]))
  <2>1. local[r] \in Locals /\ LocalInv(local[r], pc[r], now)
    BY DEF TypeOK, LocalsInv
  <2>2. Again(local[r]).seen = NoState /\ Again(local[r]).token = local[r].token
    BY <2>1 DEF Again, Locals
  <2>3. LocalInv(Again(local[r]), label, now)
    BY <2>1, <2>2, DistinctStates DEF LocalInv
  <2> QED BY <1>1, <2>3, ContinueLocals
<1>2. CASE Answer(r, "AccountLocked")
  BY <1>2, AnswerLocals
<1> QED BY <1>1, <1>2 DEF Retry

\* A step of a request that is still running leaves the recorded requests done.
LEMMA RecordedStays ==
    ASSUME TypeOK, RecordedDone, NEW r \in Requests, pc[r] # "done",
           \E label : pc' = [pc EXCEPT ![r] = label], recorded' \subseteq recorded
    PROVE  RecordedDone'
BY DEF TypeOK, RecordedDone

\* A step that leaves the store and the clock alone leaves the row as good.
LEMMA RowStays == ASSUME RowInv, UNCHANGED <<store, now>> PROVE RowInv'
BY DEF RowInv, store

\* A deletion leaves no counter, or the one there was.
LEMMA RowAfterDelete ==
    ASSUME RowInv, row' = NoState \/ row' = row, Forget, UNCHANGED <<expiresAt, now>>
    PROVE  RowInv' /\ recorded' \subseteq recorded
<1>1. CASE row' = NoState
  BY <1>1, DistinctStates DEF RowInv, Forget
<1>2. CASE row' = row /\ row' # NoState
  BY <1>2 DEF RowInv, Forget
<1> QED BY <1>1, <1>2

LEMMA InvPreserved == ASSUME Inv, [Next]_vars PROVE Inv'
<1> USE LockoutConstants, DistinctStates
<1>t. TypeOK /\ RowInv /\ RecordedDone /\ LocalsInv /\ TypeOK'
  BY TypePreserved DEF Inv
<1>l. \A r \in Requests : local[r] \in Locals /\ LocalInv(local[r], pc[r], now)
  BY <1>t DEF TypeOK, LocalsInv
<1>1. ASSUME NEW r \in Requests, Start(r) PROVE Inv'
  <2>1. RowInv' BY <1>1, <1>t, RowStays DEF Start, world
  <2>2. RecordedDone' BY <1>1, <1>t, RecordedStays DEF Start, Answer, Continue, store
  <2>3. CASE Answer(r, "InvalidCredentials")
    BY <1>1, <1>t, <2>1, <2>2, <2>3, AnswerLocals DEF Inv, Start, world
  <2>4. ASSUME NEW p \in Submitted,
               Continue(r, "gateRead",
                        [Blank EXCEPT !.entered = p, !.hash = hash, !.standing = standing])
        PROVE  Inv'
    <3>1. LocalInv([Blank EXCEPT !.entered = p, !.hash = hash, !.standing = standing],
                   "gateRead", now)
      BY DEF LocalInv, Blank, Open
    <3> QED BY <1>1, <1>t, <2>1, <2>2, <2>4, <3>1, ContinueLocals DEF Inv, Start, world
  <2> QED BY <1>1, <2>3, <2>4 DEF Start
<1>2. ASSUME NEW r \in Requests, GateRead(r) PROVE Inv'
  <2>1. RowInv' BY <1>2, <1>t, RowStays DEF GateRead, world
  <2>2. RecordedDone' BY <1>2, <1>t, RecordedStays DEF GateRead, Continue, store
  <2>0. local[r] \in Locals /\ LocalInv(local[r], pc[r], now) BY <1>l
  <2>3. LocalInv([local[r] EXCEPT !.seen = Visible(row, Gone), !.saw = recorded], "gateDecide", now)
    BY <2>0, <1>t DEF LocalInv, Locals, RowInv, Visible
  <2> QED BY <1>2, <1>t, <2>1, <2>2, <2>3, ContinueLocals DEF Inv, GateRead, world
<1>3. ASSUME NEW r \in Requests, GateDecide(r) PROVE Inv'
  <2>1. RowInv' BY <1>3, <1>t, RowStays DEF GateDecide, world
  <2>2. RecordedDone' BY <1>3, <1>t, RecordedStays DEF GateDecide, Answer, Continue, store
  <2>0. local[r] \in Locals /\ LocalInv(local[r], pc[r], now) BY <1>l
  <2>3. CASE Answer(r, "AccountLocked")
    BY <1>3, <1>t, <2>1, <2>2, <2>3, AnswerLocals DEF Inv, GateDecide, world
  <2>4. CASE /\ local[r].seen = Corrupt \/ Lapsed(local[r].seen, now)
             /\ Continue(r, "gateDelete", local[r])
    <3>1. LocalInv(local[r], "gateDelete", now)
      BY <2>0, <2>4 DEF LocalInv
    <3> QED BY <1>3, <1>t, <2>1, <2>2, <2>4, <3>1, ContinueLocals DEF Inv, GateDecide, world
  <2>5. CASE /\ Open(local[r].seen)
             /\ Continue(r, "verify", [local[r] EXCEPT !.token = local[r].seen])
    <3>1. LocalInv([local[r] EXCEPT !.token = local[r].seen], "verify", now)
      BY <2>0, <2>5 DEF LocalInv, Locals
    <3> QED BY <1>3, <1>t, <2>1, <2>2, <2>5, <3>1, ContinueLocals DEF Inv, GateDecide, world
  <2> QED BY <1>3, <2>3, <2>4, <2>5 DEF GateDecide
<1>4. ASSUME NEW r \in Requests, GateDelete(r) PROVE Inv'
  <2>1. RowInv' /\ recorded' \subseteq recorded
    BY <1>4, <1>t, RowAfterDelete DEF GateDelete, TryDelete, world
  <2>2. RecordedDone'
    BY <1>4, <1>t, <2>1, RecordedStays DEF GateDelete, Retry, Answer, Continue
  <2>0. local[r] \in Locals /\ LocalInv(local[r], pc[r], now) BY <1>l
  <2>3. CASE Continue(r, "verify", local[r])
    <3>1. LocalInv(local[r], "verify", now) BY <2>0 DEF LocalInv
    <3> QED BY <1>4, <1>t, <2>1, <2>2, <2>3, <3>1, ContinueLocals DEF Inv, GateDelete, world
  <2>4. CASE Retry(r, "gateRead")
    BY <1>4, <1>t, <2>1, <2>2, <2>4, RetryLocals DEF Inv, GateDelete, world
  <2> QED BY <1>4, <2>3, <2>4 DEF GateDelete
<1>5. ASSUME NEW r \in Requests, Verify(r) PROVE Inv'
  <2> DEFINE l == [local[r] EXCEPT !.tries = 0, !.seen = NoState]
  <2>1. RowInv' BY <1>5, <1>t, RowStays DEF Verify, world
  <2>2. RecordedDone' BY <1>5, <1>t, RecordedStays DEF Verify, Answer, Continue, store
  <2>0. local[r] \in Locals /\ LocalInv(local[r], pc[r], now) BY <1>l
  <2>3. CASE Continue(r, "recordRead", [l EXCEPT !.token = NoState, !.saw = {}])
    <3>1. LocalInv([l EXCEPT !.token = NoState, !.saw = {}], "recordRead", now)
      BY <2>0 DEF LocalInv, Locals, Open
    <3> QED BY <1>5, <1>t, <2>1, <2>2, <2>3, <3>1, ContinueLocals DEF Inv, Verify, world
  <2>4. CASE Answer(r, "Refused")
    BY <1>5, <1>t, <2>1, <2>2, <2>4, AnswerLocals DEF Inv, Verify, world
  <2>5. CASE /\ l.entered = l.hash.pw
             /\ Continue(r, IF l.hash.legacy THEN "rehash" ELSE "clear", l)
    <3>1. LocalInv(l, IF l.hash.legacy THEN "rehash" ELSE "clear", now)
      BY <2>0, <2>5 DEF LocalInv, Locals
    <3> HIDE DEF l
    <3> QED BY <1>5, <1>t, <2>1, <2>2, <2>5, <3>1, ContinueLocals DEF Inv, Verify, world
  <2> QED BY <1>5, <2>3, <2>4, <2>5 DEF Verify
<1>6. ASSUME NEW r \in Requests, RecordRead(r) PROVE Inv'
  <2>1. RowInv' BY <1>6, <1>t, RowStays DEF RecordRead, world
  <2>2. RecordedDone' BY <1>6, <1>t, RecordedStays DEF RecordRead, Continue, store
  <2>0. local[r] \in Locals /\ LocalInv(local[r], pc[r], now) BY <1>l
  <2>3. LocalInv([local[r] EXCEPT !.seen = Visible(row, Gone)], "recordCompute", now)
    BY <2>0, <1>t DEF LocalInv, Locals, RowInv, Visible
  <2> QED BY <1>6, <1>t, <2>1, <2>2, <2>3, ContinueLocals DEF Inv, RecordRead, world
<1>7. ASSUME NEW r \in Requests, RecordCompute(r) PROVE Inv'
  <2> DEFINE s == Counted(r, local[r].seen, now)
             ttl == IF s.lockedUntil # Never THEN s.lockedUntil ELSE now + CounterTtl
             l == [local[r] EXCEPT !.next = s, !.expiry = ttl]
  <2>1. RowInv' BY <1>7, <1>t, RowStays DEF RecordCompute, world
  <2>2. RecordedDone' BY <1>7, <1>t, RecordedStays DEF RecordCompute, Continue, store
  <2>0. local[r] \in Locals /\ LocalInv(local[r], pc[r], now) BY <1>l
  <2>3. now \in Nat /\ local[r].seen \in Stored
    BY <1>t, <2>0 DEF TypeOK, Locals
  <2>4. s \in LockoutState /\ Sane(s, now) /\ Extends(local[r].seen, s, now)
    BY <2>0, <2>3, CountedType, CountedSane DEF LocalInv
  <2>5. s.lockedUntil # Never => ttl = s.lockedUntil
    OBVIOUS
  <2>6. Continue(r, "recordSave", l)
    BY <1>7 DEF RecordCompute
  <2> HIDE DEF s, ttl
  <2>7. /\ l.seen = local[r].seen /\ l.token = local[r].token
        /\ l.next = s /\ l.expiry = ttl
    BY <2>0 DEF Locals
  <2> HIDE DEF l
  <2>8. LocalInv(l, "recordSave", now)
    BY <2>0, <2>4, <2>5, <2>7 DEF LocalInv
  <2> QED BY <1>7, <1>t, <2>1, <2>2, <2>6, <2>8, ContinueLocals DEF Inv, RecordCompute, world
<1>8. ASSUME NEW r \in Requests, RecordSave(r) PROVE Inv'
  <2>0. local[r] \in Locals /\ LocalInv(local[r], "recordSave", now)
    BY <1>8, <1>l DEF RecordSave
  <2> DEFINE ok == row = local[r].seen /\ (Gone => local[r].seen = NoState)
  <2>1. CASE ok
    <3> DEFINE n == local[r].next
               reopened == n.failed = 1 /\ (row \notin LockoutState \/ Lapsed(row, now))
    <3>1. /\ row' = n /\ expiresAt' = local[r].expiry /\ UNCHANGED now
          /\ Answer(r, FailureReply(n))
          /\ recorded' = IF reopened THEN {r} ELSE recorded \cup {r}
      BY <1>8, <2>1 DEF RecordSave, TryReplace, world
    <3>2. /\ n \in LockoutState /\ Sane(n, now) /\ Extends(row, n, now)
          /\ n.lockedUntil # Never => local[r].expiry = n.lockedUntil
      BY <2>0, <2>1 DEF LocalInv
    <3>3. r \notin recorded /\ IsFiniteSet(recorded)
      BY <1>8, <1>t, FiniteRequests, FS_Subset DEF RecordSave, RecordedDone, TypeOK
    <3>4. n.failed = Cardinality(recorded')
      <4>1. CASE reopened
        BY <3>1, <4>1, FS_Singleton
      <4>2. CASE ~reopened
        <5>1. row \in LockoutState /\ n.failed = row.failed + 1
          BY <3>2, <4>2 DEF Extends
        <5>2. Cardinality(recorded \cup {r}) = Cardinality(recorded) + 1
          BY <3>3, FS_AddElement
        <5> QED BY <1>t, <3>1, <4>2, <5>1, <5>2 DEF RowInv
      <4> QED BY <4>1, <4>2
    <3>5. RowInv'
      BY <3>1, <3>2, <3>4 DEF RowInv
    <3>6. RecordedDone'
      BY <1>t, <3>1 DEF RecordedDone, Answer, TypeOK
    <3> QED BY <1>t, <3>1, <3>5, <3>6, AnswerLocals DEF Inv
  <2>2. CASE ~ok
    <3>1. UNCHANGED <<store, now>> /\ Retry(r, "recordRead")
      BY <1>8, <2>2 DEF RecordSave, TryReplace, store, world
    <3>2. RecordedDone'
      BY <1>8, <3>1, <1>t, RecordedStays DEF RecordSave, Retry, Answer, Continue, store
    <3> QED BY <1>t, <3>1, <3>2, RowStays, RetryLocals DEF Inv
  <2> QED BY <2>1, <2>2
<1>9. ASSUME NEW r \in Requests, Rehash(r) PROVE Inv'
  <2>1. RowInv' BY <1>9, <1>t, RowStays DEF Rehash
  <2>2. RecordedDone' BY <1>9, <1>t, RecordedStays DEF Rehash, Continue, store
  <2>3. LocalInv(local[r], "clear", now) BY <1>l DEF LocalInv
  <2> QED BY <1>9, <1>t, <2>1, <2>2, <2>3, ContinueLocals DEF Inv, Rehash
<1>10. ASSUME NEW r \in Requests, ClearLockout(r) PROVE Inv'
  <2>1. RowInv' /\ recorded' \subseteq recorded
    BY <1>10, <1>t, RowAfterDelete DEF ClearLockout, TryDelete, world
  <2>2. RecordedDone'
    BY <1>10, <1>t, <2>1, RecordedStays DEF ClearLockout, Continue
  <2>3. LocalInv(local[r], "role", now) BY <1>l DEF LocalInv
  <2> QED BY <1>10, <1>t, <2>1, <2>2, <2>3, ContinueLocals DEF Inv, ClearLockout, world
<1>11. ASSUME NEW r \in Requests, ResolveRole(r) \/ Abort(r) PROVE Inv'
  <2>1. RowInv' BY <1>11, <1>t, RowStays DEF ResolveRole, Abort, world
  <2>2. RecordedDone'
    BY <1>11, <1>t, RecordedStays DEF ResolveRole, Abort, Answer, store
  <2> QED BY <1>11, <1>t, <2>1, <2>2, AnswerLocals DEF Inv, ResolveRole, Abort, world
<1>12. CASE ChangePassword \/ ChangeStanding \/ UNCHANGED vars
  <2>1. UNCHANGED <<store, now, pc, local>>
    BY <1>12 DEF ChangePassword, ChangeStanding, vars, store
  <2> QED BY <1>t, <2>1, RowStays DEF Inv, RecordedDone, LocalsInv, store
<1>13. CASE Purge
  <2>1. RowInv' /\ recorded' \subseteq recorded
    BY <1>13, <1>t, RowAfterDelete DEF Purge, world
  <2> QED BY <1>13, <1>t, <2>1 DEF Inv, Purge, RecordedDone, LocalsInv, world
<1>14. CASE Tick
  <2>1. now \in Nat /\ now' \in Nat /\ now <= now'
    BY <1>14, <1>t DEF Tick, TypeOK
  <2>2. RowInv'
    BY <1>14, <1>t, <2>1, SaneMonotone DEF Tick, RowInv, store
  <2>3. LocalsInv'
    BY <1>14, <1>l, <2>1, LocalMonotone DEF Tick, LocalsInv
  <2> QED BY <1>14, <1>t, <2>2, <2>3 DEF Inv, Tick, RecordedDone, store
<1> QED
  BY <1>1, <1>2, <1>3, <1>4, <1>5, <1>6, <1>7, <1>8, <1>9, <1>10, <1>11, <1>12, <1>13, <1>14
     DEF Next, Step

LEMMA Invariance == Spec => []Inv
<1>1. Init => Inv
  <2> SUFFICES ASSUME Init PROVE Inv OBVIOUS
  <2>1. TypeOK
    BY LockoutConstants, BlankType DEF Init, TypeOK, Stored, Hash, AllStandings, Labels,
       Replies, Submitted
  <2>2. RowInv
    BY DistinctStates DEF Init, RowInv
  <2>3. LocalsInv
    BY DistinctStates DEF Init, LocalsInv, LocalInv, Blank, Open
  <2> QED BY <2>1, <2>2, <2>3 DEF Inv, RecordedDone, Init
<1> QED BY <1>1, InvPreserved, PTL DEF Spec

-----------------------------------------------------------------------------
(* What follows.                                                             *)

\* No interleaving of concurrent failures loses one: the stored counter is
\* the number of failures recorded since it was opened.
THEOREM FailuresCounted == Spec => []NoLostFailure
<1>1. Inv => NoLostFailure
  BY DEF Inv, RowInv, NoLostFailure
<1> QED BY <1>1, Invariance, PTL

\* As many recorded failures as the threshold mean a locked account.
THEOREM ThresholdReached == Spec => []ThresholdLocks
<1>1. Inv => ThresholdLocks
  BY DEF Inv, RowInv, Sane, ThresholdLocks
<1> QED BY <1>1, Invariance, PTL

\* No step of any request, purge or clock lifts or shortens a lock in force.
THEOREM LocksKept == Spec => LockNeverShortened
<1>1. ASSUME Inv, [Next]_vars PROVE LockHolds
  <2> SUFFICES ASSUME Locked(row, now), row' # row
               PROVE  row' \in LockoutState /\ row'.lockedUntil >= row.lockedUntil
    BY DEF LockHolds
  <2>0. /\ row \in LockoutState /\ now \in Nat /\ row.lockedUntil \in Nat
        /\ row.lockedUntil > now /\ row # NoState /\ row # Corrupt
        /\ ~Lapsed(row, now) /\ ~Open(row)
    <3>1. row \in LockoutState /\ now \in Nat /\ row.lockedUntil > now
      BY <1>1 DEF Inv, TypeOK, Locked
    <3>2. row.lockedUntil \in Nat
      BY <3>1 DEF LockoutState
    <3>3. row # NoState /\ row # Corrupt
      BY <3>1, DistinctStates
    <3> QED BY <3>1, <3>2, <3>3 DEF Lapsed, Open, Never
  <2>l. \A r \in Requests : local[r] \in Locals /\ LocalInv(local[r], pc[r], now)
    BY <1>1 DEF Inv, TypeOK, LocalsInv
  <2>1. ASSUME NEW r \in Requests, GateDelete(r) PROVE FALSE
    <3>1. row = local[r].seen
      BY <2>1 DEF GateDelete, TryDelete
    <3> QED BY <2>0, <2>1, <2>l, <3>1 DEF GateDelete, LocalInv
  <2>2. ASSUME NEW r \in Requests, ClearLockout(r) PROVE FALSE
    <3>1. row = local[r].token
      BY <2>2 DEF ClearLockout, TryDelete
    <3> QED BY <2>0, <2>l, <3>1 DEF LocalInv
  <2>3. ASSUME Purge PROVE FALSE
    <3>1. expiresAt = row.lockedUntil
      BY <1>1, <2>0 DEF Inv, RowInv, Never
    <3> QED BY <2>0, <2>3, <3>1 DEF Purge, Purgeable
  <2>4. ASSUME NEW r \in Requests, RecordSave(r)
        PROVE  row' \in LockoutState /\ row'.lockedUntil >= row.lockedUntil
    <3>1. row = local[r].seen /\ row' = local[r].next
      BY <2>4 DEF RecordSave, TryReplace
    <3>2. local[r].next \in LockoutState /\ Extends(row, local[r].next, now)
      BY <2>4, <2>l, <3>1 DEF RecordSave, LocalInv
    <3> QED BY <2>0, <3>1, <3>2 DEF Extends
  <2> QED
    BY <1>1, <2>1, <2>2, <2>3, <2>4
       DEF Next, Step, Start, GateRead, GateDecide, Verify, RecordRead, RecordCompute, Rehash,
           ResolveRole, Abort, ChangePassword, ChangeStanding, Tick, vars, store
<1> QED BY <1>1, Invariance, PTL DEF Spec, LockNeverShortened

\* A hash upgrade keeps the password that the account has when it is written.
THEOREM PasswordKept == Spec => PasswordNeverReverts
<1>1. ASSUME Inv, [Next]_vars PROVE hash'.pw >= hash.pw
  <2>0. hash.pw \in Nat
    <3>1. hash.pw \in Submitted
      BY <1>1 DEF Inv, TypeOK, Hash
    <3> QED BY <3>1, LockoutConstants DEF Submitted
  <2>1. ASSUME NEW r \in Requests, Rehash(r) PROVE hash'.pw >= hash.pw
    <3>1. local[r].entered = local[r].hash.pw
      BY <1>1, <2>1 DEF Inv, LocalsInv, LocalInv, Rehash
    <3> QED BY <2>0, <2>1, <3>1 DEF Rehash
  <2>2. ASSUME ChangePassword PROVE hash'.pw >= hash.pw
    BY <2>0, <2>2 DEF ChangePassword
  <2>3. ASSUME NEW r \in Requests, Step(r), ~Rehash(r) PROVE hash' = hash
    BY <2>3 DEF Step, Start, GateRead, GateDecide, GateDelete, Verify, RecordRead,
                RecordCompute, RecordSave, ClearLockout, ResolveRole, world
  <2>4. ASSUME NEW r \in Requests, Abort(r) PROVE hash' = hash
    BY <2>4 DEF Abort, world
  <2>5. ASSUME ChangeStanding \/ Purge \/ Tick \/ UNCHANGED vars PROVE hash' = hash
    BY <2>5 DEF ChangeStanding, Purge, Tick, vars, world
  <2>6. hash' = hash => hash'.pw >= hash.pw
    BY <2>0
  <2> QED BY <1>1, <2>1, <2>2, <2>3, <2>4, <2>5, <2>6 DEF Next
<1> QED BY <1>1, Invariance, PTL DEF Spec, PasswordNeverReverts

-----------------------------------------------------------------------------
(* Who is told what.  Between two removals of the counter every recorded     *)
(* failure was answered by the step that recorded it, and answered           *)
(* InvalidCredentials only while the counter it stored was below the         *)
(* threshold.                                                                *)

WronglyAnswered == {r \in recorded : reply[r] = "InvalidCredentials"}

LEMMA FewerAnswers ==
    ASSUME TypeOK, WrongAnswerBudget, WronglyAnswered' \subseteq WronglyAnswered
    PROVE  WrongAnswerBudget'
<1>1. IsFiniteSet(WronglyAnswered)
  BY FiniteRequests, FS_Subset DEF TypeOK, WronglyAnswered
<1>2. Cardinality(WronglyAnswered') <= Cardinality(WronglyAnswered)
  BY <1>1, FS_Subset
<1>3. Cardinality(WronglyAnswered) \in Nat /\ Cardinality(WronglyAnswered') \in Nat
  BY <1>1, FS_Subset, FS_CardinalityType
<1> QED BY <1>2, <1>3, ThresholdPositive DEF WrongAnswerBudget, WronglyAnswered

\* A step that records nothing changes no recorded request's answer.
LEMMA AnswersStay ==
    ASSUME Inv, WrongAnswerBudget, NEW r \in Requests, pc[r] # "done",
           Retry(r, "gateRead") \/ Retry(r, "recordRead")
           \/ (\E label, l : Continue(r, label, l)) \/ (\E a : Answer(r, a)),
           recorded' \subseteq recorded
    PROVE  WrongAnswerBudget'
<1>1. r \notin recorded
  BY DEF Inv, RecordedDone
<1>2. \A q \in recorded : reply'[q] = reply[q]
  BY <1>1 DEF Retry, Continue, Answer, Inv, TypeOK
<1>3. TypeOK
  BY DEF Inv
<1> QED BY <1>2, <1>3, FewerAnswers DEF WronglyAnswered

\* The step that stores a counter and answers by what it stored.
LEMMA SaveWithinBudget ==
    ASSUME Inv, Inv', WrongAnswerBudget, NEW r \in Requests, RecordSave(r)
    PROVE  WrongAnswerBudget'
<1>t. TypeOK /\ TypeOK' /\ RowInv' /\ pc[r] # "done" /\ recorded' \subseteq Requests
  BY DEF Inv, RecordSave, TypeOK
<1> DEFINE n == local[r].next
           ok == row = local[r].seen /\ (Gone => local[r].seen = NoState)
<1>1. CASE ok
  <2>1. /\ row' = n /\ Answer(r, FailureReply(n))
        /\ recorded' \subseteq recorded \cup {r}
    BY <1>1 DEF RecordSave, TryReplace
  <2>2. n \in LockoutState
    BY DEF Inv, LocalsInv, LocalInv, RecordSave
  <2>3. CASE n.lockedUntil = Never
    <3>1. n.failed = Cardinality(recorded') /\ ~(n.failed >= Threshold)
      BY <1>t, <2>1, <2>2, <2>3 DEF RowInv, Sane
    <3>2. IsFiniteSet(recorded')
      BY <1>t, FiniteRequests, FS_Subset
    <3>3. WronglyAnswered' \subseteq recorded'
      BY DEF WronglyAnswered
    <3>4. /\ Cardinality(WronglyAnswered') <= Cardinality(recorded')
          /\ Cardinality(WronglyAnswered') \in Nat /\ Cardinality(recorded') \in Nat
      BY <3>2, <3>3, FS_Subset, FS_CardinalityType
    <3> QED BY <3>1, <3>4, ThresholdPositive DEF WrongAnswerBudget, WronglyAnswered
  <2>4. CASE n.lockedUntil # Never
    <3>1. reply' = [reply EXCEPT ![r] = "AccountLocked"]
      BY <2>1, <2>4 DEF Answer, FailureReply
    <3>2. WronglyAnswered' \subseteq WronglyAnswered
      BY <1>t, <2>1, <3>1 DEF WronglyAnswered, TypeOK
    <3> QED BY <1>t, <3>2, FewerAnswers
  <2> QED BY <2>3, <2>4
<1>2. CASE ~ok
  BY <1>t, <1>2, AnswersStay DEF RecordSave, TryReplace
<1> QED BY <1>1, <1>2

LEMMA BudgetPreserved == ASSUME Inv, WrongAnswerBudget, [Next]_vars PROVE WrongAnswerBudget'
<1>t. TypeOK BY DEF Inv
<1>1. ASSUME NEW r \in Requests, Step(r), ~RecordSave(r) PROVE WrongAnswerBudget'
  <2>1. pc[r] # "done" /\ recorded' \subseteq recorded
    BY <1>1 DEF Step, Start, GateRead, GateDecide, GateDelete, Verify, RecordRead,
                RecordCompute, Rehash, ClearLockout, ResolveRole, Forget, store
  <2>2. Retry(r, "gateRead") \/ (\E label, l : Continue(r, label, l)) \/ (\E a : Answer(r, a))
    BY <1>1 DEF Step, Start, GateRead, GateDecide, GateDelete, Verify, RecordRead,
                RecordCompute, Rehash, ClearLockout, ResolveRole
  <2> QED BY <2>1, <2>2, AnswersStay
<1>2. ASSUME NEW r \in Requests, RecordSave(r) PROVE WrongAnswerBudget'
  BY <1>2, InvPreserved, SaveWithinBudget
<1>3. ASSUME NEW r \in Requests, Abort(r) PROVE WrongAnswerBudget'
  BY <1>3, AnswersStay DEF Abort, store
<1>4. CASE ChangePassword \/ ChangeStanding \/ Purge \/ Tick \/ UNCHANGED vars
  <2>1. recorded' \subseteq recorded /\ reply' = reply
    BY <1>4 DEF ChangePassword, ChangeStanding, Purge, Tick, Forget, vars, store
  <2> QED BY <1>t, <2>1, FewerAnswers DEF WronglyAnswered
<1> QED BY <1>1, <1>2, <1>3, <1>4 DEF Next

\* However the failures of concurrent logins interleave, fewer of them than
\* the threshold learn that the password was wrong before the counter goes.
THEOREM WrongAnswersBounded == Spec => []WrongAnswerBudget
<1>1. Init => WrongAnswerBudget
  <2>1. Init => {r \in recorded : reply[r] = "InvalidCredentials"} = {}
    BY DEF Init
  <2> QED BY <2>1, FS_EmptySet, ThresholdPositive DEF WrongAnswerBudget
<1> QED BY <1>1, BudgetPreserved, Invariance, PTL DEF Spec

-----------------------------------------------------------------------------
(* What a success may clear.  The token names a counter by value, so the     *)
(* argument is that a value never comes back: the request that opened a      *)
(* counter is done and opens no other, and the count of one counter only     *)
(* grows.  The row a success deletes is then the row its gate saw, with the  *)
(* failures that it stood for then.                                          *)

\* The state the success of a handler at label p will compare the row with.
Remembered(l, p) ==
    IF p = "gateDecide" THEN l.seen
    ELSE IF p \in {"verify", "rehash", "clear"} THEN l.token ELSE NoState

\* s was read when the row w stood for the failures in saw: the request that
\* opened it is done, and if w is still that counter it has grown since or
\* stands for no failure outside saw.
KnownSince(s, saw, c, w, rec) ==
    s \in LockoutState =>
        /\ c[s.first] = "done"
        /\ w \in LockoutState /\ w.first = s.first =>
             w.failed > s.failed \/ (w.failed = s.failed /\ rec \subseteq saw)

\* The counter r is about to store: its own, or the next count of the one read.
StoresOwn(r, l) ==
    \/ l.next.failed = 1 /\ l.next.first = r
    \/ /\ l.seen \in LockoutState
       /\ l.next.failed = l.seen.failed + 1 /\ l.next.first = l.seen.first

MemoryOf(r, l, p, c, w, rec) ==
    /\ p \in {"gateRead", "gateDecide", "gateDelete"} => l.token = NoState
    /\ p = "recordSave" => StoresOwn(r, l)
    /\ KnownSince(Remembered(l, p), l.saw, c, w, rec)

OpenerRecorded == row \in LockoutState => row.first \in recorded

MemoryInv ==
    /\ OpenerRecorded
    /\ \A r \in Requests : MemoryOf(r, local[r], pc[r], pc, row, recorded)

\* How a step may change the row: not, by removing it, by one more failure,
\* or to a counter that an unfinished request opens.
RowMoves(c, w, rec, w2, rec2) ==
    \/ w2 = w /\ rec2 = rec
    \/ w2 \notin LockoutState
    \/ /\ w \in LockoutState /\ w2 \in LockoutState
       /\ w2.first = w.first /\ w2.failed = w.failed + 1
    \/ w2 \in LockoutState /\ c[w2.first] # "done"

LEMMA MemoryKept ==
    ASSUME NEW c, NEW w, NEW rec, NEW c2, NEW w2, NEW rec2, RowMoves(c, w, rec, w2, rec2),
           \A q \in Requests : c[q] = "done" => c2[q] = "done"
    PROVE  \A r, l, p : MemoryOf(r, l, p, c, w, rec) => MemoryOf(r, l, p, c2, w2, rec2)
<1> TAKE r, l, p
<1> HAVE MemoryOf(r, l, p, c, w, rec)
<1> DEFINE s == Remembered(l, p)
<1> HIDE DEF s
<1>1. ASSUME KnownSince(s, l.saw, c, w, rec) PROVE KnownSince(s, l.saw, c2, w2, rec2)
  <2> SUFFICES ASSUME s \in LockoutState PROVE KnownSince(s, l.saw, c2, w2, rec2)
    BY DEF KnownSince
  <2>1. s.first \in Requests /\ s.failed \in Nat
    BY DEF LockoutState
  <2>2. /\ c2[s.first] = "done" /\ c[s.first] = "done"
    BY <1>1, <2>1 DEF KnownSince
  <2>3. CASE w2 = w /\ rec2 = rec
    BY <1>1, <2>2, <2>3 DEF KnownSince
  <2>4. CASE w2 \notin LockoutState \/ (w2 \in LockoutState /\ c[w2.first] # "done")
    BY <2>2, <2>4 DEF KnownSince
  <2>5. CASE /\ w \in LockoutState /\ w2 \in LockoutState
             /\ w2.first = w.first /\ w2.failed = w.failed + 1
    <3>1. w.failed \in Nat /\ w2.failed \in Nat
      BY <2>5 DEF LockoutState
    <3>2. w.first = s.first => w.failed >= s.failed
      BY <1>1, <2>1, <2>5, <3>1 DEF KnownSince
    <3> QED BY <2>1, <2>2, <2>5, <3>1, <3>2 DEF KnownSince
  <2> QED BY <2>3, <2>4, <2>5 DEF RowMoves
<1> QED BY <1>1 DEF MemoryOf, s

\* One request moves; the others remember what they did.
LEMMA MemoryStep ==
    ASSUME TypeOK, TypeOK', MemoryInv, NEW r \in Requests, pc[r] # "done",
           NEW label, NEW l,
           pc' = [pc EXCEPT ![r] = label], local' = [local EXCEPT ![r] = l],
           RowMoves(pc, row, recorded, row', recorded'), OpenerRecorded',
           MemoryOf(r, l, label, pc, row, recorded)
    PROVE  MemoryInv'
<1>1. \A q \in Requests : pc[q] = "done" => pc'[q] = "done"
  BY DEF TypeOK
<1>2. ASSUME NEW q \in Requests PROVE MemoryOf(q, local'[q], pc'[q], pc', row', recorded')
  <2>1. MemoryOf(q, local'[q], pc'[q], pc, row, recorded)
    BY DEF TypeOK, MemoryInv
  <2>2. \A a, b, d : MemoryOf(a, b, d, pc, row, recorded) => MemoryOf(a, b, d, pc', row', recorded')
    BY <1>1, MemoryKept
  <2> QED BY <2>1, <2>2
<1>3. \A q \in Requests : MemoryOf(q, local[q], pc[q], pc, row, recorded)'
  BY <1>2
<1> QED BY <1>3 DEF MemoryInv

LEMMA ForgottenMemory == \A r, p, c, w, rec : p = "done" => MemoryOf(r, Blank, p, c, w, rec)
BY DistinctStates DEF MemoryOf, Remembered, KnownSince

LEMMA MemoryAnswer ==
    ASSUME TypeOK, TypeOK', MemoryInv, NEW r \in Requests, pc[r] # "done", NEW a, Answer(r, a),
           RowMoves(pc, row, recorded, row', recorded'), OpenerRecorded'
    PROVE  MemoryInv'
BY MemoryStep, ForgottenMemory DEF Answer

LEMMA MemoryContinue ==
    ASSUME TypeOK, TypeOK', MemoryInv, NEW r \in Requests, pc[r] # "done",
           NEW label, NEW l, Continue(r, label, l),
           MemoryOf(r, l, label, pc, row, recorded),
           RowMoves(pc, row, recorded, row', recorded'), OpenerRecorded'
    PROVE  MemoryInv'
BY MemoryStep DEF Continue

\* A request that lost a compare-and-swap has forgotten what it read.
LEMMA MemoryRetry ==
    ASSUME TypeOK, TypeOK', MemoryInv, NEW r \in Requests,
           NEW label \in {"gateRead", "recordRead"}, Retry(r, label),
           pc[r] = IF label = "gateRead" THEN "gateDelete" ELSE "recordSave",
           RowMoves(pc, row, recorded, row', recorded'), OpenerRecorded'
    PROVE  MemoryInv'
<1>1. CASE Continue(r, label, Again(local[r]))
  <2>1. local[r] \in Locals /\ MemoryOf(r, local[r], pc[r], pc, row, recorded)
    BY DEF TypeOK, MemoryInv
  <2>2. Again(local[r]).token = local[r].token
    BY <2>1 DEF Again, Locals
  <2>3. MemoryOf(r, Again(local[r]), label, pc, row, recorded)
    BY <2>1, <2>2, DistinctStates DEF MemoryOf, Remembered, KnownSince
  <2> QED BY <1>1, <2>3, MemoryContinue
<1>2. CASE Answer(r, "AccountLocked")
  BY <1>2, MemoryAnswer
<1> QED BY <1>1, <1>2 DEF Retry

\* Without a change to the row nothing is forgotten or learnt.
LEMMA SameStore ==
    ASSUME MemoryInv, UNCHANGED <<row, recorded>>
    PROVE  RowMoves(pc, row, recorded, row', recorded') /\ OpenerRecorded'
BY DEF RowMoves, OpenerRecorded, MemoryInv

LEMMA RowRemoved ==
    ASSUME MemoryInv, row' = NoState \/ row' = row, Forget
    PROVE  RowMoves(pc, row, recorded, row', recorded') /\ OpenerRecorded'
<1>1. CASE row' = NoState
  BY <1>1, DistinctStates DEF RowMoves, OpenerRecorded
<1>2. CASE row' = row /\ row' # NoState
  BY <1>2 DEF RowMoves, OpenerRecorded, MemoryInv, Forget
<1> QED BY <1>1, <1>2

\* A stored failure counts on, or opens a counter in the name of its request.
LEMMA RowSaved ==
    ASSUME Inv, MemoryInv, NEW r \in Requests, RecordSave(r), row = local[r].seen,
           Gone => local[r].seen = NoState
    PROVE  RowMoves(pc, row, recorded, row', recorded') /\ OpenerRecorded'
<1> DEFINE n == local[r].next
           reopened == n.failed = 1 /\ (row \notin LockoutState \/ Lapsed(row, now))
<1>1. row' = n /\ recorded' = IF reopened THEN {r} ELSE recorded \cup {r}
  BY DEF RecordSave, TryReplace
<1>2. n \in LockoutState /\ Extends(row, n, now) /\ pc[r] # "done"
  BY DEF Inv, LocalsInv, LocalInv, RecordSave
<1>3. StoresOwn(r, local[r])
  BY DEF MemoryInv, MemoryOf, RecordSave
<1>4. row \in LockoutState => row.failed \in Nat \ {0}
  BY DEF LockoutState
<1>5. CASE n.failed = 1
  <2>1. n.first = r
    BY <1>3, <1>4, <1>5 DEF StoresOwn
  <2>2. reopened
    BY <1>2, <1>4, <1>5 DEF Extends
  <2> QED BY <1>1, <1>2, <2>1, <2>2 DEF RowMoves, OpenerRecorded
<1>6. CASE n.failed # 1
  <2>1. row \in LockoutState /\ n.failed = row.failed + 1 /\ n.first = row.first
    BY <1>3, <1>6 DEF StoresOwn
  <2> QED BY <1>1, <1>2, <1>6, <2>1 DEF RowMoves, OpenerRecorded, MemoryInv
<1> QED BY <1>5, <1>6

LEMMA MemoryPreserved == ASSUME Inv, MemoryInv, [Next]_vars PROVE MemoryInv'
<1> USE DistinctStates
<1>t. TypeOK /\ TypeOK'
  BY InvPreserved DEF Inv
<1>l. \A r \in Requests : local[r] \in Locals /\ MemoryOf(r, local[r], pc[r], pc, row, recorded)
  BY <1>t DEF TypeOK, MemoryInv
<1>1. ASSUME NEW r \in Requests, Start(r) PROVE MemoryInv'
  <2>1. RowMoves(pc, row, recorded, row', recorded') /\ OpenerRecorded'
    BY <1>1, SameStore DEF Start, store
  <2>2. CASE Answer(r, "InvalidCredentials")
    BY <1>1, <1>t, <2>1, <2>2, MemoryAnswer DEF Start
  <2>3. ASSUME NEW p \in Submitted,
               Continue(r, "gateRead",
                        [Blank EXCEPT !.entered = p, !.hash = hash, !.standing = standing])
        PROVE  MemoryInv'
    <3>1. MemoryOf(r, [Blank EXCEPT !.entered = p, !.hash = hash, !.standing = standing],
                   "gateRead", pc, row, recorded)
      BY DEF MemoryOf, Remembered, KnownSince, Blank
    <3> QED BY <1>1, <1>t, <2>1, <2>3, <3>1, MemoryContinue DEF Start
  <2> QED BY <1>1, <2>2, <2>3 DEF Start
<1>2. ASSUME NEW r \in Requests, GateRead(r) PROVE MemoryInv'
  <2> DEFINE l == [local[r] EXCEPT !.seen = Visible(row, Gone), !.saw = recorded]
  <2>1. RowMoves(pc, row, recorded, row', recorded') /\ OpenerRecorded'
    BY <1>2, SameStore DEF GateRead, store
  <2>2. l.token = NoState /\ l.seen = Visible(row, Gone) /\ l.saw = recorded
    BY <1>2, <1>l DEF GateRead, MemoryOf, Locals
  <2>3. row \in LockoutState => pc[row.first] = "done"
    BY DEF Inv, RecordedDone, MemoryInv, OpenerRecorded
  <2>4. Continue(r, "gateDecide", l)
    BY <1>2 DEF GateRead
  <2> HIDE DEF l
  <2>5. KnownSince(l.seen, l.saw, pc, row, recorded)
    BY <2>2, <2>3 DEF KnownSince, Visible
  <2>6. MemoryOf(r, l, "gateDecide", pc, row, recorded)
    BY <2>2, <2>5 DEF MemoryOf, Remembered
  <2> QED BY <1>2, <1>t, <2>1, <2>4, <2>6, MemoryContinue DEF GateRead
<1>3. ASSUME NEW r \in Requests, GateDecide(r) PROVE MemoryInv'
  <2>1. RowMoves(pc, row, recorded, row', recorded') /\ OpenerRecorded'
    BY <1>3, SameStore DEF GateDecide, store
  <2>0. local[r] \in Locals /\ MemoryOf(r, local[r], "gateDecide", pc, row, recorded)
    BY <1>3, <1>l DEF GateDecide
  <2>2. CASE Answer(r, "AccountLocked")
    BY <1>3, <1>t, <2>1, <2>2, MemoryAnswer DEF GateDecide
  <2>3. CASE Continue(r, "gateDelete", local[r])
    <3>1. MemoryOf(r, local[r], "gateDelete", pc, row, recorded)
      BY <2>0 DEF MemoryOf, Remembered, KnownSince
    <3> QED BY <1>3, <1>t, <2>1, <2>3, <3>1, MemoryContinue DEF GateDecide
  <2>4. CASE Continue(r, "verify", [local[r] EXCEPT !.token = local[r].seen])
    <3>1. MemoryOf(r, [local[r] EXCEPT !.token = local[r].seen], "verify", pc, row, recorded)
      BY <2>0 DEF MemoryOf, Remembered, Locals
    <3> QED BY <1>3, <1>t, <2>1, <2>4, <3>1, MemoryContinue DEF GateDecide
  <2> QED BY <1>3, <2>2, <2>3, <2>4 DEF GateDecide
<1>4. ASSUME NEW r \in Requests, GateDelete(r) PROVE MemoryInv'
  <2>1. RowMoves(pc, row, recorded, row', recorded') /\ OpenerRecorded'
    BY <1>4, RowRemoved DEF GateDelete, TryDelete
  <2>0. MemoryOf(r, local[r], "gateDelete", pc, row, recorded)
    BY <1>4, <1>l DEF GateDelete
  <2>2. CASE Continue(r, "verify", local[r])
    <3>1. MemoryOf(r, local[r], "verify", pc, row, recorded)
      BY <2>0 DEF MemoryOf, Remembered, KnownSince
    <3> QED BY <1>4, <1>t, <2>1, <2>2, <3>1, MemoryContinue DEF GateDelete
  <2>3. CASE Retry(r, "gateRead")
    BY <1>4, <1>t, <2>1, <2>3, MemoryRetry DEF GateDelete
  <2> QED BY <1>4, <2>2, <2>3 DEF GateDelete
<1>5. ASSUME NEW r \in Requests, Verify(r) PROVE MemoryInv'
  <2> DEFINE l == [local[r] EXCEPT !.tries = 0, !.seen = NoState]
             m == [l EXCEPT !.token = NoState, !.saw = {}]
  <2>1. RowMoves(pc, row, recorded, row', recorded') /\ OpenerRecorded'
    BY <1>5, SameStore DEF Verify, store
  <2>0. local[r] \in Locals /\ MemoryOf(r, local[r], "verify", pc, row, recorded)
    BY <1>5, <1>l DEF Verify
  <2>2. CASE Continue(r, "recordRead", m)
    <3>1. MemoryOf(r, m, "recordRead", pc, row, recorded)
      BY DEF MemoryOf, Remembered, KnownSince
    <3> HIDE DEF m
    <3> QED BY <1>5, <1>t, <2>1, <2>2, <3>1, MemoryContinue DEF Verify
  <2>3. CASE Answer(r, "Refused")
    BY <1>5, <1>t, <2>1, <2>3, MemoryAnswer DEF Verify
  <2>4. ASSUME NEW label \in {"rehash", "clear"}, Continue(r, label, l) PROVE MemoryInv'
    <3>1. l.token = local[r].token /\ l.saw = local[r].saw
      BY <2>0 DEF Locals
    <3> HIDE DEF l
    <3>2. MemoryOf(r, l, label, pc, row, recorded)
      BY <2>0, <3>1 DEF MemoryOf, Remembered
    <3> QED BY <1>5, <1>t, <2>1, <2>4, <3>2, MemoryContinue DEF Verify
  <2> QED BY <1>5, <2>2, <2>3, <2>4 DEF Verify
<1>6. ASSUME NEW r \in Requests, RecordRead(r) PROVE MemoryInv'
  <2>1. RowMoves(pc, row, recorded, row', recorded') /\ OpenerRecorded'
    BY <1>6, SameStore DEF RecordRead, store
  <2>2. MemoryOf(r, [local[r] EXCEPT !.seen = Visible(row, Gone)], "recordCompute",
                 pc, row, recorded)
    BY DEF MemoryOf, Remembered, KnownSince
  <2> QED BY <1>6, <1>t, <2>1, <2>2, MemoryContinue DEF RecordRead
<1>7. ASSUME NEW r \in Requests, RecordCompute(r) PROVE MemoryInv'
  <2> DEFINE s == Counted(r, local[r].seen, now)
             ttl == IF s.lockedUntil # Never THEN s.lockedUntil ELSE now + CounterTtl
             l == [local[r] EXCEPT !.next = s, !.expiry = ttl]
  <2>1. RowMoves(pc, row, recorded, row', recorded') /\ OpenerRecorded'
    BY <1>7, SameStore DEF RecordCompute, store
  <2>2. \/ s.failed = 1 /\ s.first = r
        \/ /\ local[r].seen \in LockoutState
           /\ s.failed = local[r].seen.failed + 1 /\ s.first = local[r].seen.first
    BY DEF Counted
  <2>3. Continue(r, "recordSave", l)
    BY <1>7 DEF RecordCompute
  <2> HIDE DEF s, ttl
  <2>4. l.next = s /\ l.seen = local[r].seen
    BY <1>l DEF Locals
  <2> HIDE DEF l
  <2>5. MemoryOf(r, l, "recordSave", pc, row, recorded)
    BY <2>2, <2>4 DEF MemoryOf, StoresOwn, Remembered, KnownSince
  <2> QED BY <1>7, <1>t, <2>1, <2>3, <2>5, MemoryContinue DEF RecordCompute
<1>8. ASSUME NEW r \in Requests, RecordSave(r) PROVE MemoryInv'
  <2> DEFINE ok == row = local[r].seen /\ (Gone => local[r].seen = NoState)
  <2>1. CASE ok
    <3>1. Answer(r, FailureReply(local[r].next))
      BY <1>8, <2>1 DEF RecordSave, TryReplace
    <3>2. RowMoves(pc, row, recorded, row', recorded') /\ OpenerRecorded'
      BY <1>8, <2>1, RowSaved
    <3> QED BY <1>8, <1>t, <3>1, <3>2, MemoryAnswer DEF RecordSave
  <2>2. CASE ~ok
    <3>1. UNCHANGED <<row, recorded>> /\ Retry(r, "recordRead")
      BY <1>8, <2>2 DEF RecordSave, TryReplace
    <3> QED BY <1>8, <1>t, <3>1, SameStore, MemoryRetry DEF RecordSave
  <2> QED BY <2>1, <2>2
<1>9. ASSUME NEW r \in Requests, Rehash(r) PROVE MemoryInv'
  <2>1. RowMoves(pc, row, recorded, row', recorded') /\ OpenerRecorded'
    BY <1>9, SameStore DEF Rehash, store
  <2>2. MemoryOf(r, local[r], "rehash", pc, row, recorded)
    BY <1>9, <1>l DEF Rehash
  <2>3. MemoryOf(r, local[r], "clear", pc, row, recorded)
    BY <2>2 DEF MemoryOf, Remembered
  <2> QED BY <1>9, <1>t, <2>1, <2>3, MemoryContinue DEF Rehash
<1>10. ASSUME NEW r \in Requests, ClearLockout(r) PROVE MemoryInv'
  <2>1. RowMoves(pc, row, recorded, row', recorded') /\ OpenerRecorded'
    BY <1>10, RowRemoved DEF ClearLockout, TryDelete
  <2>2. MemoryOf(r, local[r], "role", pc, row, recorded)
    BY DEF MemoryOf, Remembered, KnownSince
  <2> QED BY <1>10, <1>t, <2>1, <2>2, MemoryContinue DEF ClearLockout
<1>11. ASSUME NEW r \in Requests, ResolveRole(r) \/ Abort(r) PROVE MemoryInv'
  <2>1. RowMoves(pc, row, recorded, row', recorded') /\ OpenerRecorded'
    BY <1>11, SameStore DEF ResolveRole, Abort, store
  <2> QED BY <1>11, <1>t, <2>1, MemoryAnswer DEF ResolveRole, Abort
<1>12. CASE ChangePassword \/ ChangeStanding \/ Tick \/ UNCHANGED vars
  <2>1. UNCHANGED <<row, recorded, pc, local>>
    BY <1>12 DEF ChangePassword, ChangeStanding, Tick, vars, store
  <2> QED BY <2>1 DEF MemoryInv, OpenerRecorded
<1>13. CASE Purge
  <2>1. UNCHANGED <<pc, local>>
    BY <1>13 DEF Purge
  <2>2. RowMoves(pc, row, recorded, row', recorded') /\ OpenerRecorded'
    BY <1>13, RowRemoved DEF Purge
  <2>3. \A q \in Requests : pc[q] = "done" => pc'[q] = "done"
    BY <2>1
  <2>4. \A a, b, d : MemoryOf(a, b, d, pc, row, recorded) => MemoryOf(a, b, d, pc', row', recorded')
    BY <2>2, <2>3, MemoryKept
  <2>5. \A q \in Requests : MemoryOf(q, local[q], pc[q], pc, row, recorded)'
    BY <1>l, <2>1, <2>4
  <2> QED BY <2>2, <2>5 DEF MemoryInv
<1> QED
  BY <1>1, <1>2, <1>3, <1>4, <1>5, <1>6, <1>7, <1>8, <1>9, <1>10, <1>11, <1>12, <1>13
     DEF Next, Step

\* A success deletes no failure that was recorded after its gate: ClearLockout
\* compares the whole state, and no counter ever takes a value it had before.
THEOREM ClearsOnlySeen == Spec => ClearForgetsOnlySeen
<1>1. Init => MemoryInv
  <2> SUFFICES ASSUME Init PROVE MemoryInv OBVIOUS
  <2>1. OpenerRecorded
    BY DistinctStates DEF Init, OpenerRecorded
  <2>2. \A r \in Requests : local[r] = Blank /\ pc[r] = "idle"
    BY DEF Init
  <2>3. \A r \in Requests : MemoryOf(r, Blank, "idle", pc, row, recorded)
    BY DistinctStates DEF MemoryOf, Remembered, KnownSince
  <2> QED BY <2>1, <2>2, <2>3 DEF MemoryInv
<1>2. ASSUME Inv, MemoryInv, [Next]_vars, NEW r \in Requests,
             pc[r] = "clear", pc'[r] = "role", row' # row
      PROVE  recorded \subseteq local[r].saw
  <2>1. ClearLockout(r)
    <3>1. TypeOK BY <1>2 DEF Inv
    <3>2. ASSUME NEW q \in Requests, q # r, Step(q) \/ Abort(q) PROVE FALSE
      <4>1. \E label : pc' = [pc EXCEPT ![q] = label]
        BY <3>2 DEF Step, Abort, Start, GateRead, GateDecide, GateDelete, Verify, RecordRead,
                    RecordCompute, RecordSave, Rehash, ClearLockout, ResolveRole, Retry,
                    Continue, Answer
      <4> QED BY <1>2, <3>1, <3>2, <4>1 DEF TypeOK
    <3>3. ASSUME ChangePassword \/ ChangeStanding \/ Purge \/ Tick \/ UNCHANGED vars
          PROVE  FALSE
      BY <1>2, <3>3 DEF ChangePassword, ChangeStanding, Purge, Tick, vars
    <3>4. ~Abort(r)
      BY <1>2, <3>1 DEF Abort, Answer, TypeOK
    <3>5. Step(r)
      BY <1>2, <3>2, <3>3, <3>4 DEF Next
    <3> QED BY <1>2, <3>5 DEF Step, Start, GateRead, GateDecide, GateDelete, Verify, RecordRead,
                    RecordCompute, RecordSave, Rehash, ResolveRole
  <2>2. row = local[r].token /\ row # NoState
    BY <1>2, <2>1 DEF ClearLockout, TryDelete
  <2>3. row \in LockoutState
    <3>1. local[r] \in Locals BY <1>2 DEF Inv, TypeOK
    <3> QED BY <2>2, <3>1 DEF Locals
  <2>4. KnownSince(local[r].token, local[r].saw, pc, row, recorded)
    BY <1>2 DEF MemoryInv, MemoryOf, Remembered
  <2>5. row.failed \in Nat
    BY <2>3 DEF LockoutState
  <2> QED BY <2>2, <2>3, <2>4, <2>5 DEF KnownSince
<1>3. ASSUME Inv, MemoryInv, [Next]_vars
      PROVE  \A r \in Requests :
               pc[r] = "clear" /\ pc'[r] = "role" /\ row' # row => recorded \subseteq local[r].saw
  BY <1>2, <1>3
<1> QED BY <1>1, <1>3, MemoryPreserved, Invariance, PTL DEF Spec, ClearForgetsOnlySeen
=============================================================================
