---------------------------- MODULE LoginLockout ----------------------------
(* Concurrent password logins to one account: AuthCommandService.LoginAsync  *)
(* with the AccountLockoutService it calls before and after it verifies the  *)
(* password, and the events that race it: password changes, moderation of    *)
(* the account, the hygiene purge, aborted requests, the clock.              *)
(*                                                                           *)
(* A request is a process.  It takes one step per awaited database call (a   *)
(* step of its own reads the clock where the code does), so anything may     *)
(* happen between two calls.  The lockout feature is on (its default).       *)
EXTENDS ChallengeStore, FiniteSets

CONSTANTS
    Requests,               \* the login requests
    Corrupt,                \* a stored state that is not a LockoutState's JSON
    MaxFailedAttempts,      \* AccountLockout:MaxFailedAttempts
    LockoutDuration,        \* AccountLockout:LockoutDurationMinutes, in ticks
    CounterTtl,             \* the hour a counter row lives without a lock
    MaxConcurrencyRetries,  \* 8 in the code
    MaxTime,                \* bound: ticks of the clock
    MaxPassword,            \* bound: password changes
    Standings,              \* the standings the account may take
    LegacyHashes            \* whether its first hash is due for an upgrade

Max1(n) == IF n < 1 THEN 1 ELSE n

Threshold == Max1(MaxFailedAttempts)

Duration == Max1(LockoutDuration)

\* LockedUntilUtc = null; the clock starts after it.
Never == 0

\* AccountLockoutService.LockoutState.  FirstFailedAtUtc only tells one counter
\* from another, and no two stored counters share it, so it is the request
\* that opened the counter.
LockoutState == [failed : Nat \ {0}, first : Requests, lockedUntil : Nat]

Stored == LockoutState \cup {NoState, Corrupt}

\* The passwords a client may submit: every one the account has had or will
\* have, and one it never has.
Submitted == 0 .. MaxPassword + 1

\* The password an account accepts and whether its hash is due for an upgrade.
Hash == [pw : Submitted, legacy : BOOLEAN]

\* What the checks on IsDeleted, Status, IsEmailVerified and SuspendedUntil say.
AllStandings == {"eligible", "refused", "deleted"}

Locals == [entered : Submitted,              \* the password submitted
           hash : Hash,                     \* the user loaded: its hash
           standing : AllStandings,         \*   and its standing
           seen : Stored,                   \* the state read last
           next : LockoutState \cup {NoState},  \* the state to store
           expiry : Nat,                    \*   and its ExpiresAt
           token : LockoutState \cup {NoState}, \* observedLockoutStateToken
           tries : 0 .. MaxConcurrencyRetries - 1,  \* the retry loop's counter
           saw : SUBSET Requests]           \* history: see `recorded`

Labels == {"idle", "gateRead", "gateDecide", "gateDelete", "verify", "recordRead",
           "recordCompute", "recordSave", "rehash", "clear", "role", "done"}

Replies == {"none", "Success", "InvalidCredentials", "AccountLocked", "Refused",
            "RoleResolutionFailed", "Aborted"}

ASSUME LockoutConstants ==
    /\ MaxFailedAttempts \in Nat
    /\ LockoutDuration \in Nat
    /\ CounterTtl \in Nat
    /\ MaxConcurrencyRetries \in Nat \ {0}
    /\ MaxTime \in Nat \ {0}
    /\ MaxPassword \in Nat
    /\ Standings \subseteq AllStandings
    /\ LegacyHashes \subseteq BOOLEAN

ASSUME DistinctStates ==
    /\ NoState # Corrupt
    /\ NoState \notin LockoutState
    /\ Corrupt \notin LockoutState

ASSUME FiniteRequests == IsFiniteSet(Requests)

VARIABLES
    now,        \* DateTime.UtcNow
    row,        \* the LoginLockout row
    expiresAt,  \* its ExpiresAt column
    hash,       \* Users.HashedPassword
    standing,   \* deleted, or whether the status checks let the user in
    pc,         \* where each request is
    reply,      \* what it answered
    local,      \* the locals of its handler
    recorded    \* history: the requests whose failure the row stands for

vars == <<now, row, expiresAt, hash, standing, pc, reply, local, recorded>>
store == <<row, expiresAt, recorded>>
world == <<now, hash, standing>>

\* A handler's locals before it starts and after it answers.
Blank == [entered |-> 0, hash |-> [pw |-> 0, legacy |-> FALSE], standing |-> "eligible",
          seen |-> NoState, next |-> NoState, expiry |-> 0, token |-> NoState,
          tries |-> 0, saw |-> {}]

Init ==
    /\ now = 1
    /\ row \in {NoState, Corrupt}
    /\ expiresAt = 1
    /\ hash \in [pw : {0}, legacy : LegacyHashes]
    /\ standing = "eligible"
    /\ pc = [r \in Requests |-> "idle"]
    /\ reply = [r \in Requests |-> "none"]
    /\ local = [r \in Requests |-> Blank]
    /\ recorded = {}

-----------------------------------------------------------------------------

\* The query filter on users, which also hides their challenges.
Gone == standing = "deleted"

Locked(s, t) == s \in LockoutState /\ s.lockedUntil > t

Lapsed(s, t) == s \in LockoutState /\ s.lockedUntil # Never /\ s.lockedUntil <= t

\* No counter, or one below the threshold.
Open(s) == s = NoState \/ (s \in LockoutState /\ s.lockedUntil = Never)

\* The handler goes on at `label` with these locals.
Continue(r, label, l) ==
    /\ pc' = [pc EXCEPT ![r] = label]
    /\ local' = [local EXCEPT ![r] = l]
    /\ UNCHANGED reply

Answer(r, a) ==
    /\ pc' = [pc EXCEPT ![r] = "done"]
    /\ reply' = [reply EXCEPT ![r] = a]
    /\ local' = [local EXCEPT ![r] = Blank]

\* The locals of the loop's next round: nothing read or computed is kept.
Again(l) == [l EXCEPT !.tries = @ + 1, !.seen = NoState, !.next = NoState, !.expiry = 0]

\* A loop that goes round once more than MaxConcurrencyRetries.
RetryOnceMore(r, label) ==
    \/ /\ local[r].tries + 1 <= MaxConcurrencyRetries
       /\ Continue(r, label, Again(local[r]))
    \/ /\ local[r].tries + 1 > MaxConcurrencyRetries
       /\ Answer(r, "AccountLocked")

\* A lost compare-and-swap that has no way out of the loop.
RetryWithoutFailClosed(r, label) ==
    /\ local[r].tries + 1 < MaxConcurrencyRetries
    /\ Continue(r, label, Again(local[r]))

\* A lost compare-and-swap: the loop goes round, or FailClosed denies the
\* request without writing anything.
Retry(r, label) ==
    \/ /\ local[r].tries + 1 < MaxConcurrencyRetries
       /\ Continue(r, label, Again(local[r]))
    \/ /\ local[r].tries + 1 >= MaxConcurrencyRetries
       /\ Answer(r, "AccountLocked")

\* The row's removal ends the history it stands for.
Forget == recorded' = IF row' = NoState THEN {} ELSE recorded

-----------------------------------------------------------------------------
(* LoginAsync up to the gate.                                                *)

\* GetUserByLoginCandidatesAsync: deleted users are filtered out, and an
\* unknown login is refused without a counter.
Start(r) ==
    /\ pc[r] = "idle"
    /\ IF Gone
       THEN Answer(r, "InvalidCredentials")
       ELSE \E p \in Submitted :
              Continue(r, "gateRead",
                       [Blank EXCEPT !.entered = p, !.hash = hash, !.standing = standing])
    /\ UNCHANGED <<world, store>>

\* IsLockedOutAsync: the read.
GateRead(r) ==
    /\ pc[r] = "gateRead"
    /\ Continue(r, "gateDecide", [local[r] EXCEPT !.seen = Visible(row, Gone), !.saw = recorded])
    /\ UNCHANGED <<world, store>>

\* IsLockedOutAsync: what the state it read means now.  An active lock ends
\* the request; a corrupt or lapsed state is to be deleted; anything else
\* opens the gate and is remembered as the token.
GateDecide(r) ==
    /\ pc[r] = "gateDecide"
    /\ LET s == local[r].seen IN
       \/ Locked(s, now) /\ Answer(r, "AccountLocked")
       \/ /\ s = Corrupt \/ Lapsed(s, now)
          /\ Continue(r, "gateDelete", local[r])
       \/ /\ Open(s)
          /\ Continue(r, "verify", [local[r] EXCEPT !.token = s])
    /\ UNCHANGED <<world, store>>

\* IsLockedOutAsync: TryDelete of the corrupt or lapsed state.
GateDelete(r) ==
    /\ pc[r] = "gateDelete"
    /\ LET del == TryDelete(row, Gone, local[r].seen) IN
       /\ row' = del.row
       /\ IF del.ok THEN Continue(r, "verify", local[r]) ELSE Retry(r, "gateRead")
    /\ Forget
    /\ UNCHANGED <<world, expiresAt>>

-----------------------------------------------------------------------------
(* LoginAsync: the verdict on the password, and a failure's way.             *)

\* VerifyPassword against the hash loaded at the start, then the standing
\* checks, and whether the hash is due for an upgrade.  Each lockout call has
\* a retry counter of its own.
Verify(r) ==
    /\ pc[r] = "verify"
    /\ LET l == [local[r] EXCEPT !.tries = 0, !.seen = NoState]
           right == l.entered = l.hash.pw
       IN \/ /\ ~right
             /\ Continue(r, "recordRead", [l EXCEPT !.token = NoState, !.saw = {}])
          \/ right /\ l.standing # "eligible" /\ Answer(r, "Refused")
          \/ /\ right /\ l.standing = "eligible"
             /\ Continue(r, IF l.hash.legacy THEN "rehash" ELSE "clear", l)
    /\ UNCHANGED <<world, store>>

\* RecordFailedAttemptAsync: the read.
RecordRead(r) ==
    /\ pc[r] = "recordRead"
    /\ Continue(r, "recordCompute", [local[r] EXCEPT !.seen = Visible(row, Gone)])
    /\ UNCHANGED <<world, store>>

\* An off-by-one: the account locks one failure late.
CountedLate(r, s, t) ==
    LET fresh  == s \notin LockoutState \/ Lapsed(s, t)
        failed == IF fresh THEN 1 ELSE s.failed + 1
    IN [failed |-> failed,
        first |-> IF fresh THEN r ELSE s.first,
        lockedUntil |-> IF failed > Threshold THEN t + Duration
                        ELSE IF fresh THEN Never ELSE s.lockedUntil]

\* The state after one more failure at time t: a counter of its own when there
\* is none or its lock has lapsed, the next count otherwise; the threshold
\* starts, or restarts, the lock.
Counted(r, s, t) ==
    LET fresh  == s \notin LockoutState \/ Lapsed(s, t)
        failed == IF fresh THEN 1 ELSE s.failed + 1
    IN [failed |-> failed,
        first |-> IF fresh THEN r ELSE s.first,
        lockedUntil |-> IF failed >= Threshold THEN t + Duration
                        ELSE IF fresh THEN Never ELSE s.lockedUntil]

\* RecordFailedAttemptAsync: the clock is read once, between the two calls.
RecordCompute(r) ==
    /\ pc[r] = "recordCompute"
    /\ LET s == Counted(r, local[r].seen, now)
           ttl == IF s.lockedUntil # Never THEN s.lockedUntil ELSE now + CounterTtl
       IN Continue(r, "recordSave", [local[r] EXCEPT !.next = s, !.expiry = ttl])
    /\ UNCHANGED <<world, store>>

\* How a saved failure is answered.
FailureReply(s) == IF s.lockedUntil # Never THEN "AccountLocked" ELSE "InvalidCredentials"

\* Fail-closed as the code's comment warns against: the last try stores its
\* state whatever has happened since.
RecordSaveForced(r) ==
    /\ pc[r] = "recordSave"
    /\ LET l == local[r]
           cas == IF l.tries + 1 >= MaxConcurrencyRetries
                  THEN [ok |-> TRUE, row |-> l.next] ELSE TryReplace(row, Gone, l.seen, l.next)
       IN /\ row' = cas.row
          /\ expiresAt' = IF cas.ok THEN l.expiry ELSE expiresAt
          /\ IF cas.ok THEN Answer(r, FailureReply(l.next)) ELSE Retry(r, "recordRead")
    /\ UNCHANGED <<world, recorded>>

\* RecordFailedAttemptAsync: the compare-and-swap, and the answer.
RecordSave(r) ==
    /\ pc[r] = "recordSave"
    /\ LET l == local[r]
           cas == TryReplace(row, Gone, l.seen, l.next)
           reopened == l.next.failed = 1 /\ (row \notin LockoutState \/ Lapsed(row, now))
       IN /\ row' = cas.row
          /\ IF cas.ok
             THEN /\ Answer(r, FailureReply(l.next))
                  /\ expiresAt' = l.expiry
                  /\ recorded' = IF reopened THEN {r} ELSE recorded \cup {r}
             ELSE Retry(r, "recordRead") /\ UNCHANGED <<expiresAt, recorded>>
    /\ UNCHANGED world

-----------------------------------------------------------------------------
(* LoginAsync: a success's way.                                              *)

\* An upgrade that writes the hash of the password it verified, whatever the
\* account's hash is by now.
RehashBlindly(r) ==
    /\ pc[r] = "rehash"
    /\ hash' = [pw |-> local[r].entered, legacy |-> FALSE]
    /\ Continue(r, "clear", local[r])
    /\ UNCHANGED <<now, standing, store>>

\* UpdatePasswordHashForCredentialRehashAsync compares the hash it replaces;
\* the login goes on whether it replaced it, lost the race or threw.
Rehash(r) ==
    /\ pc[r] = "rehash"
    /\ \/ /\ hash = local[r].hash /\ ~Gone
          /\ hash' = [pw |-> local[r].entered, legacy |-> FALSE]
       \/ UNCHANGED hash
    /\ Continue(r, "clear", local[r])
    /\ UNCHANGED <<now, standing, store>>

\* A clear that removes whatever counter is there.
ClearLockoutBlindly(r) ==
    /\ pc[r] = "clear"
    /\ row' = IF local[r].token = NoState THEN row ELSE NoState
    /\ Forget
    /\ Continue(r, "role", local[r])
    /\ UNCHANGED <<world, expiresAt>>

\* ClearLockoutAsync: nothing to do without a token, else TryDelete of exactly
\* the state the gate saw; its result is ignored.
ClearLockout(r) ==
    /\ pc[r] = "clear"
    /\ row' = IF local[r].token = NoState THEN row ELSE TryDelete(row, Gone, local[r].token).row
    /\ Forget
    /\ Continue(r, "role", local[r])
    /\ UNCHANGED <<world, expiresAt>>

\* ResolveRoleNameForTokenAsync, after the counter is gone.
ResolveRole(r) ==
    /\ pc[r] = "role"
    /\ \E a \in {"Success", "RoleResolutionFailed"} : Answer(r, a)
    /\ UNCHANGED <<world, store>>

\* The client goes away: the cancellation token ends the handler at an await.
Abort(r) ==
    /\ pc[r] \notin {"idle", "done"}
    /\ Answer(r, "Aborted")
    /\ UNCHANGED <<world, store>>

-----------------------------------------------------------------------------
(* What races the requests.                                                  *)

\* UpdateUserFieldsAsync(HashedPassword) of a reset or a profile change.
ChangePassword ==
    /\ ~Gone /\ hash.pw < MaxPassword
    /\ hash' = [pw |-> hash.pw + 1, legacy |-> FALSE]
    /\ UNCHANGED <<now, standing, store, pc, reply, local>>

\* Moderation, suspension, deletion of the user.
ChangeStanding ==
    /\ ~Gone
    /\ standing' \in Standings \ {standing}
    /\ UNCHANGED <<now, hash, store, pc, reply, local>>

\* ExecuteCleanupAsync("VerificationChallenges").
Purge ==
    /\ Purgeable(row, Gone, expiresAt, now)
    /\ row' = NoState
    /\ Forget
    /\ UNCHANGED <<world, expiresAt, pc, reply, local>>

Tick ==
    /\ now < MaxTime
    /\ now' = now + 1
    /\ UNCHANGED <<hash, standing, store, pc, reply, local>>

Step(r) ==
    \/ Start(r) \/ GateRead(r) \/ GateDecide(r) \/ GateDelete(r) \/ Verify(r)
    \/ RecordRead(r) \/ RecordCompute(r) \/ RecordSave(r)
    \/ Rehash(r) \/ ClearLockout(r) \/ ResolveRole(r)

Next ==
    \/ \E r \in Requests : Step(r) \/ Abort(r)
    \/ ChangePassword \/ ChangeStanding \/ Purge \/ Tick

\* The server runs every handler it has started; nothing makes a client send
\* or abort a request, and the clock and the background jobs owe nothing.
Fairness == \A r \in Requests : WF_vars(pc[r] # "idle" /\ Step(r))

Spec == Init /\ [][Next]_vars

FairSpec == Spec /\ Fairness

-----------------------------------------------------------------------------
(* Properties.                                                               *)

TypeOK ==
    /\ now \in 1 .. MaxTime
    /\ row \in Stored
    /\ expiresAt \in Nat
    /\ hash \in Hash
    /\ standing \in AllStandings
    /\ pc \in [Requests -> Labels]
    /\ reply \in [Requests -> Replies]
    /\ local \in [Requests -> Locals]
    /\ recorded \in SUBSET Requests

\* The counter is exact: it equals the number of failed logins recorded since
\* it was opened, however the reads and writes of concurrent failures
\* interleave (RecordFailedAttemptAsync's compare-and-swap loses none).
NoLostFailure == row \in LockoutState => row.failed = Cardinality(recorded)

\* Enough recorded failures have locked the account: no interleaving reaches
\* the threshold and leaves LockedUntilUtc unset.
ThresholdLocks ==
    row \in LockoutState /\ Cardinality(recorded) >= Threshold => row.lockedUntil # Never

\* Between two removals of the counter fewer than MaxFailedAttempts requests
\* are told that their password was wrong; the others learn of the lock.
WrongAnswerBudget ==
    Cardinality({r \in recorded : reply[r] = "InvalidCredentials"}) < Threshold

\* A lock in force is never lifted or shortened: not by a success that passed
\* the gate earlier, a slower failure, a purge or a request that ran out of
\* retries.  (AccountLockoutService.FailClosed: an unconditional write "could
\* overwrite a newer lockout and shorten its duration".)
LockHolds ==
    Locked(row, now) /\ row' # row =>
        row' \in LockoutState /\ row'.lockedUntil >= row.lockedUntil

LockNeverShortened == [][LockHolds]_vars

\* A success clears only failures it knew of when it passed the gate: one that
\* arrives during authentication "must survive" (ClearLockoutAsync).
ClearForgetsOnlySeen ==
    [][\A r \in Requests :
         pc[r] = "clear" /\ pc'[r] = "role" /\ row' # row => recorded \subseteq local[r].saw]_vars

\* The opportunistic hash upgrade never brings back a password that was
\* changed after the login loaded the user.
PasswordNeverReverts == [][hash'.pw >= hash.pw]_vars

\* Every login that started is answered, whatever it competes with: the retry
\* loops are bounded and end in a denial.
EveryLoginAnswered == \A r \in Requests : (pc[r] # "idle") ~> (pc[r] = "done")
=============================================================================
