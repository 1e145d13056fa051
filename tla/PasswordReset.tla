---------------------------- MODULE PasswordReset ----------------------------
(* Forgotten passwords of one account: PasswordResetService's RequestReset,  *)
(* VerifyCode and ConfirmReset, any number of them at once, against the      *)
(* account's PasswordReset row.                                              *)
(*                                                                           *)
(* A call is a process that takes one step per awaited call (database,       *)
(* e-mail).  The code a request generates is named after the request.  The   *)
(* feature is on and its e-mail transport configured, and submitted codes    *)
(* and new passwords have passed the length and policy checks.               *)
EXTENDS ChallengeStore, FiniteSets

CONSTANTS
    Requests,               \* the calls of RequestResetAsync
    Checks,                 \* the calls of VerifyCodeAsync and ConfirmResetAsync
    Corrupt,                \* a stored state that is not a challenge's JSON
    MaxAttempts,            \* PasswordReset:MaxAttempts
    Lifetime,               \* CodeLifetimeMinutes, in ticks
    Cooldown,               \* RequestCooldownSeconds, in ticks
    MaxConcurrencyRetries,  \* 8 in the code
    Standings,              \* the standings the account may take
    MaxTime                 \* bound: ticks of the clock

Calls == Requests \cup Checks

\* What a client may submit: the code of a request, or one nobody was sent.
Submitted == Requests \cup {NoState}

\* GetMaxAttempts.
Attempts == IF MaxAttempts < 1 THEN 1 ELSE IF MaxAttempts > 10 THEN 10 ELSE MaxAttempts

\* PasswordResetChallengeState.  CodeHash is the code it is the hash of.
Challenge == [code : Requests, expires : Nat, sentAt : Nat, failed : Nat]

Stored == Challenge \cup {NoState, Corrupt}

AllStandings == {"active", "inactive", "deleted"}

Ops == {"verify", "confirm"}

Labels == {"idle", "requestRead", "requestDecide", "requestStore", "requestSend", "requestUndo",
           "read", "decide", "delete", "replace", "save", "invalidate", "done"}

Replies == {"none", "Ignored", "Cooldown", "Superseded", "Sent", "SendFailed",
            "InvalidOrExpiredCode", "TooManyAttempts", "UserUnavailable",
            "PersistenceFailed", "Valid", "Success", "Aborted"}

Verdicts == {"stale", "exhausted", "lastMiss", "miss", "right"}

ASSUME ResetConstants ==
    /\ MaxAttempts \in Nat
    /\ Lifetime \in Nat \ {0}
    /\ Cooldown \in Nat
    /\ MaxConcurrencyRetries \in Nat \ {0}
    /\ MaxTime \in Nat \ {0}
    /\ Standings \subseteq AllStandings
    /\ Requests \cap Checks = {}
    /\ NoState \notin Calls

ASSUME DistinctStates ==
    /\ NoState # Corrupt
    /\ NoState \notin Challenge
    /\ Corrupt \notin Challenge

Locals == [op : Ops,
           code : Submitted,         \* the code submitted
           standing : AllStandings,  \* of the user loaded
           seen : Stored,            \* the state read last
           mine : Challenge \cup {NoState},  \* the challenge to store
           verdict : Verdicts,       \* on the submitted code
           tries : 0 .. MaxConcurrencyRetries - 1]

VARIABLES
    now,        \* DateTimeOffset.UtcNow
    row,        \* the PasswordReset row; its ExpiresAt column is the state's
    standing,   \* the account's
    password,   \* the call that set it, or NoState for the original
    pc,
    reply,
    local,
    issued,     \* history: the codes ever stored
    mailed,     \*   the codes that reached the mailbox
    redeemed,   \*   <<call, code>>: the redemptions
    wrong       \*   the wrong guesses answered against each code

vars == <<now, row, standing, password, pc, reply, local, issued, mailed, redeemed, wrong>>
world == <<now, standing>>
history == <<issued, mailed, redeemed, wrong>>

Blank == [op |-> "verify", code |-> NoState, standing |-> "active", seen |-> NoState,
          mine |-> NoState, verdict |-> "stale", tries |-> 0]

Init ==
    /\ now = 1
    /\ row \in {NoState, Corrupt}
    /\ standing = "active"
    /\ password = NoState
    /\ pc = [c \in Calls |-> "idle"]
    /\ reply = [c \in Calls |-> "none"]
    /\ local = [c \in Calls |-> Blank]
    /\ issued = {}
    /\ mailed = {}
    /\ redeemed = {}
    /\ wrong = [c \in Requests |-> 0]

-----------------------------------------------------------------------------

\* The query filter on users, which also hides their challenges.
Gone == standing = "deleted"

Continue(c, label, l) ==
    /\ pc' = [pc EXCEPT ![c] = label]
    /\ local' = [local EXCEPT ![c] = l]
    /\ UNCHANGED reply

Answer(c, a) ==
    /\ pc' = [pc EXCEPT ![c] = "done"]
    /\ reply' = [reply EXCEPT ![c] = a]
    /\ local' = [local EXCEPT ![c] = Blank]

\* An off-by-one: the loop takes one round more.
RetryOnceMore(c) ==
    \/ /\ local[c].tries < MaxConcurrencyRetries
       /\ Continue(c, "read", [local[c] EXCEPT !.tries = @ + 1, !.seen = NoState])
    \/ /\ local[c].tries >= MaxConcurrencyRetries
       /\ Answer(c, "PersistenceFailed")

\* The loop of ValidateResetCodeAsync goes round, or gives up.
Retry(c) ==
    \/ /\ local[c].tries + 1 < MaxConcurrencyRetries
       /\ Continue(c, "read", [local[c] EXCEPT !.tries = @ + 1, !.seen = NoState])
    \/ /\ local[c].tries + 1 >= MaxConcurrencyRetries
       /\ Answer(c, "PersistenceFailed")

-----------------------------------------------------------------------------
(* RequestResetAsync.                                                        *)

\* The user must exist and be active; the caller is told nothing either way.
RequestStart(c) ==
    /\ pc[c] = "idle"
    /\ IF standing = "active"
       THEN Continue(c, "requestRead", Blank)
       ELSE Answer(c, "Ignored")
    /\ UNCHANGED <<world, row, password, history>>

\* An unexpired challenge that was sent too recently to send another.
Cooling(s, t) == s \in Challenge /\ s.expires > t /\ t - s.sentAt < Cooldown

RequestRead(c) ==
    /\ pc[c] = "requestRead"
    /\ Continue(c, "requestDecide", [local[c] EXCEPT !.seen = Visible(row, Gone)])
    /\ UNCHANGED <<world, row, password, history>>

\* The cooldown check and the new challenge; a corrupt state is overridden.
RequestDecide(c) ==
    /\ pc[c] = "requestDecide"
    /\ \/ Cooling(local[c].seen, now) /\ Answer(c, "Cooldown")
       \/ /\ ~Cooling(local[c].seen, now)
          /\ Continue(c, "requestStore",
                [local[c] EXCEPT !.mine = [code |-> c, expires |-> now + Lifetime,
                                           sentAt |-> now, failed |-> 0]])
    /\ UNCHANGED <<world, row, password, history>>

\* TryReplace of the state read; the loser of the race sends nothing.
RequestStore(c) ==
    /\ pc[c] = "requestStore"
    /\ LET cas == TryReplace(row, Gone, local[c].seen, local[c].mine) IN
       /\ row' = cas.row
       /\ IF cas.ok
          THEN /\ issued' = issued \cup {c}
               /\ Continue(c, "requestSend", [local[c] EXCEPT !.seen = NoState])
          ELSE Answer(c, "Superseded") /\ UNCHANGED issued
    /\ UNCHANGED <<world, password, mailed, redeemed, wrong>>

\* SendPasswordResetCodeAsync.  A send that throws may have delivered.
RequestSend(c) ==
    /\ pc[c] = "requestSend"
    /\ \/ mailed' = mailed \cup {c} /\ Answer(c, "Sent")
       \/ mailed' \in {mailed, mailed \cup {c}} /\ Continue(c, "requestUndo", local[c])
    /\ UNCHANGED <<world, row, password, issued, redeemed, wrong>>

\* A failed send with the discard left out.
RequestUndoForgotten(c) ==
    /\ pc[c] = "requestUndo"
    /\ Answer(c, "SendFailed")
    /\ UNCHANGED <<world, row, password, history>>

\* The challenge that was not delivered is deleted, if it is still as stored.
RequestUndo(c) ==
    /\ pc[c] = "requestUndo"
    /\ row' = TryDelete(row, Gone, local[c].mine).row
    /\ Answer(c, "SendFailed")
    /\ UNCHANGED <<world, password, history>>

-----------------------------------------------------------------------------
(* VerifyCodeAsync and ConfirmResetAsync: ValidateResetCodeAsync.            *)

\* The user is loaded once, before the loop.
ValidateStart(c) ==
    /\ pc[c] = "idle"
    /\ \E op \in Ops, code \in Submitted :
         IF Gone
         THEN Answer(c, "UserUnavailable")
         ELSE Continue(c, "read", [Blank EXCEPT !.op = op, !.code = code,
                                                   !.standing = standing])
    /\ UNCHANGED <<world, row, password, history>>

Read(c) ==
    /\ pc[c] = "read"
    /\ LET s == Visible(row, Gone) IN
       \/ s = NoState /\ Answer(c, "InvalidOrExpiredCode")
       \/ s # NoState /\ Continue(c, "decide", [local[c] EXCEPT !.seen = s])
    /\ UNCHANGED <<world, row, password, history>>

\* An off-by-one: the budget allows one guess more.
VerdictLate(s, code, t) ==
    IF s \notin Challenge \/ s.expires <= t THEN "stale"
    ELSE IF s.failed > Attempts THEN "exhausted"
    ELSE IF s.code = code THEN "right"
    ELSE IF s.failed >= Attempts THEN "lastMiss" ELSE "miss"

\* What the state read says of the submitted code at time t.
Verdict(s, code, t) ==
    IF s \notin Challenge \/ s.expires <= t THEN "stale"
    ELSE IF s.failed >= Attempts THEN "exhausted"
    ELSE IF s.code = code THEN "right"
    ELSE IF s.failed + 1 >= Attempts THEN "lastMiss" ELSE "miss"

\* A right code of an active user is valid at once for VerifyCodeAsync, which
\* consumes nothing; a miss that is not the last is counted; the rest deletes.
Decide(c) ==
    /\ pc[c] = "decide"
    /\ LET v == Verdict(local[c].seen, local[c].code, now)
           l == [local[c] EXCEPT !.verdict = v]
           active == local[c].standing = "active"
       IN \/ v = "right" /\ active /\ local[c].op = "verify" /\ Answer(c, "Valid")
          \/ v = "miss" /\ Continue(c, "replace", l)
          \/ /\ v # "miss" /\ ~(v = "right" /\ active /\ local[c].op = "verify")
             /\ Continue(c, "delete", l)
    /\ UNCHANGED <<world, row, password, history>>

\* A validation that takes the code for redeemed without winning its deletion.
DeleteUnchecked(c) ==
    /\ pc[c] = "delete"
    /\ LET l == local[c] IN
       /\ row' = TryDelete(row, Gone, l.seen).row
       /\ IF l.verdict = "right"
          THEN /\ redeemed' = redeemed \cup {<<c, l.seen.code>>}
               /\ Continue(c, "save", Blank)
          ELSE Answer(c, "TooManyAttempts") /\ UNCHANGED redeemed
    /\ UNCHANGED <<world, password, issued, mailed, wrong>>

\* The deletion must win; then the verdict decides the answer.  Only a right
\* code of an active user's ConfirmResetAsync goes on.
Delete(c) ==
    /\ pc[c] = "delete"
    /\ LET l == local[c]
           del == TryDelete(row, Gone, l.seen)
           right == l.verdict = "right"
           entitled == l.standing = "active"
       IN /\ row' = del.row
          /\ \/ ~del.ok /\ Retry(c)
             \/ del.ok /\ l.verdict = "stale" /\ Answer(c, "InvalidOrExpiredCode")
             \/ del.ok /\ l.verdict \in {"exhausted", "lastMiss"} /\ Answer(c, "TooManyAttempts")
             \/ del.ok /\ right /\ ~entitled /\ Answer(c, "UserUnavailable")
             \/ del.ok /\ right /\ entitled /\ Continue(c, "save", Blank)
          /\ redeemed' = IF del.ok /\ right /\ entitled
                         THEN redeemed \cup {<<c, l.seen.code>>} ELSE redeemed
          /\ wrong' = IF del.ok /\ l.verdict = "lastMiss"
                      THEN [wrong EXCEPT ![l.seen.code] = @ + 1] ELSE wrong
    /\ UNCHANGED <<world, password, issued, mailed>>

\* One more failed attempt, if the challenge is still as read.
Replace(c) ==
    /\ pc[c] = "replace"
    /\ LET s == local[c].seen
           cas == TryReplace(row, Gone, s, [s EXCEPT !.failed = @ + 1])
       IN /\ row' = cas.row
          /\ \/ ~cas.ok /\ Retry(c)
             \/ cas.ok /\ Answer(c, "InvalidOrExpiredCode")
          /\ wrong' = IF cas.ok THEN [wrong EXCEPT ![s.code] = @ + 1] ELSE wrong
    /\ UNCHANGED <<world, password, issued, mailed, redeemed>>

\* UpdateUserFieldsAsync(HashedPassword), which may fail with the code spent.
Save(c) ==
    /\ pc[c] = "save"
    /\ \/ ~Gone /\ password' = c /\ Continue(c, "invalidate", local[c])
       \/ UNCHANGED password /\ Answer(c, "PersistenceFailed")
    /\ UNCHANGED <<world, row, history>>

\* InvalidateAllUserSessionsAsync (see Sessions), then the answer.
Invalidate(c) ==
    /\ pc[c] = "invalidate"
    /\ Answer(c, "Success")
    /\ UNCHANGED <<world, row, password, history>>

\* The cancellation token ends the call at an await; nothing is undone, and an
\* e-mail that was under way may have left.
Abort(c) ==
    /\ pc[c] \notin {"idle", "done"}
    /\ mailed' \in {mailed} \cup (IF pc[c] = "requestSend" THEN {mailed \cup {c}} ELSE {})
    /\ Answer(c, "Aborted")
    /\ UNCHANGED <<world, row, password, issued, redeemed, wrong>>

-----------------------------------------------------------------------------

ChangeStanding ==
    /\ ~Gone
    /\ standing' \in Standings \ {standing}
    /\ UNCHANGED <<now, row, password, pc, reply, local, history>>

\* ExecuteCleanupAsync("VerificationChallenges").  The ExpiresAt column of a
\* corrupt state is in the past.
Purge ==
    /\ Purgeable(row, Gone, IF row \in Challenge THEN row.expires ELSE 0, now)
    /\ row' = NoState
    /\ UNCHANGED <<world, password, pc, reply, local, history>>

Tick ==
    /\ now < MaxTime
    /\ now' = now + 1
    /\ UNCHANGED <<row, standing, password, pc, reply, local, history>>

RequestStep(c) ==
    RequestRead(c) \/ RequestDecide(c) \/ RequestStore(c) \/ RequestSend(c) \/ RequestUndo(c)

CheckStep(c) ==
    \/ Read(c) \/ Decide(c) \/ Delete(c) \/ Replace(c) \/ Save(c) \/ Invalidate(c)

Next ==
    \/ \E c \in Requests : RequestStart(c) \/ RequestStep(c) \/ Abort(c)
    \/ \E c \in Checks : ValidateStart(c) \/ CheckStep(c) \/ Abort(c)
    \/ ChangeStanding \/ Purge \/ Tick

\* The server runs every call it has accepted.
Fairness == /\ \A c \in Requests : WF_vars(RequestStep(c))
            /\ \A c \in Checks : WF_vars(CheckStep(c))

Spec == Init /\ [][Next]_vars

FairSpec == Spec /\ Fairness

-----------------------------------------------------------------------------
(* Properties.                                                               *)

TypeOK ==
    /\ now \in 1 .. MaxTime
    /\ row \in Stored
    /\ standing \in AllStandings
    /\ password \in Checks \cup {NoState}
    /\ pc \in [Calls -> Labels]
    /\ reply \in [Calls -> Replies]
    /\ local \in [Calls -> Locals]
    /\ issued \in SUBSET Requests
    /\ mailed \in SUBSET Requests
    /\ redeemed \in SUBSET (Checks \X Requests)
    /\ wrong \in [Requests -> Nat]

\* The status of a code, as OneTimeCode has it.
status ==
    [c \in Requests |->
        IF row \in Challenge /\ row.code = c THEN "live"
        ELSE IF \E d \in Checks : <<d, c>> \in redeemed THEN "spent"
        ELSE IF c \in issued THEN "dead" ELSE "unissued"]

Promise == INSTANCE OneTimeCode WITH Codes <- Requests, Attempts <- Attempts,
                                     status <- status, wrong <- wrong

\* The service keeps the promise of a one-time code: any interleaving of
\* requests, verifications and confirmations looks from the table like issue,
\* miss, redeem and retire on one live code.
ImplementsOneTimeCode == Promise!Spec

\* A code buys one password change: of any number of concurrent confirmations
\* with the same right code, ValidateResetCodeAsync lets one through.
RedeemedOnce ==
    \A p, q \in redeemed : p[2] = q[2] => p = q

\* Nobody gets more guesses against one code than MaxAttempts, however many
\* verifications and confirmations read the counter at the same time.
GuessBudget == \A c \in Requests : wrong[c] <= Attempts

\* A live challenge is not replaced by another one within the cooldown, so
\* repeated and concurrent requests do not flood the mailbox.
CooldownRespected ==
    [][(row \in Challenge /\ row' \in Challenge /\ row'.code # row.code /\ row.expires > now)
         => now - row.sentAt >= Cooldown]_vars

\* A stored challenge whose code never left belongs to a request that is still
\* sending, was cut off, or could not discard it because a guess had already
\* been counted against it (the log says "Challenge was discarded." even so)
\* or the account was deleted.
UndeliveredExplained ==
    row \in Challenge /\ row.code \notin mailed =>
        \/ pc[row.code] \in {"requestSend", "requestUndo"}
        \/ reply[row.code] = "Aborted"
        \/ reply[row.code] = "SendFailed" /\ (row.failed > 0 \/ Gone)

\* What RequestResetAsync assumes when its TryReplace fails: "A concurrent
\* request installed the active challenge and owns delivery."  (Requests that
\* found an unreadable state are left aside.)
SupersededHasOwner ==
    [][\A c \in Requests :
          reply[c] # "Superseded" /\ reply'[c] = "Superseded" /\ local[c].seen # Corrupt =>
             \E owner \in issued \ {c} :
                 /\ row \in Challenge /\ row.code = owner
                 /\ local[c].seen \in Challenge => local[c].seen.code # owner]_vars
=============================================================================
