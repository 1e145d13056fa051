------------------------------ MODULE Sessions ------------------------------
(* The sessions of one account: the tokens that AuthController issues at     *)
(* login and refresh, TokenBlacklistMiddleware in front of every authorized  *)
(* endpoint, logout, and the writers of the account (password reset, profile *)
(* and role changes, moderation, deletion) that invalidate sessions by       *)
(* stamping Users.LastInvalidatedAt.                                         *)
(*                                                                           *)
(* An HTTP call and a writer take one step per awaited database call.  A     *)
(* token is named after the call that issued it.  Password checks are those  *)
(* of LoginLockout; here a login is one that has passed them.                *)
EXTENDS Naturals

CONSTANTS
    Calls,       \* HTTP calls that obtain or present a token
    Writers,     \* calls that change the account
    Kinds,       \* the changes they may make
    NoToken,
    Lifetime,    \* Jwt:Lifetime, in ticks
    ClockSkew,   \* TokenValidationParameters.ClockSkew, in ticks
    Suspension,  \* the length of a timed suspension, in ticks
    MaxTime      \* bound: ticks of the clock

AllKinds == {"reset", "edit", "reinstate", "deactivate", "suspend", "ban", "bulkBan", "bulkActivate",
             "delete"}

Token == [iat : Nat, exp : Nat]

\* The columns of dbo.Users that decide about sessions; SuspendedUntil and
\* LastInvalidatedAt are 0 for null.
Account == [status : {"active", "banned", "inactive"}, deleted : BOOLEAN, until : Nat, invalidated : Nat]

Ops == {"login", "use", "refresh", "logout"}

Labels == {"idle", "login", "blacklist", "session", "decide", "refresh", "issue", "logoutCheck",
           "logoutInsert", "stamp", "commit", "invalidate", "done"}

Replies == {"none", "Refused", "Unauthorized", "Accepted", "Issued", "RoleResolutionFailed",
            "LoggedOut", "Conflict", "Saved", "PersistenceFailed", "Aborted"}

ASSUME SessionConstants ==
    /\ Lifetime \in Nat \ {0}
    /\ ClockSkew \in Nat
    /\ Suspension \in Nat \ {0}
    /\ MaxTime \in Nat \ {0}
    /\ Kinds \subseteq AllKinds
    /\ Calls \cap Writers = {}
    /\ NoToken \notin Token

CallLocals == [op : Ops,
               token : Calls,        \* the token presented, by its issuer
               seen : Account,       \* the row read, until the clock is
               late : BOOLEAN,       \* history: it was logged out when the call came in
               revoked : BOOLEAN,    \* history: it was issued before an invalidation
               passed : Nat]         \* history: when the blacklist let it pass, or 0

WriterLocals == [kind : AllKinds, until : Nat, seen : Account, next : Account]

VARIABLES
    now,
    account,
    tok,         \* the tokens issued
    blacklist,   \* BlacklistedTokens: the tokens listed; ExpiresAt is their exp
    pc, reply,
    call,        \* the locals of the calls
    writer,      \* the locals of the writers
    revokedAt,   \* history: the latest LastInvalidatedAt ever committed
    vouched      \* history: the ends of suspension that the account, active
                 \* and not deleted, has had during each call under way

vars == <<now, account, tok, blacklist, pc, reply, call, writer, revokedAt, vouched>>
db == <<account, revokedAt>>
tokens == <<tok, blacklist>>

Fresh == [status |-> "active", deleted |-> FALSE, until |-> 0, invalidated |-> 0]

\* A writer's locals before it starts and after it answers.
Blank == [kind |-> "edit", until |-> 0, seen |-> Fresh, next |-> Fresh]

Init ==
    /\ now = 1
    /\ account = Fresh
    /\ tok = [c \in Calls |-> NoToken]
    /\ blacklist = {}
    /\ pc = [p \in Calls \cup Writers |-> "idle"]
    /\ reply = [p \in Calls \cup Writers |-> "none"]
    /\ call = [c \in Calls |-> [op |-> "login", token |-> c, seen |-> Fresh, late |-> FALSE,
                                revoked |-> FALSE, passed |-> 0]]
    /\ writer = [w \in Writers |-> Blank]
    /\ revokedAt = 0
    /\ vouched = [c \in Calls |-> {}]

-----------------------------------------------------------------------------

Unbarred(a) == ~a.deleted /\ a.status = "active"

\* Deleted, banned or suspended accounts have no sessions.
Eligible(a, t) == Unbarred(a) /\ a.until <= t

\* The history of a step: what every call under way has met of the account.
Vouch == vouched' = [c \in Calls |-> IF pc'[c] \in {"idle", "done"} THEN {}
                                     ELSE vouched[c] \cup {u \in {account.until} : Unbarred(account)}]

Goto(p, label) == pc' = [pc EXCEPT ![p] = label] /\ UNCHANGED reply /\ Vouch

Answer(p, a) == pc' = [pc EXCEPT ![p] = "done"] /\ reply' = [reply EXCEPT ![p] = a] /\ Vouch

\* A rejection that forgets timed suspensions.
ShouldRejectUnlessSuspended(a, iat, t) ==
    a.deleted \/ a.status # "active" \/ iat < a.invalidated

\* ShouldRejectUserSession.
ShouldReject(a, iat, t) == ~Eligible(a, t) \/ iat < a.invalidated

\* JWT validation: the lifetime with the tolerated skew.
Valid(t) == tok[t] # NoToken /\ now <= tok[t].exp + ClockSkew

\* Some logout of this token has answered.
LoggedOut(t) ==
    \E d \in Calls : call[d].op = "logout" /\ call[d].token = t
                        /\ reply[d] \in {"LoggedOut", "Conflict"}

-----------------------------------------------------------------------------
(* The calls.                                                                *)

\* A login reads the account first ...
LoginRead(c) ==
    /\ pc[c] = "idle"
    /\ call' = [call EXCEPT ![c].seen = account]
    /\ Goto(c, "login")
    /\ UNCHANGED <<now, db, tokens, writer>>

\* ... and holds that row against the clock after the lockout and the password
\* have been looked at; the token comes later.
LoginDecide(c) ==
    /\ pc[c] = "login"
    /\ IF Eligible(call[c].seen, now) THEN Goto(c, "issue") ELSE Answer(c, "Refused")
    /\ call' = [call EXCEPT ![c].seen = Fresh]
    /\ UNCHANGED <<now, db, tokens, writer>>

\* A call with a token that authentication accepts enters the middleware.
Present(c) ==
    /\ pc[c] = "idle"
    /\ \E op \in Ops \ {"login"}, t \in Calls :
         /\ Valid(t)
         /\ call' = [call EXCEPT ![c] = [op |-> op, token |-> t, seen |-> Fresh, late |-> LoggedOut(t),
                                         revoked |-> tok[t].iat < revokedAt, passed |-> 0]]
    /\ Goto(c, "blacklist")
    /\ UNCHANGED <<now, db, tokens, writer>>

\* IsBlacklistedAsync: a row counts only until its ExpiresAt.
CheckBlacklist(c) ==
    /\ pc[c] = "blacklist"
    /\ LET t == call[c].token
           listed == t \in blacklist /\ tok[t].exp > now
       IN \/ listed /\ Answer(c, "Unauthorized") /\ UNCHANGED call
          \/ ~listed /\ Goto(c, "session") /\ call' = [call EXCEPT ![c].passed = now]
    /\ UNCHANGED <<now, db, tokens, writer>>

\* IsUserSessionInvalidatedAsync reads the row ...
SessionRead(c) ==
    /\ pc[c] = "session"
    /\ call' = [call EXCEPT ![c].seen = account]
    /\ Goto(c, "decide")
    /\ UNCHANGED <<now, db, tokens, writer>>

\* ... and then the clock; the endpoint follows.
SessionDecide(c) ==
    /\ pc[c] = "decide"
    /\ LET rejected == ShouldReject(call[c].seen, tok[call[c].token].iat, now) IN
       \/ rejected /\ Answer(c, "Unauthorized")
       \/ ~rejected /\ call[c].op = "use" /\ Answer(c, "Accepted")
       \/ ~rejected /\ call[c].op = "refresh" /\ Goto(c, "refresh")
       \/ ~rejected /\ call[c].op = "logout" /\ Goto(c, "logoutCheck")
    /\ call' = [call EXCEPT ![c].seen = Fresh]
    /\ UNCHANGED <<now, db, tokens, writer>>

\* RefreshToken reads the user again, and asks for its status only.
RefreshRead(c) ==
    /\ pc[c] = "refresh"
    /\ IF account.deleted \/ account.status # "active"
       THEN Answer(c, "Refused") ELSE Goto(c, "issue")
    /\ UNCHANGED <<now, db, tokens, call, writer>>

\* The role is resolved and CreateAuthenticatedResponse signs a new token.
Issue(c) ==
    /\ pc[c] = "issue"
    /\ \/ /\ tok' = [tok EXCEPT ![c] = [iat |-> now, exp |-> now + Lifetime]]
          /\ Answer(c, "Issued")
       \/ UNCHANGED tok /\ Answer(c, "RoleResolutionFailed")
    /\ UNCHANGED <<now, db, blacklist, call, writer>>

\* AddToBlacklistAsync looks first ...
LogoutCheck(c) ==
    /\ pc[c] = "logoutCheck"
    /\ IF call[c].token \in blacklist THEN Answer(c, "LoggedOut") ELSE Goto(c, "logoutInsert")
    /\ UNCHANGED <<now, db, tokens, call, writer>>

\* ... and then inserts; the primary key refuses the second of two.
LogoutInsert(c) ==
    /\ pc[c] = "logoutInsert"
    /\ blacklist' = blacklist \cup {call[c].token}
    /\ Answer(c, IF call[c].token \in blacklist THEN "Conflict" ELSE "LoggedOut")
    /\ UNCHANGED <<now, db, tok, call, writer>>

\* A purge that is a tick early.
PurgeEarly ==
    /\ \E t \in blacklist : tok[t].exp <= now + 1 /\ blacklist' = blacklist \ {t}
    /\ UNCHANGED <<now, db, tok, pc, reply, call, writer, vouched>>

\* ExecuteCleanupAsync("BlacklistedTokens"), in batches.
Purge ==
    /\ \E t \in blacklist : tok[t].exp <= now /\ blacklist' = blacklist \ {t}
    /\ UNCHANGED <<now, db, tok, pc, reply, call, writer, vouched>>

-----------------------------------------------------------------------------
(* The writers.                                                              *)

\* A suspension with the sign of its length wrong.
SuspensionBefore(t) == t - Suspension

\* SuspendUser fixes the end of a timed suspension before the account is read.
SuspensionEnd(t) == t + Suspension

\* UpdateUserCoreAsync: the fields the command names, and the stamp if one of
\* them changed the security state.  A reset changes the password, an edit the
\* e-mail, the role or the second factor.
Updated(kind, a, t) ==
    LET b == CASE kind = "reinstate"  -> [a EXCEPT !.status = "active", !.until = 0]
               [] kind = "deactivate" -> [a EXCEPT !.status = "inactive"]
               [] OTHER               -> a
    IN IF b # a \/ kind \in {"reset", "edit"} THEN [b EXCEPT !.invalidated = t] ELSE b

\* SuspendUserAsync: a timed suspension leaves the status active, an open one
\* (until is null) is a ban.
Suspended(until, a, t) ==
    [a EXCEPT !.status = IF until = 0 THEN "banned" ELSE "active", !.until = until,
              !.invalidated = t]

\* BulkUpdateUserStatusAsync stamps only what becomes more restrictive.
BulkUpdated(status, a, t) ==
    [a EXCEPT !.status = status, !.until = 0,
              !.invalidated = IF status # "active" /\ a.status # status THEN t ELSE a.invalidated]

\* DeleteUserAsync, of which only ApplyDeletionState touches the account.
Deleted(a, t) == [a EXCEPT !.deleted = TRUE, !.invalidated = t]

\* What each change makes of the account it read, stamped at time t.
Changed(kind, until, a, t) ==
    CASE kind \in {"reset", "edit", "reinstate", "deactivate"} -> Updated(kind, a, t)
      [] kind \in {"suspend", "ban"}                          -> Suspended(until, a, t)
      [] kind = "bulkBan"                                     -> BulkUpdated("banned", a, t)
      [] kind = "bulkActivate"                                -> BulkUpdated("active", a, t)
      [] kind = "delete"                                      -> Deleted(a, t)

\* SaveChanges writes the columns that differ from what was read.
Written(new, old, cur) == IF new # old THEN new ELSE cur

Merged(cur, seen, next) ==
    [status |-> Written(next.status, seen.status, cur.status),
     deleted |-> Written(next.deleted, seen.deleted, cur.deleted),
     until |-> Written(next.until, seen.until, cur.until),
     invalidated |-> Written(next.invalidated, seen.invalidated, cur.invalidated)]

\* The history of a step that leaves this LastInvalidatedAt.
Revoke(a) == revokedAt' = IF a.invalidated > revokedAt THEN a.invalidated ELSE revokedAt

\* The query filter hides a deleted account.
WriterRead(w) ==
    /\ pc[w] = "idle"
    /\ \/ account.deleted /\ Answer(w, "Refused") /\ UNCHANGED writer
       \/ /\ ~account.deleted
          /\ \E kind \in Kinds :
               writer' = [writer EXCEPT ![w].kind = kind, ![w].seen = account,
                                        ![w].until = IF kind = "suspend" THEN SuspensionEnd(now) ELSE 0]
          /\ Goto(w, "stamp")
    /\ UNCHANGED <<now, db, tokens, call>>

\* The change is applied to the entity, with the time of this server's clock.
WriterStamp(w) ==
    /\ pc[w] = "stamp"
    /\ writer' = [writer EXCEPT ![w].next = Changed(writer[w].kind, writer[w].until,
                                                        writer[w].seen, now)]
    /\ Goto(w, "commit")
    /\ UNCHANGED <<now, db, tokens, call>>

\* SaveChangesAsync, which may fail.  A password reset goes on.
WriterCommit(w) ==
    /\ pc[w] = "commit"
    /\ \/ /\ account' = Merged(account, writer[w].seen, writer[w].next)
          /\ Revoke(account')
          /\ IF writer[w].kind = "reset" THEN Goto(w, "invalidate") ELSE Answer(w, "Saved")
       \/ UNCHANGED db /\ Answer(w, "PersistenceFailed")
    /\ writer' = [writer EXCEPT ![w] = Blank]
    /\ UNCHANGED <<now, tokens, call>>

\* InvalidateAllUserSessionsAsync: one UPDATE with the database's clock.
WriterInvalidate(w) ==
    /\ pc[w] = "invalidate"
    /\ account' = IF account.deleted THEN account ELSE [account EXCEPT !.invalidated = now]
    /\ Revoke(account')
    /\ Answer(w, "Saved")
    /\ UNCHANGED <<now, tokens, call, writer>>

\* The cancellation token ends the handler at an await; nothing is undone.
Abort(p) ==
    /\ pc[p] \notin {"idle", "done"}
    /\ Answer(p, "Aborted")
    /\ writer' = [w \in Writers |-> IF w = p THEN Blank ELSE writer[w]]
    /\ call' = [c \in Calls |-> IF c = p THEN [call[c] EXCEPT !.seen = Fresh] ELSE call[c]]
    /\ UNCHANGED <<now, db, tokens>>

Tick ==
    /\ now < MaxTime
    /\ now' = now + 1
    /\ UNCHANGED <<db, tokens, pc, reply, call, writer, vouched>>

Next ==
    \/ \E c \in Calls :
         \/ LoginRead(c) \/ LoginDecide(c)
         \/ Present(c) \/ CheckBlacklist(c) \/ SessionRead(c) \/ SessionDecide(c)
         \/ RefreshRead(c) \/ Issue(c) \/ LogoutCheck(c) \/ LogoutInsert(c) \/ Abort(c)
    \/ \E w \in Writers :
         WriterRead(w) \/ WriterStamp(w) \/ WriterCommit(w) \/ WriterInvalidate(w) \/ Abort(w)
    \/ Purge \/ Tick

Spec == Init /\ [][Next]_vars

-----------------------------------------------------------------------------
(* Properties.                                                               *)

TypeOK ==
    /\ now \in 1 .. MaxTime
    /\ account \in Account
    /\ tok \in [Calls -> Token \cup {NoToken}]
    /\ blacklist \in SUBSET Calls
    /\ pc \in [Calls \cup Writers -> Labels]
    /\ reply \in [Calls \cup Writers -> Replies]
    /\ call \in [Calls -> CallLocals]
    /\ writer \in [Writers -> WriterLocals]
    /\ revokedAt \in Nat
    /\ vouched \in [Calls -> SUBSET Nat]

\* A call that comes in with a logged-out token gets past the blacklist only
\* once the token's lifetime is over: not between the look and the insert of
\* another logout, not because two logouts collided, not because the purge
\* came first.
LoggedOutUntilExpiry ==
    \A c \in Calls :
        call[c].late /\ call[c].passed # 0 => call[c].passed >= tok[call[c].token].exp

\* An endpoint answers, and a token is issued, only for a call during which
\* the account was at some moment active and not deleted, with no suspension
\* or one that has ended by the time of the answer; in particular for a
\* refresh, which does not ask about suspensions itself.  The row and the clock
\* are read at two moments, so it need not have been so at one instant.
OnlyInGoodStanding ==
    [][\A c \in Calls : reply[c] = "none" /\ reply'[c] \in {"Accepted", "Issued"}
                           => \E u \in vouched[c] : u <= now]_vars

\* What ITokenBlacklistService promises: "logged-out users cannot reuse their
\* token".
LoggedOutStaysOut ==
    \A c \in Calls : call[c].late => reply[c] \notin {"Accepted", "Issued"}

\* What ITokenBlacklistService.IsUserSessionInvalidatedAsync promises: "Check
\* if a user session was invalidated after the token was issued."
InvalidatedStaysInvalid ==
    \A c \in Calls : call[c].revoked => reply[c] \notin {"Accepted", "Issued"}
=============================================================================
