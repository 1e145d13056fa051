--------------------------- MODULE SessionsProofs ---------------------------
(* What the run of Sessions checks on three calls and one writer, proved for *)
(* any number of calls and writers, any token lifetime and any clock skew.   *)
EXTENDS Sessions, TLAPS

-----------------------------------------------------------------------------
(* Types.                                                                    *)

\* A change of a well-formed account is a well-formed account.
LEMMA ChangedType ==
    ASSUME NEW kind \in AllKinds, NEW until \in Nat, NEW a \in Account, NEW t \in Nat
    PROVE  Changed(kind, until, a, t) \in Account
<1> USE DEF Account
<1>1. CASE kind \in {"reset", "edit", "reinstate", "deactivate"}
  <2>1. \A b \in Account : [b EXCEPT !.invalidated = t] \in Account OBVIOUS
  <2>2. [a EXCEPT !.status = "active", !.until = 0] \in Account
        /\ [a EXCEPT !.status = "inactive"] \in Account
    OBVIOUS
  <2> QED BY <1>1, <2>1, <2>2 DEF Changed, Updated
<1>2. CASE kind \in {"suspend", "ban"} BY <1>2 DEF Changed, Suspended
<1>3. ASSUME NEW status \in {"active", "banned"} PROVE BulkUpdated(status, a, t) \in Account
  <2>1. (IF status # "active" /\ a.status # status THEN t ELSE a.invalidated) \in Nat OBVIOUS
  <2> QED BY <2>1 DEF BulkUpdated
<1>4. CASE kind \in {"bulkBan", "bulkActivate"} BY <1>3, <1>4 DEF Changed
<1>5. CASE kind = "delete" BY <1>5 DEF Changed, Deleted
<1> QED BY <1>1, <1>2, <1>4, <1>5 DEF AllKinds

LEMMA MergedType ==
    ASSUME NEW cur \in Account, NEW seen \in Account, NEW next \in Account
    PROVE  Merged(cur, seen, next) \in Account
BY DEF Merged, Written, Account

LEMMA BlankType == Blank \in WriterLocals /\ Fresh \in Account
BY DEF Blank, Fresh, WriterLocals, Account, AllKinds

\* The processes' part of the type invariant, after one of them has moved.
LEMMA GotoType ==
    ASSUME TypeOK, NEW p \in Calls \cup Writers, NEW label \in Labels, Goto(p, label)
    PROVE  /\ pc' \in [Calls \cup Writers -> Labels]
           /\ reply' \in [Calls \cup Writers -> Replies]
           /\ vouched' \in [Calls -> SUBSET Nat]
BY DEF TypeOK, Goto, Vouch, Account

LEMMA AnswerType ==
    ASSUME TypeOK, NEW p \in Calls \cup Writers, NEW a \in Replies, Answer(p, a)
    PROVE  /\ pc' \in [Calls \cup Writers -> Labels]
           /\ reply' \in [Calls \cup Writers -> Replies]
           /\ vouched' \in [Calls -> SUBSET Nat]
BY DEF TypeOK, Answer, Vouch, Labels, Account

LEMMA TypePreserved == ASSUME TypeOK, [Next]_vars PROVE TypeOK'
<1> USE SessionConstants DEF db, tokens
<1> DEFINE Procs == pc' \in [Calls \cup Writers -> Labels]
                    /\ reply' \in [Calls \cup Writers -> Replies]
                    /\ vouched' \in [Calls -> SUBSET Nat]
<1>0. /\ \A c \in Calls, a \in Account : [call[c] EXCEPT !.seen = a] \in CallLocals
      /\ account \in Account /\ Fresh \in Account
  BY BlankType DEF TypeOK, CallLocals
<1>1. ASSUME NEW c \in Calls, LoginRead(c) \/ LoginDecide(c) PROVE TypeOK'
  <2>1. Procs BY <1>1, GotoType, AnswerType DEF LoginRead, LoginDecide, Labels, Replies
  <2>2. call' = [call EXCEPT ![c] = [call[c] EXCEPT !.seen = account]]
        \/ call' = [call EXCEPT ![c] = [call[c] EXCEPT !.seen = Fresh]]
    BY <1>1 DEF LoginRead, LoginDecide, TypeOK
  <2>3. [call[c] EXCEPT !.seen = account] \in CallLocals
        /\ [call[c] EXCEPT !.seen = Fresh] \in CallLocals
    BY <1>0
  <2>4. call' \in [Calls -> CallLocals] BY <2>2, <2>3 DEF TypeOK
  <2> QED BY <1>1, <2>1, <2>4 DEF TypeOK, LoginRead, LoginDecide
<1>2. ASSUME NEW c \in Calls, Present(c) PROVE TypeOK'
  <2>1. Procs BY <1>2, GotoType DEF Present, Labels
  <2>2. call' \in [Calls -> CallLocals]
    <3>1. PICK op \in Ops \ {"login"}, t \in Calls :
            call' = [call EXCEPT ![c] = [op |-> op, token |-> t, seen |-> Fresh, late |-> LoggedOut(t),
                                         revoked |-> tok[t].iat < revokedAt, passed |-> 0]]
      BY <1>2 DEF Present
    <3>2. LoggedOut(t) \in BOOLEAN BY DEF LoggedOut
    <3>3. (tok[t].iat < revokedAt) \in BOOLEAN OBVIOUS
    <3> QED BY <1>0, <3>1, <3>2, <3>3 DEF TypeOK, CallLocals
  <2> QED BY <1>2, <2>1, <2>2 DEF TypeOK, Present
<1>3. ASSUME NEW c \in Calls, CheckBlacklist(c) PROVE TypeOK'
  <2>1. Procs BY <1>3, GotoType, AnswerType DEF CheckBlacklist, Labels, Replies
  <2>2. call' \in [Calls -> CallLocals]
    <3>1. call[c] \in CallLocals /\ now \in Nat BY DEF TypeOK
    <3>2. [call[c] EXCEPT !.passed = now] \in CallLocals BY <3>1 DEF CallLocals
    <3> QED BY <1>3, <3>2 DEF TypeOK, CheckBlacklist
  <2> QED BY <1>3, <2>1, <2>2 DEF TypeOK, CheckBlacklist
<1>4. ASSUME NEW c \in Calls, SessionRead(c) \/ SessionDecide(c) PROVE TypeOK'
  <2>1. Procs BY <1>4, GotoType, AnswerType DEF SessionRead, SessionDecide, Labels, Replies
  <2>2. call' = [call EXCEPT ![c] = [call[c] EXCEPT !.seen = account]]
        \/ call' = [call EXCEPT ![c] = [call[c] EXCEPT !.seen = Fresh]]
    BY <1>4 DEF SessionRead, SessionDecide, TypeOK
  <2>3. [call[c] EXCEPT !.seen = account] \in CallLocals
        /\ [call[c] EXCEPT !.seen = Fresh] \in CallLocals
    BY <1>0
  <2>4. call' \in [Calls -> CallLocals] BY <2>2, <2>3 DEF TypeOK
  <2> QED BY <1>4, <2>1, <2>4 DEF TypeOK, SessionRead, SessionDecide
<1>5. ASSUME NEW c \in Calls, RefreshRead(c) PROVE TypeOK'
  <2>1. Procs BY <1>5, GotoType, AnswerType DEF RefreshRead, Labels, Replies
  <2> QED BY <1>5, <2>1 DEF TypeOK, RefreshRead
<1>6. ASSUME NEW c \in Calls, Issue(c) PROVE TypeOK'
  <2>1. Procs BY <1>6, AnswerType DEF Issue, Replies
  <2>2. [iat |-> now, exp |-> now + Lifetime] \in Token BY DEF TypeOK, Token
  <2>3. tok' \in [Calls -> Token \cup {NoToken}] BY <1>6, <2>2 DEF TypeOK, Issue
  <2> QED BY <1>6, <2>1, <2>3 DEF TypeOK, Issue
<1>7. ASSUME NEW c \in Calls, LogoutCheck(c) PROVE TypeOK'
  <2>1. Procs BY <1>7, GotoType, AnswerType DEF LogoutCheck, Labels, Replies
  <2> QED BY <1>7, <2>1 DEF TypeOK, LogoutCheck
<1>8. ASSUME NEW c \in Calls, LogoutInsert(c) PROVE TypeOK'
  <2>1. Procs BY <1>8, AnswerType DEF LogoutInsert, Replies
  <2>2. call[c].token \in Calls BY DEF TypeOK, CallLocals
  <2> QED BY <1>8, <2>1, <2>2 DEF TypeOK, LogoutInsert
<1>9. ASSUME NEW w \in Writers, WriterRead(w) PROVE TypeOK'
  <2>1. Procs BY <1>9, GotoType, AnswerType DEF WriterRead, Labels, Replies
  <2>2. writer' \in [Writers -> WriterLocals]
    <3>1. CASE UNCHANGED writer BY <3>1 DEF TypeOK
    <3>2. ASSUME NEW kind \in Kinds,
                 writer' = [writer EXCEPT ![w].kind = kind, ![w].seen = account,
                              ![w].until = IF kind = "suspend" THEN SuspensionEnd(now) ELSE 0]
          PROVE  writer' \in [Writers -> WriterLocals]
      <4> DEFINE u == IF kind = "suspend" THEN SuspensionEnd(now) ELSE 0
      <4>1. writer[w] \in WriterLocals /\ account \in Account /\ kind \in AllKinds
        BY DEF TypeOK
      <4>2. u \in Nat BY DEF SuspensionEnd, TypeOK
      <4> HIDE DEF u
      <4>3. [writer[w] EXCEPT !.kind = kind, !.seen = account, !.until = u] \in WriterLocals
        BY <4>1, <4>2 DEF WriterLocals
      <4>4. writer' = [writer EXCEPT ![w] = [writer[w] EXCEPT !.kind = kind, !.seen = account,
                                                              !.until = u]]
        BY <3>2 DEF TypeOK, u
      <4> QED BY <4>3, <4>4 DEF TypeOK
    <3> QED BY <1>9, <3>1, <3>2 DEF WriterRead
  <2> QED BY <1>9, <2>1, <2>2 DEF TypeOK, WriterRead
<1>10. ASSUME NEW w \in Writers, WriterStamp(w) PROVE TypeOK'
  <2>1. Procs BY <1>10, GotoType DEF WriterStamp, Labels
  <2> DEFINE n == Changed(writer[w].kind, writer[w].until, writer[w].seen, now)
  <2>2. writer[w] \in WriterLocals /\ now \in Nat BY DEF TypeOK
  <2>3. n \in Account BY <2>2, ChangedType DEF WriterLocals
  <2>4. writer' = [writer EXCEPT ![w] = [writer[w] EXCEPT !.next = n]]
    BY <1>10 DEF WriterStamp, TypeOK
  <2> HIDE DEF n
  <2>5. [writer[w] EXCEPT !.next = n] \in WriterLocals BY <2>2, <2>3 DEF WriterLocals
  <2>6. writer' \in [Writers -> WriterLocals] BY <2>4, <2>5 DEF TypeOK
  <2> QED BY <1>10, <2>1, <2>6 DEF TypeOK, WriterStamp
<1>11. ASSUME NEW w \in Writers, WriterCommit(w) PROVE TypeOK'
  <2>1. Procs BY <1>11, GotoType, AnswerType DEF WriterCommit, Labels, Replies
  <2>2. account' \in Account
    BY <1>11, MergedType DEF WriterCommit, TypeOK, WriterLocals
  <2>3. revokedAt' \in Nat
    BY <1>11, <2>2 DEF WriterCommit, Revoke, TypeOK, Account
  <2>4. writer' \in [Writers -> WriterLocals]
    BY <1>11, BlankType DEF WriterCommit, TypeOK
  <2> QED BY <1>11, <2>1, <2>2, <2>3, <2>4 DEF TypeOK, WriterCommit
<1>12. ASSUME NEW w \in Writers, WriterInvalidate(w) PROVE TypeOK'
  <2>1. Procs BY <1>12, AnswerType DEF WriterInvalidate, Replies
  <2>2. account' \in Account BY <1>12 DEF WriterInvalidate, TypeOK, Account
  <2>3. revokedAt' \in Nat
    BY <1>12, <2>2 DEF WriterInvalidate, Revoke, TypeOK, Account
  <2> QED BY <1>12, <2>1, <2>2, <2>3 DEF TypeOK, WriterInvalidate
<1>13. ASSUME NEW p \in Calls \cup Writers, Abort(p) PROVE TypeOK'
  <2>1. Procs BY <1>13, AnswerType DEF Abort, Replies
  <2>2. writer' \in [Writers -> WriterLocals] BY <1>13, BlankType DEF Abort, TypeOK
  <2>3. call' \in [Calls -> CallLocals]
    <3>1. \A c \in Calls : [call[c] EXCEPT !.seen = Fresh] \in CallLocals
      BY <1>0 DEF TypeOK, CallLocals
    <3> QED BY <1>13, <3>1 DEF Abort, TypeOK
  <2> QED BY <1>13, <2>1, <2>2, <2>3 DEF TypeOK, Abort
<1>14. CASE Purge \/ Tick \/ UNCHANGED vars
  BY <1>14 DEF TypeOK, Purge, Tick, vars
<1> QED
  BY <1>1, <1>2, <1>3, <1>4, <1>5, <1>6, <1>7, <1>8, <1>9, <1>10, <1>11, <1>12, <1>13, <1>14
     DEF Next

LEMMA TypeInit == Init => TypeOK
<1> SUFFICES ASSUME Init PROVE TypeOK OBVIOUS
<1>1. \A c \in Calls : [op |-> "login", token |-> c, seen |-> Fresh, late |-> FALSE,
                        revoked |-> FALSE, passed |-> 0] \in CallLocals
  BY BlankType DEF CallLocals, Ops
<1>2. "idle" \in Labels /\ "none" \in Replies BY DEF Labels, Replies
<1> QED BY <1>1, <1>2, BlankType, SessionConstants DEF Init, TypeOK

\* The variables keep their types, whatever the calls and the writers do.
THEOREM TypeCorrect == Spec => []TypeOK
BY TypeInit, TypePreserved, PTL DEF Spec

-----------------------------------------------------------------------------
(* The inductive invariant.  A logout is remembered by the row it left or by *)
(* the token's own expiry, and by nothing else; so the invariant follows a   *)
(* token from its issue, which never changes it again, through the logouts   *)
(* that answered to the calls that came in after them.                       *)

Answered == \A p \in Calls \cup Writers : reply[p] # "none" => pc[p] = "done"

IssuedLast == \A c \in Calls : tok[c] # NoToken => pc[c] = "done"

Inside == {"blacklist", "session", "decide", "refresh", "logoutCheck", "logoutInsert"}

PresentedExists == \A c \in Calls : pc[c] \in Inside => tok[call[c].token] # NoToken

ListedExists == \A t \in blacklist : tok[t] # NoToken

LogoutRemembered ==
    \A t \in Calls : LoggedOut(t) =>
        tok[t] # NoToken /\ (t \in blacklist \/ tok[t].exp <= now)

LateIsLoggedOut == \A c \in Calls : call[c].late => LoggedOut(call[c].token)

Cleared == {"issue", "refresh", "logoutCheck", "logoutInsert"}

\* The row that a call holds is one it has met, and past the checks one of
\* those rows is in order.
SeenVouched ==
    \A c \in Calls : pc[c] \in {"login", "decide"} /\ Unbarred(call[c].seen)
                        => call[c].seen.until \in vouched[c]

ClearedVouched == \A c \in Calls : pc[c] \in Cleared => \E u \in vouched[c] : u <= now

Inv == /\ TypeOK /\ Answered /\ IssuedLast /\ PresentedExists /\ ListedExists
       /\ LogoutRemembered /\ LateIsLoggedOut /\ LoggedOutUntilExpiry
       /\ SeenVouched /\ ClearedVouched

\* A step moves at most one process, and none that has answered.
Moved(p) ==
    /\ pc[p] # "done"
    /\ \/ \E label \in Labels \ {"idle", "done"} : Goto(p, label)
       \/ \E a \in Replies : Answer(p, a)
    /\ \A q \in Calls : q # p => call'[q] = call[q]

LEMMA OneMoves ==
    ASSUME TypeOK, [Next]_vars
    PROVE  UNCHANGED <<pc, reply, call, vouched>> \/ \E p \in Calls \cup Writers : Moved(p)
<1> USE DEF Moved, Labels, Replies
<1>1. ASSUME NEW c \in Calls, LoginRead(c) \/ LoginDecide(c) PROVE Moved(c)
  BY <1>1 DEF LoginRead, LoginDecide, TypeOK
<1>2. ASSUME NEW c \in Calls, Present(c) PROVE Moved(c) BY <1>2 DEF Present, TypeOK
<1>3. ASSUME NEW c \in Calls, CheckBlacklist(c) PROVE Moved(c)
  BY <1>3 DEF CheckBlacklist, TypeOK
<1>4. ASSUME NEW c \in Calls, SessionRead(c) \/ SessionDecide(c) PROVE Moved(c)
  BY <1>4 DEF SessionRead, SessionDecide, TypeOK
<1>5. ASSUME NEW c \in Calls, RefreshRead(c) PROVE Moved(c) BY <1>5 DEF RefreshRead
<1>6. ASSUME NEW c \in Calls, Issue(c) PROVE Moved(c) BY <1>6 DEF Issue
<1>7. ASSUME NEW c \in Calls, LogoutCheck(c) PROVE Moved(c) BY <1>7 DEF LogoutCheck
<1>8. ASSUME NEW c \in Calls, LogoutInsert(c) PROVE Moved(c) BY <1>8 DEF LogoutInsert
<1>9. ASSUME NEW w \in Writers, WriterRead(w) PROVE Moved(w) BY <1>9 DEF WriterRead
<1>10. ASSUME NEW w \in Writers, WriterStamp(w) PROVE Moved(w) BY <1>10 DEF WriterStamp
<1>11. ASSUME NEW w \in Writers, WriterCommit(w) PROVE Moved(w) BY <1>11 DEF WriterCommit
<1>12. ASSUME NEW w \in Writers, WriterInvalidate(w) PROVE Moved(w)
  BY <1>12 DEF WriterInvalidate
<1>13. ASSUME NEW p \in Calls \cup Writers, Abort(p) PROVE Moved(p)
  BY <1>13 DEF Abort, TypeOK
<1>14. CASE Purge \/ Tick \/ UNCHANGED vars
  BY <1>14 DEF Purge, Tick, vars
<1> QED
  BY <1>1, <1>2, <1>3, <1>4, <1>5, <1>6, <1>7, <1>8, <1>9, <1>10, <1>11, <1>12, <1>13, <1>14
     DEF Next

LEMMA AnsweredPreserved == ASSUME TypeOK, Answered, [Next]_vars PROVE Answered'
<1>1. CASE UNCHANGED <<pc, reply, call, vouched>> BY <1>1 DEF Answered
<1>2. ASSUME NEW p \in Calls \cup Writers, Moved(p) PROVE Answered'
  BY <1>2 DEF Moved, Goto, Answer, Answered, TypeOK
<1> QED BY <1>1, <1>2, OneMoves

\* A process that has answered is left alone.
LEMMA DoneStays ==
    ASSUME TypeOK, [Next]_vars, NEW q \in Calls \cup Writers, pc[q] = "done"
    PROVE  pc'[q] = "done" /\ reply'[q] = reply[q] /\ (q \in Calls => call'[q] = call[q])
<1>1. ASSUME NEW p \in Calls \cup Writers, Moved(p)
      PROVE  pc'[q] = "done" /\ reply'[q] = reply[q] /\ (q \in Calls => call'[q] = call[q])
  BY <1>1 DEF Moved, Goto, Answer, TypeOK
<1> QED BY <1>1, OneMoves

\* Only Issue touches the tokens, and only the one of the call that answers.
LEMMA TokenStep ==
    ASSUME TypeOK, [Next]_vars
    PROVE  UNCHANGED tok \/ \E c \in Calls : Issue(c)
BY DEF Next, vars, LoginRead, LoginDecide, Present, CheckBlacklist, SessionRead, SessionDecide, RefreshRead, LogoutCheck,
       LogoutInsert, WriterRead, WriterStamp, WriterCommit, WriterInvalidate, Abort, Purge, Tick,
       tokens

LEMMA TokenStays ==
    ASSUME TypeOK, IssuedLast, [Next]_vars, NEW t \in Calls, tok[t] # NoToken
    PROVE  tok'[t] = tok[t]
<1>1. ASSUME NEW c \in Calls, Issue(c) PROVE tok'[t] = tok[t]
  BY <1>1 DEF Issue, IssuedLast, TypeOK
<1> QED BY <1>1, TokenStep

LEMMA IssuedLastPreserved == ASSUME TypeOK, IssuedLast, [Next]_vars PROVE IssuedLast'
<1> SUFFICES ASSUME NEW c \in Calls, tok'[c] # NoToken PROVE pc'[c] = "done"
  BY DEF IssuedLast
<1>1. CASE tok[c] # NoToken
  BY <1>1, DoneStays DEF IssuedLast
<1>2. CASE tok[c] = NoToken
  <2>1. PICK d \in Calls : Issue(d) BY <1>2, TokenStep
  <2> QED BY <1>2, <2>1 DEF Issue, Answer, TypeOK
<1> QED BY <1>1, <1>2

\* A logout that has answered stays answered.
LEMMA LoggedOutStays ==
    ASSUME TypeOK, Answered, [Next]_vars, NEW t \in Calls, LoggedOut(t)
    PROVE  LoggedOut(t)'
<1>1. PICK d \in Calls : call[d].op = "logout" /\ call[d].token = t
                           /\ reply[d] \in {"LoggedOut", "Conflict"}
  BY DEF LoggedOut
<1>2. pc[d] = "done" BY <1>1 DEF Answered
<1>3. reply'[d] = reply[d] /\ call'[d] = call[d] BY <1>2, DoneStays
<1> QED BY <1>1, <1>3 DEF LoggedOut

\* The blacklist shrinks by the purge only.
LEMMA BlacklistStep ==
    ASSUME TypeOK, [Next]_vars
    PROVE  blacklist \subseteq blacklist' \/ Purge
BY DEF Next, vars, LoginRead, LoginDecide, Present, CheckBlacklist, SessionRead, SessionDecide, RefreshRead, Issue, LogoutCheck,
       LogoutInsert, WriterRead, WriterStamp, WriterCommit, WriterInvalidate, Abort, Tick, tokens

\* What happens to a call is a step of its own.
Own(c) ==
    \/ LoginRead(c) \/ LoginDecide(c) \/ Present(c) \/ CheckBlacklist(c) \/ SessionRead(c)
    \/ SessionDecide(c) \/ RefreshRead(c)
    \/ Issue(c) \/ LogoutCheck(c) \/ LogoutInsert(c) \/ Abort(c)

LEMMA OwnStep ==
    ASSUME TypeOK, [Next]_vars, NEW c \in Calls
    PROVE  Own(c) \/ (pc'[c] = pc[c] /\ reply'[c] = reply[c] /\ call'[c] = call[c])
<1> DEFINE Same == pc'[c] = pc[c] /\ reply'[c] = reply[c] /\ call'[c] = call[c]
<1>1. ASSUME NEW d \in Calls, d # c, Own(d) PROVE Same
  BY <1>1 DEF Own, LoginRead, LoginDecide, Present, CheckBlacklist, SessionRead, SessionDecide, RefreshRead, Issue,
              LogoutCheck, LogoutInsert, Abort, Goto, Answer, TypeOK
<1>2. ASSUME NEW w \in Writers, w # c,
             WriterRead(w) \/ WriterStamp(w) \/ WriterCommit(w) \/ WriterInvalidate(w) \/ Abort(w)
      PROVE  Same
  BY <1>2 DEF WriterRead, WriterStamp, WriterCommit, WriterInvalidate, Abort, Goto, Answer,
              TypeOK
<1>3. CASE Purge \/ Tick \/ UNCHANGED vars
  BY <1>3 DEF Purge, Tick, vars
<1>4. \A w \in Writers : w # c BY SessionConstants
<1> QED BY <1>1, <1>2, <1>3, <1>4 DEF Next, Own

LEMMA ClockStep == ASSUME TypeOK, [Next]_vars PROVE now \in Nat /\ now' \in Nat /\ now <= now'
<1>1. now' = now \/ Tick
  BY DEF Next, vars, LoginRead, LoginDecide, Present, CheckBlacklist, SessionRead, SessionDecide,
         RefreshRead, Issue, LogoutCheck, LogoutInsert, WriterRead, WriterStamp, WriterCommit,
         WriterInvalidate, Abort, Purge
<1>2. now \in Nat BY DEF TypeOK
<1> QED BY <1>1, <1>2 DEF Tick

\* What a call under way has met of the account it does not forget.
LEMMA VouchedGrows ==
    ASSUME TypeOK, [Next]_vars, NEW c \in Calls, pc'[c] \notin {"idle", "done"}
    PROVE  vouched[c] \subseteq vouched'[c]
<1>1. ASSUME NEW p \in Calls \cup Writers, Moved(p) PROVE vouched[c] \subseteq vouched'[c]
  BY <1>1 DEF Moved, Goto, Answer, Vouch
<1> QED BY <1>1, OneMoves

\* A logout answers with the token on the list.
LEMMA NewLogout ==
    ASSUME TypeOK, Answered, [Next]_vars, NEW t \in Calls, LoggedOut(t)', ~LoggedOut(t)
    PROVE  \E d \in Calls : /\ call[d].token = t /\ pc[d] \in Inside
                            /\ t \in blacklist' /\ UNCHANGED <<tok, now>>
<1>1. PICK d \in Calls : call'[d].op = "logout" /\ call'[d].token = t
                           /\ reply'[d] \in {"LoggedOut", "Conflict"}
  BY DEF LoggedOut
<1>2. reply[d] \notin {"LoggedOut", "Conflict"} \/ call'[d] # call[d]
  BY <1>1 DEF LoggedOut
<1>3. pc[d] # "done" BY <1>1, <1>2, DoneStays
<1>4. reply[d] = "none" BY <1>3 DEF Answered
<1>5. Own(d) BY <1>1, <1>4, OwnStep
<1>6. CASE LogoutCheck(d)
  BY <1>1, <1>4, <1>6 DEF LogoutCheck, Goto, Inside, tokens
<1>7. CASE LogoutInsert(d)
  BY <1>1, <1>7 DEF LogoutInsert, Inside
<1>8. CASE ~LogoutCheck(d) /\ ~LogoutInsert(d)
  BY <1>1, <1>4, <1>5, <1>8 DEF Own, LoginRead, LoginDecide, Present, CheckBlacklist, SessionRead, SessionDecide, RefreshRead,
     Issue, Abort, Goto, Answer, TypeOK
<1> QED BY <1>6, <1>7, <1>8

LEMMA PresentedPreserved ==
    ASSUME TypeOK, IssuedLast, PresentedExists, [Next]_vars PROVE PresentedExists'
<1> SUFFICES ASSUME NEW c \in Calls, pc'[c] \in Inside PROVE tok'[call'[c].token] # NoToken
  BY DEF PresentedExists
<1>0. call[c].token \in Calls /\ call[c] \in CallLocals BY DEF TypeOK, CallLocals
<1>1. CASE Present(c)
  <2>1. PICK t \in Calls : Valid(t) /\ call'[c].token = t
    BY <1>1 DEF Present, TypeOK
  <2> QED BY <1>1, <2>1 DEF Present, Valid, tokens
<1>2. CASE ~Present(c)
  <2>1. pc[c] \in Inside /\ call'[c].token = call[c].token
    <3>1. CASE Own(c)
      BY <1>0, <1>2, <3>1 DEF Own, LoginRead, LoginDecide, CheckBlacklist, SessionRead, SessionDecide, RefreshRead, Issue,
         LogoutCheck, LogoutInsert, Abort, Goto, Answer, Inside, TypeOK, CallLocals
    <3> QED BY <3>1, OwnStep
  <2>2. tok[call[c].token] # NoToken BY <2>1 DEF PresentedExists
  <2> QED BY <1>0, <2>1, <2>2, TokenStays
<1> QED BY <1>1, <1>2

LEMMA ListedPreserved ==
    ASSUME TypeOK, IssuedLast, PresentedExists, ListedExists, [Next]_vars PROVE ListedExists'
<1> SUFFICES ASSUME NEW t \in blacklist' PROVE tok'[t] # NoToken
  BY DEF ListedExists
<1>1. blacklist' \subseteq blacklist \/ \E c \in Calls : LogoutInsert(c)
  BY DEF Next, vars, LoginRead, LoginDecide, Present, CheckBlacklist, SessionRead, SessionDecide, RefreshRead, Issue,
         LogoutCheck, WriterRead, WriterStamp, WriterCommit, WriterInvalidate, Abort, Purge, Tick,
         tokens
<1>2. t \in Calls /\ tok[t] # NoToken
  <2>1. CASE t \in blacklist BY <2>1 DEF ListedExists, TypeOK
  <2>2. CASE t \notin blacklist
    <3>1. PICK c \in Calls : LogoutInsert(c) BY <1>1, <2>2
    <3>2. t = call[c].token BY <2>2, <3>1 DEF LogoutInsert
    <3> QED BY <3>1, <3>2 DEF LogoutInsert, PresentedExists, Inside, TypeOK, CallLocals
  <2> QED BY <2>1, <2>2
<1> QED BY <1>2, TokenStays

LEMMA RememberedPreserved ==
    ASSUME TypeOK, Answered, IssuedLast, PresentedExists, LogoutRemembered, [Next]_vars
    PROVE  LogoutRemembered'
<1> SUFFICES ASSUME NEW t \in Calls, LoggedOut(t)'
             PROVE  tok'[t] # NoToken /\ (t \in blacklist' \/ tok'[t].exp <= now')
  BY DEF LogoutRemembered
<1>1. CASE LoggedOut(t)
  <2>1. tok[t] # NoToken /\ (t \in blacklist \/ tok[t].exp <= now) /\ tok'[t] = tok[t]
    BY <1>1, TokenStays DEF LogoutRemembered
  <2>2. now \in Nat /\ now' \in Nat /\ now <= now' BY ClockStep
  <2>3. tok[t].exp \in Nat BY <2>1 DEF TypeOK, Token
  <2>4. CASE Purge
    BY <2>1, <2>4 DEF Purge
  <2>5. CASE blacklist \subseteq blacklist'
    BY <2>1, <2>2, <2>3, <2>5
  <2> QED BY <2>4, <2>5, BlacklistStep
<1>2. CASE ~LoggedOut(t)
  <2>1. PICK d \in Calls : /\ call[d].token = t /\ pc[d] \in Inside
                           /\ t \in blacklist' /\ UNCHANGED <<tok, now>>
    BY <1>2, NewLogout
  <2> QED BY <2>1 DEF PresentedExists
<1> QED BY <1>1, <1>2

SameHistory(c) ==
    /\ call'[c].token = call[c].token
    /\ call'[c].late = call[c].late
    /\ call'[c].passed = call[c].passed

\* What a step leaves of a call's history.
LEMMA HistoryStep ==
    ASSUME TypeOK, [Next]_vars, NEW c \in Calls
    PROVE  \/ SameHistory(c)
           \/ /\ Present(c) /\ call'[c].passed = 0
              /\ call'[c].token \in Calls /\ call'[c].late = LoggedOut(call'[c].token)
           \/ /\ CheckBlacklist(c) /\ call'[c] = [call[c] EXCEPT !.passed = now]
              /\ ~(call[c].token \in blacklist /\ tok[call[c].token].exp > now)
<1>1. CASE Present(c)
  <2>1. PICK op \in Ops \ {"login"}, t \in Calls :
          call' = [call EXCEPT ![c] = [op |-> op, token |-> t, seen |-> Fresh,
                                       late |-> LoggedOut(t),
                                       revoked |-> tok[t].iat < revokedAt, passed |-> 0]]
    BY <1>1 DEF Present
  <2>2. call'[c] = [op |-> op, token |-> t, seen |-> Fresh, late |-> LoggedOut(t),
                    revoked |-> tok[t].iat < revokedAt, passed |-> 0]
    BY <2>1 DEF TypeOK
  <2>3. call'[c].passed = 0 /\ call'[c].token = t /\ call'[c].late = LoggedOut(t) BY <2>2
  <2> QED BY <1>1, <2>3
<1>2. CASE CheckBlacklist(c)
  <2>1. CASE UNCHANGED call BY <2>1 DEF SameHistory
  <2>2. CASE call' = [call EXCEPT ![c].passed = now]
             /\ ~(call[c].token \in blacklist /\ tok[call[c].token].exp > now)
    BY <1>2, <2>2 DEF TypeOK
  <2> QED BY <1>2, <2>1, <2>2 DEF CheckBlacklist
<1>3. CASE LoginRead(c) \/ LoginDecide(c) \/ SessionRead(c) \/ SessionDecide(c) \/ Abort(c)
  <2>1. call[c] \in CallLocals BY DEF TypeOK
  <2>2. \E a : call'[c] = [call[c] EXCEPT !.seen = a]
    BY <1>3 DEF LoginRead, LoginDecide, SessionRead, SessionDecide, Abort, TypeOK
  <2> QED BY <2>1, <2>2 DEF SameHistory, CallLocals
<1>4. CASE RefreshRead(c) \/ Issue(c) \/ LogoutCheck(c) \/ LogoutInsert(c)
  BY <1>4 DEF RefreshRead, Issue, LogoutCheck, LogoutInsert, SameHistory
<1>5. CASE call'[c] = call[c]
  BY <1>5 DEF SameHistory
<1> QED BY <1>1, <1>2, <1>3, <1>4, <1>5, OwnStep DEF Own

LEMMA LatePreserved ==
    ASSUME TypeOK, Answered, LateIsLoggedOut, [Next]_vars PROVE LateIsLoggedOut'
<1> SUFFICES ASSUME NEW c \in Calls, call'[c].late
             PROVE  \E d \in Calls : call'[d].op = "logout" /\ call'[d].token = call'[c].token
                                       /\ reply'[d] \in {"LoggedOut", "Conflict"}
  BY DEF LateIsLoggedOut, LoggedOut
<1>0. call[c] \in CallLocals /\ call[c].token \in Calls BY DEF TypeOK, CallLocals
<1>1. call'[c].token \in Calls /\ LoggedOut(call'[c].token)
  <2>1. CASE Present(c) /\ call'[c].token \in Calls /\ call'[c].late = LoggedOut(call'[c].token)
    BY <2>1
  <2>2. CASE call'[c].late = call[c].late /\ call'[c].token = call[c].token
    BY <1>0, <2>2 DEF LateIsLoggedOut
  <2> QED BY <1>0, <2>1, <2>2, HistoryStep DEF CallLocals, SameHistory
<1> DEFINE t == call'[c].token
<1>2. t \in Calls /\ LoggedOut(t) BY <1>1
<1> HIDE DEF t
<1>3. \E d \in Calls : call'[d].op = "logout" /\ call'[d].token = t
                        /\ reply'[d] \in {"LoggedOut", "Conflict"}
  <2>1. PICK d \in Calls : call[d].op = "logout" /\ call[d].token = t
                             /\ reply[d] \in {"LoggedOut", "Conflict"}
    BY <1>2 DEF LoggedOut
  <2>2. pc[d] = "done" BY <2>1 DEF Answered
  <2> QED BY <2>1, <2>2, DoneStays
<1> QED BY <1>3 DEF t

LEMMA UntilExpiryPreserved ==
    ASSUME TypeOK, IssuedLast, LogoutRemembered, LateIsLoggedOut, LoggedOutUntilExpiry,
           [Next]_vars
    PROVE  LoggedOutUntilExpiry'
<1> SUFFICES ASSUME NEW c \in Calls, call'[c].late, call'[c].passed # 0
             PROVE  call'[c].passed >= tok'[call'[c].token].exp
  BY DEF LoggedOutUntilExpiry
<1>0. call[c] \in CallLocals /\ call[c].token \in Calls /\ now \in Nat
  BY DEF TypeOK, CallLocals
<1>1. CASE SameHistory(c)
  <2>1. tok[call[c].token] # NoToken
    BY <1>0, <1>1 DEF LateIsLoggedOut, LogoutRemembered, SameHistory
  <2>2. tok'[call[c].token] = tok[call[c].token] BY <1>0, <2>1, TokenStays
  <2> QED BY <1>1, <2>2 DEF LoggedOutUntilExpiry, SameHistory
<1>2. CASE /\ call'[c] = [call[c] EXCEPT !.passed = now]
           /\ ~(call[c].token \in blacklist /\ tok[call[c].token].exp > now)
  <2>1. call'[c].late = call[c].late /\ call'[c].token = call[c].token /\ call'[c].passed = now
    BY <1>0, <1>2 DEF CallLocals
  <2>2. /\ tok[call[c].token] # NoToken
        /\ call[c].token \in blacklist \/ tok[call[c].token].exp <= now
    BY <1>0, <2>1 DEF LateIsLoggedOut, LogoutRemembered
  <2>3. tok[call[c].token].exp \in Nat BY <1>0, <2>2 DEF TypeOK, Token
  <2>4. tok'[call[c].token] = tok[call[c].token] BY <1>0, <2>2, TokenStays
  <2> QED BY <1>0, <1>2, <2>1, <2>2, <2>3, <2>4
<1> QED BY <1>1, <1>2, HistoryStep

\* A row that a call reads is one it has met.
LEMMA SeenPreserved == ASSUME TypeOK, SeenVouched, [Next]_vars PROVE SeenVouched'
<1> SUFFICES ASSUME NEW c \in Calls, pc'[c] \in {"login", "decide"}, Unbarred(call'[c].seen)
             PROVE  call'[c].seen.until \in vouched'[c]
  BY DEF SeenVouched, Unbarred
<1>1. CASE LoginRead(c) \/ SessionRead(c)
  <2>1. call'[c].seen = account
    <3>1. call[c] \in CallLocals BY DEF TypeOK
    <3>2. call'[c] = [call[c] EXCEPT !.seen = account]
      BY <1>1 DEF LoginRead, SessionRead, TypeOK
    <3> QED BY <3>1, <3>2 DEF CallLocals
  <2>2. Vouch BY <1>1 DEF LoginRead, SessionRead, Goto
  <2> QED BY <2>1, <2>2 DEF Vouch
<1>2. CASE Own(c) /\ ~LoginRead(c) /\ ~SessionRead(c)
  BY <1>2 DEF Own, LoginDecide, Present, CheckBlacklist, SessionDecide, RefreshRead, Issue,
     LogoutCheck, LogoutInsert, Abort, Goto, Answer, TypeOK
<1>3. CASE pc'[c] = pc[c] /\ call'[c] = call[c]
  BY <1>3, VouchedGrows DEF SeenVouched
<1> QED BY <1>1, <1>2, <1>3, OwnStep

\* A row that passes the check against the clock has been met.
LEMMA PassVouched ==
    ASSUME TypeOK, SeenVouched, NEW c \in Calls, pc[c] \in {"login", "decide"},
           Eligible(call[c].seen, now)
    PROVE  \E u \in vouched[c] : u <= now
BY DEF SeenVouched, Eligible

\* Whoever gets past the checks has met the account in order.
LEMMA ClearedPreserved ==
    ASSUME TypeOK, SeenVouched, ClearedVouched, [Next]_vars PROVE ClearedVouched'
<1> SUFFICES ASSUME NEW c \in Calls, pc'[c] \in Cleared PROVE \E u \in vouched'[c] : u <= now'
  BY DEF ClearedVouched
<1>0. now \in Nat /\ now' \in Nat /\ now <= now' /\ vouched[c] \subseteq Nat
  BY ClockStep DEF TypeOK
<1>1. \E u \in vouched[c] : u <= now
  <2>1. CASE pc[c] \in Cleared BY <2>1 DEF ClearedVouched
  <2>2. CASE pc[c] \notin Cleared
    <3>1. Own(c) BY <2>2, OwnStep
    <3>2. CASE LoginDecide(c)
      BY <3>2, PassVouched DEF LoginDecide, Answer, TypeOK, Cleared
    <3>3. CASE SessionDecide(c)
      BY <3>3, PassVouched DEF SessionDecide, ShouldReject, Answer, TypeOK, Cleared
    <3>4. CASE LoginRead(c) \/ Present(c) \/ CheckBlacklist(c) \/ SessionRead(c) \/ Abort(c)
      BY <3>4 DEF LoginRead, Present, CheckBlacklist, SessionRead, Abort, Goto, Answer, TypeOK,
         Cleared
    <3>5. CASE RefreshRead(c) \/ Issue(c) \/ LogoutCheck(c) \/ LogoutInsert(c)
      BY <2>2, <3>5 DEF RefreshRead, Issue, LogoutCheck, LogoutInsert, Cleared
    <3> QED BY <3>1, <3>2, <3>3, <3>4, <3>5 DEF Own
  <2> QED BY <2>1, <2>2
<1>2. vouched[c] \subseteq vouched'[c] BY VouchedGrows DEF Cleared
<1> QED BY <1>0, <1>1, <1>2

LEMMA Invariance == Spec => []Inv
<1>1. Init => Inv
  <2> SUFFICES ASSUME Init PROVE Inv OBVIOUS
  <2>1. TypeOK BY TypeInit
  <2>2. /\ \A p \in Calls \cup Writers : pc[p] = "idle" /\ reply[p] = "none"
        /\ \A c \in Calls : tok[c] = NoToken /\ ~call[c].late /\ call[c].passed = 0
        /\ blacklist = {}
    BY DEF Init
  <2> QED BY <2>1, <2>2
       DEF Inv, Answered, IssuedLast, PresentedExists, ListedExists, LogoutRemembered, LoggedOut,
           LateIsLoggedOut, LoggedOutUntilExpiry, SeenVouched, ClearedVouched, Inside, Cleared
<1>2. Inv /\ [Next]_vars => Inv'
  BY TypePreserved, AnsweredPreserved, IssuedLastPreserved, PresentedPreserved, ListedPreserved,
     RememberedPreserved, LatePreserved, UntilExpiryPreserved, SeenPreserved,
     ClearedPreserved DEF Inv
<1> QED BY <1>1, <1>2, PTL DEF Spec

-----------------------------------------------------------------------------
(* What follows.                                                             *)

\* A logged-out token stays behind the blacklist for its lifetime: no race of
\* logouts, purge and checks lets a later call past it.
THEOREM LogoutHolds == Spec => []LoggedOutUntilExpiry
<1>1. Inv => LoggedOutUntilExpiry BY DEF Inv
<1> QED BY <1>1, Invariance, PTL

\* No call is served, and none gets a token, unless the account was active and
\* not deleted at some moment while the call was under way, with no suspension
\* or one that is over when the call is answered.
THEOREM StandingHolds == Spec => OnlyInGoodStanding
<1>1. ASSUME Inv, [Next]_vars, NEW c \in Calls, reply[c] = "none",
             reply'[c] \in {"Accepted", "Issued"}
      PROVE  \E u \in vouched[c] : u <= now
  <2>1. Own(c) BY <1>1, OwnStep DEF Inv
  <2>2. CASE SessionDecide(c)
    BY <1>1, <2>2, PassVouched DEF SessionDecide, ShouldReject, Goto, Answer, Inv, TypeOK
  <2>3. CASE Issue(c)
    BY <1>1, <2>3 DEF Issue, Inv, ClearedVouched, Cleared
  <2>4. CASE ~SessionDecide(c) /\ ~Issue(c)
    BY <1>1, <2>1, <2>4 DEF Own, LoginRead, LoginDecide, Present, CheckBlacklist, SessionRead,
       RefreshRead, LogoutCheck, LogoutInsert, Abort, Goto, Answer, Inv, TypeOK
  <2> QED BY <2>2, <2>3, <2>4
<1>2. Inv /\ [Next]_vars
        => [\A c \in Calls : reply[c] = "none" /\ reply'[c] \in {"Accepted", "Issued"}
                               => \E u \in vouched[c] : u <= now]_vars
  BY <1>1
<1> QED BY <1>2, Invariance, PTL DEF Spec, OnlyInGoodStanding
=============================================================================
