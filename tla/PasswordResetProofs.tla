------------------------- MODULE PasswordResetProofs -------------------------
(* What PasswordReset's runs check on a few calls, proved for any number of  *)
(* requests, verifications and confirmations and any configuration: types,   *)
(* the guess budget, the single redemption, the cooldown, who owes the user  *)
(* an e-mail, and that the service implements OneTimeCode.                   *)
EXTENDS PasswordReset, TLAPS

-----------------------------------------------------------------------------
(* Types.                                                                    *)

LEMMA AttemptsPositive == Attempts \in Nat /\ Attempts >= 1
BY ResetConstants DEF Attempts

LEMMA ChallengeFields ==
    ASSUME NEW s \in Challenge
    PROVE  /\ s.code \in Requests /\ s.expires \in Nat
           /\ s.sentAt \in Nat /\ s.failed \in Nat
           /\ s # NoState /\ s # Corrupt
BY DistinctStates DEF Challenge

\* One more failed attempt changes nothing else of a challenge.
LEMMA MissedFields ==
    ASSUME NEW s \in Challenge
    PROVE  LET n == [s EXCEPT !.failed = @ + 1] IN
           /\ n \in Challenge
           /\ n.code = s.code /\ n.expires = s.expires /\ n.sentAt = s.sentAt
           /\ n.failed = s.failed + 1
BY DEF Challenge

LEMMA NewFields ==
    ASSUME NEW c \in Requests, NEW t \in Nat
    PROVE  LET n == [code |-> c, expires |-> t + Lifetime, sentAt |-> t, failed |-> 0] IN
           /\ n \in Challenge
           /\ n.code = c /\ n.sentAt = t /\ n.failed = 0
BY ResetConstants DEF Challenge

LEMMA StoredStates ==
    /\ NoState \in Stored
    /\ \A s \in Challenge : s \in Stored
    /\ \A s \in Stored : \A h : Visible(s, h) \in Stored
BY DEF Stored, Visible

LEMMA LocalFields ==
    ASSUME NEW l \in Locals
    PROVE  /\ l.op \in Ops /\ l.code \in Submitted /\ l.standing \in AllStandings
           /\ l.seen \in Stored /\ l.mine \in Challenge \cup {NoState}
           /\ l.verdict \in Verdicts /\ l.tries \in 0 .. MaxConcurrencyRetries - 1
BY DEF Locals

LEMMA BlankType == Blank \in Locals
BY ResetConstants DEF Blank, Locals, Submitted, AllStandings, Stored, Ops, Verdicts

LEMMA StartedType ==
    ASSUME NEW op \in Ops, NEW code \in Submitted, NEW st \in AllStandings
    PROVE  [Blank EXCEPT !.op = op, !.code = code, !.standing = st] \in Locals
BY BlankType DEF Locals

LEMMA SeenType ==
    ASSUME NEW l \in Locals, NEW s \in Stored
    PROVE  /\ [l EXCEPT !.seen = s] \in Locals
           /\ [l EXCEPT !.seen = s].seen = s
           /\ [l EXCEPT !.seen = s].mine = l.mine
BY DEF Locals

LEMMA MineType ==
    ASSUME NEW l \in Locals, NEW s \in Challenge
    PROVE  /\ [l EXCEPT !.mine = s] \in Locals
           /\ [l EXCEPT !.mine = s].mine = s
           /\ [l EXCEPT !.mine = s].seen = l.seen
BY DEF Locals

LEMMA VerdictType ==
    ASSUME NEW l \in Locals, NEW v \in Verdicts
    PROVE  /\ [l EXCEPT !.verdict = v] \in Locals
           /\ [l EXCEPT !.verdict = v].verdict = v
           /\ [l EXCEPT !.verdict = v].seen = l.seen
BY DEF Locals

LEMMA RetriedType ==
    ASSUME NEW l \in Locals, l.tries + 1 < MaxConcurrencyRetries
    PROVE  [l EXCEPT !.tries = @ + 1, !.seen = NoState] \in Locals
<1>1. l.tries + 1 \in 0 .. MaxConcurrencyRetries - 1
  BY ResetConstants DEF Locals
<1>2. NoState \in Stored
  BY StoredStates
<1> QED BY <1>1, <1>2 DEF Locals

LEMMA VerdictOf ==
    ASSUME NEW s, NEW code, NEW t
    PROVE  Verdict(s, code, t) \in Verdicts
BY DEF Verdict, Verdicts

-----------------------------------------------------------------------------
(* A step of call c moves its label, its locals and its answer, and nobody   *)
(* else's.                                                                   *)

\* Call c goes to label p with locals l and answer a.
Moves(c, p, l, a) ==
    /\ p \in Labels /\ l \in Locals /\ a \in Replies
    /\ pc' = [pc EXCEPT ![c] = p]
    /\ local' = [local EXCEPT ![c] = l]
    /\ reply' = [reply EXCEPT ![c] = a]

CallTypes ==
    /\ pc \in [Calls -> Labels]
    /\ reply \in [Calls -> Replies]
    /\ local \in [Calls -> Locals]

LEMMA ContinueMoves ==
    ASSUME CallTypes, NEW c \in Calls, NEW p \in Labels, NEW l \in Locals, Continue(c, p, l)
    PROVE  Moves(c, p, l, reply[c])
BY DEF CallTypes, Continue, Moves

LEMMA AnswerMoves ==
    ASSUME NEW c \in Calls, NEW a \in Replies, Answer(c, a)
    PROVE  Moves(c, "done", Blank, a)
BY BlankType DEF Answer, Moves, Labels

\* After a move: the mover is where the move says, the others where they were.
LEMMA MovedTo ==
    ASSUME CallTypes, NEW c \in Calls, NEW p, NEW l, NEW a, Moves(c, p, l, a)
    PROVE  /\ CallTypes'
           /\ pc'[c] = p /\ local'[c] = l /\ reply'[c] = a
           /\ \A d \in Calls \ {c} :
                pc'[d] = pc[d] /\ local'[d] = local[d] /\ reply'[d] = reply[d]
BY DEF CallTypes, Moves

-----------------------------------------------------------------------------
(* The inductive invariant.  A call acts on a state it read earlier, so the  *)
(* invariant says what that state is worth at each label; a compare-and-swap *)
(* or a delete that wins turns it into a fact about the row.                 *)

\* The stored challenge was issued, is not redeemed, and counts exactly the
\* wrong guesses made against it, with one left at least.
RowInv ==
    row \in Challenge =>
        /\ row.code \in issued
        /\ wrong[row.code] = row.failed
        /\ row.failed < Attempts
        /\ \A p \in redeemed : p[2] # row.code

\* The histories agree with each other.
HistoryInv ==
    /\ RedeemedOnce
    /\ GuessBudget
    /\ \A p \in redeemed : p[2] \in issued
    /\ \A c \in Requests \ issued : wrong[c] = 0

\* What call c at label p, with locals l and answer a, relies on.
CallInv(c, p, l, a) ==
    /\ p # "done" => a = "none"
    /\ p = "requestSend" => c \in Requests
    /\ c \in issued => p \notin {"idle", "requestRead", "requestDecide", "requestStore"}
    /\ p \in {"requestStore", "requestSend", "requestUndo"} =>
          l.mine \in Challenge /\ l.mine.code = c /\ l.mine.failed = 0
    /\ p = "requestStore" => l.mine.sentAt <= now /\ ~Cooling(l.seen, l.mine.sentAt)
    /\ p \in {"requestSend", "requestUndo"} /\ row \in Challenge /\ row.code = c =>
          row = l.mine \/ row.failed > 0
    /\ p = "replace" => l.seen \in Challenge /\ l.seen.failed + 1 < Attempts
    /\ p = "delete" /\ l.verdict \in {"right", "lastMiss"} => l.seen \in Challenge
    /\ p = "delete" /\ l.verdict = "lastMiss" => l.seen.failed + 1 >= Attempts

CallsInv == \A c \in Calls : CallInv(c, pc[c], local[c], reply[c])

Inv == TypeOK /\ RowInv /\ HistoryInv /\ CallsInv /\ UndeliveredExplained

LEMMA AnsweredInv ==
    ASSUME NEW c, NEW a
    PROVE  CallInv(c, "done", Blank, a) /\ CallInv(c, "done", Blank, a)'
BY DEF CallInv

\* A step of one call takes nothing from what the others rely on, as long as it
\* issues no code but its own and stores no untouched challenge but its own.
LEMMA CallsKept ==
    ASSUME Inv, NEW c \in Calls, NEW p, NEW l, NEW a, Moves(c, p, l, a),
           now' = now, issued' \subseteq issued \cup {c},
           row' \in Challenge => row' = row \/ row'.failed > 0 \/ row'.code = c,
           CallInv(c, p, l, a)'
    PROVE  CallsInv'
<1>1. CallTypes BY DEF Inv, TypeOK, CallTypes
<1> SUFFICES ASSUME NEW d \in Calls
             PROVE  CallInv(d, pc[d], local[d], reply[d])'
  BY DEF CallsInv
<1>2. CASE d = c
  BY <1>1, <1>2, MovedTo
<1>3. CASE d # c
  <2>1. pc'[d] = pc[d] /\ local'[d] = local[d] /\ reply'[d] = reply[d]
    BY <1>1, <1>3, MovedTo
  <2>2. CallInv(d, pc[d], local[d], reply[d])
    BY DEF Inv, CallsInv
  <2> QED BY <1>3, <2>1, <2>2 DEF CallInv, Cooling
<1> QED BY <1>2, <1>3

\* Nor does it leave an undelivered code unexplained, as long as it answers for
\* its own.
LEMMA OwedKept ==
    ASSUME Inv, NEW c \in Calls, NEW p, NEW l, NEW a, Moves(c, p, l, a),
           standing' = standing, mailed \subseteq mailed',
           row' \in Challenge /\ row'.code # c =>
              row \in Challenge /\ row'.code = row.code /\ row'.failed >= row.failed,
           row' \in Challenge /\ row'.code = c /\ c \notin mailed' =>
              \/ p \in {"requestSend", "requestUndo"}
              \/ a = "Aborted"
              \/ a = "SendFailed" /\ (row'.failed > 0 \/ Gone)
    PROVE  UndeliveredExplained'
<1>1. CallTypes BY DEF Inv, TypeOK, CallTypes
<1> SUFFICES ASSUME row' \in Challenge, row'.code \notin mailed'
             PROVE  \/ pc'[row'.code] \in {"requestSend", "requestUndo"}
                    \/ reply'[row'.code] = "Aborted"
                    \/ reply'[row'.code] = "SendFailed" /\ (row'.failed > 0 \/ Gone')
  BY DEF UndeliveredExplained
<1>2. CASE row'.code = c
  BY <1>1, <1>2, MovedTo DEF Gone
<1>3. CASE row'.code # c
  <2> DEFINE d == row.code
  <2>1. row \in Challenge /\ row'.code = d /\ row'.failed >= row.failed /\ d \notin mailed
    BY <1>3
  <2>2. d \in Calls /\ d # c
    BY <1>3, <2>1, ChallengeFields DEF Calls
  <2>3. pc'[d] = pc[d] /\ reply'[d] = reply[d]
    BY <1>1, <2>2, MovedTo
  <2>4. \/ pc[d] \in {"requestSend", "requestUndo"}
        \/ reply[d] = "Aborted"
        \/ reply[d] = "SendFailed" /\ (row.failed > 0 \/ Gone)
    BY <2>1 DEF Inv, UndeliveredExplained
  <2>5. row.failed \in Nat /\ row'.failed \in Nat
    BY <2>1, ChallengeFields
  <2> HIDE DEF d
  <2> QED BY <2>1, <2>3, <2>4, <2>5 DEF Gone
<1> QED BY <1>2, <1>3

\* A step that leaves the row and the histories of codes alone.
LEMMA QuietStep ==
    ASSUME Inv, NEW c \in Calls, NEW p, NEW l, NEW a, Moves(c, p, l, a),
           UNCHANGED <<world, row, issued, redeemed, wrong>>,
           password' \in Checks \cup {NoState},
           mailed' \in SUBSET Requests, mailed \subseteq mailed',
           CallInv(c, p, l, a),
           row \in Challenge /\ row.code = c /\ c \notin mailed' =>
              \/ p \in {"requestSend", "requestUndo"}
              \/ a = "Aborted"
    PROVE  Inv'
<1>1. CallTypes BY DEF Inv, TypeOK, CallTypes
<1>2. TypeOK'
  BY <1>1, MovedTo DEF Inv, TypeOK, CallTypes, world
<1>3. RowInv' /\ HistoryInv'
  BY DEF Inv, RowInv, HistoryInv, RedeemedOnce, GuessBudget
<1>4. CallInv(c, p, l, a)'
  BY DEF CallInv, Cooling, world
<1>5. CallsInv'
  BY <1>4, CallsKept DEF world
<1>6. row' \in Challenge /\ row'.code # c =>
        row \in Challenge /\ row'.code = row.code /\ row'.failed >= row.failed
  BY ChallengeFields
<1>7. UndeliveredExplained'
  BY <1>6, OwedKept DEF world
<1> QED BY <1>2, <1>3, <1>5, <1>7 DEF Inv

-----------------------------------------------------------------------------
(* The steps that leave the table alone.                                     *)

LEMMA LocalOf ==
    ASSUME Inv, NEW c \in Calls
    PROVE  /\ CallTypes /\ local[c] \in Locals /\ pc[c] \in Labels /\ reply[c] \in Replies
           /\ CallInv(c, pc[c], local[c], reply[c])
           /\ password \in Checks \cup {NoState} /\ mailed \in SUBSET Requests
           /\ row \in Stored /\ standing \in AllStandings /\ now \in Nat
BY ResetConstants DEF Inv, TypeOK, CallTypes, CallsInv

\* A request whose code is stored has passed the labels before requestSend.
LEMMA NotMineYet ==
    ASSUME Inv, NEW c \in Calls,
           pc[c] \in {"idle", "requestRead", "requestDecide", "requestStore"}
    PROVE  ~(row \in Challenge /\ row.code = c)
BY LocalOf DEF CallInv, Inv, RowInv

\* A call that answers without touching the row or the mail.
LEMMA QuietAnswer ==
    ASSUME Inv, NEW c \in Calls, NEW a \in Replies, Answer(c, a),
           UNCHANGED <<world, row, history>>,
           password' \in Checks \cup {NoState},
           row \in Challenge /\ row.code = c => c \in mailed \/ a = "Aborted"
    PROVE  Inv'
<1>1. Moves(c, "done", Blank, a)
  BY AnswerMoves
<1>2. CallInv(c, "done", Blank, a)
  BY AnsweredInv
<1>3. mailed' \in SUBSET Requests /\ mailed \subseteq mailed'
  BY LocalOf DEF history
<1> QED BY <1>1, <1>2, <1>3, QuietStep DEF history

\* A call that goes on without touching the row or the mail.
LEMMA QuietContinue ==
    ASSUME Inv, NEW c \in Calls, NEW p \in Labels, NEW l \in Locals, Continue(c, p, l),
           UNCHANGED <<world, row, history>>,
           password' \in Checks \cup {NoState},
           CallInv(c, p, l, reply[c]),
           row \in Challenge /\ row.code = c => p \in {"requestSend", "requestUndo"}
    PROVE  Inv'
<1>1. Moves(c, p, l, reply[c])
  BY LocalOf, ContinueMoves
<1>3. mailed' \in SUBSET Requests /\ mailed \subseteq mailed'
  BY LocalOf DEF history
<1> HIDE DEF Inv
<1> QED BY <1>1, <1>3, QuietStep DEF history

\* No challenge belongs to a verification or a confirmation.
LEMMA CheckOwnsNone ==
    ASSUME NEW c \in Checks
    PROVE  c \in Calls /\ ~(row \in Challenge /\ row.code = c)
BY ChallengeFields, ResetConstants DEF Calls

LEMMA RequestStartInv ==
    ASSUME Inv, NEW c \in Requests, RequestStart(c) PROVE Inv'
<1>0. c \in Calls /\ ~(row \in Challenge /\ row.code = c)
  BY NotMineYet DEF Calls, RequestStart
<1>1. UNCHANGED <<world, row, history>> /\ password' \in Checks \cup {NoState}
  BY LocalOf, <1>0 DEF RequestStart
<1>2. CASE Answer(c, "Ignored")
  BY <1>0, <1>1, <1>2, QuietAnswer DEF Replies
<1>3. CASE Continue(c, "requestRead", Blank)
  <2>1. CallInv(c, "requestRead", Blank, reply[c])
    BY <1>0, LocalOf DEF CallInv, RequestStart
  <2> QED BY <1>0, <1>1, <1>3, <2>1, QuietContinue, BlankType DEF Labels
<1> QED BY <1>2, <1>3 DEF RequestStart

LEMMA RequestReadInv ==
    ASSUME Inv, NEW c \in Requests, RequestRead(c) PROVE Inv'
<1>0. c \in Calls /\ ~(row \in Challenge /\ row.code = c)
  BY NotMineYet DEF Calls, RequestRead
<1>1. UNCHANGED <<world, row, history>> /\ password' \in Checks \cup {NoState}
  BY LocalOf, <1>0 DEF RequestRead
<1> DEFINE l == [local[c] EXCEPT !.seen = Visible(row, Gone)]
<1>2. l \in Locals
  BY <1>0, LocalOf, SeenType, StoredStates
<1>3. Continue(c, "requestDecide", l)
  BY DEF RequestRead
<1> HIDE DEF l
<1>4. CallInv(c, "requestDecide", l, reply[c])
  BY <1>0, LocalOf DEF CallInv, RequestRead
<1> QED BY <1>0, <1>1, <1>2, <1>3, <1>4, QuietContinue DEF Labels

LEMMA RequestDecideInv ==
    ASSUME Inv, NEW c \in Requests, RequestDecide(c) PROVE Inv'
<1>0. c \in Calls /\ ~(row \in Challenge /\ row.code = c)
  BY NotMineYet DEF Calls, RequestDecide
<1>1. UNCHANGED <<world, row, history>> /\ password' \in Checks \cup {NoState}
  BY LocalOf, <1>0 DEF RequestDecide
<1> DEFINE n == [code |-> c, expires |-> now + Lifetime, sentAt |-> now, failed |-> 0]
           l == [local[c] EXCEPT !.mine = n]
<1>2. CASE Answer(c, "Cooldown")
  BY <1>0, <1>1, <1>2, QuietAnswer DEF Replies
<1>3. CASE ~Cooling(local[c].seen, now) /\ Continue(c, "requestStore", l)
  <2>1. n \in Challenge /\ n.code = c /\ n.sentAt = now /\ n.failed = 0
    BY <1>0, LocalOf, NewFields
  <2> HIDE DEF n
  <2>2. l \in Locals /\ l.mine = n /\ l.seen = local[c].seen
    BY <1>0, <2>1, LocalOf, MineType
  <2> HIDE DEF l
  <2>3. now <= now
    BY <1>0, LocalOf
  <2>4. CallInv(c, "requestStore", l, reply[c])
    BY <1>0, <1>3, <2>1, <2>2, <2>3, LocalOf DEF CallInv, RequestDecide
  <2> QED BY <1>0, <1>1, <1>3, <2>2, <2>4, QuietContinue DEF Labels
<1> QED BY <1>2, <1>3 DEF RequestDecide

LEMMA RequestSendInv ==
    ASSUME Inv, NEW c \in Requests, RequestSend(c) PROVE Inv'
<1>0. c \in Calls
  BY DEF Calls
<1>1. /\ UNCHANGED <<world, row, issued, redeemed, wrong>>
      /\ password' \in Checks \cup {NoState}
      /\ mailed' \in SUBSET Requests /\ mailed \subseteq mailed'
  BY LocalOf, <1>0 DEF RequestSend
<1>2. CASE mailed' = mailed \cup {c} /\ Answer(c, "Sent")
  <2>1. Moves(c, "done", Blank, "Sent") /\ c \in mailed'
    BY <1>0, <1>2, AnswerMoves DEF Replies
  <2>2. CallInv(c, "done", Blank, "Sent")
    BY AnsweredInv
  <2> HIDE DEF Inv
  <2> QED BY <1>0, <1>1, <2>1, <2>2, QuietStep
<1>3. CASE Continue(c, "requestUndo", local[c])
  <2>1. Moves(c, "requestUndo", local[c], reply[c])
    BY <1>0, <1>3, LocalOf, ContinueMoves DEF Labels
  <2>2. CallInv(c, "requestUndo", local[c], reply[c])
    BY <1>0, LocalOf DEF CallInv, RequestSend
  <2> QED BY <1>0, <1>1, <2>1, <2>2, QuietStep
<1> QED BY <1>2, <1>3 DEF RequestSend

LEMMA ValidateStartInv ==
    ASSUME Inv, NEW c \in Checks, ValidateStart(c) PROVE Inv'
<1>0. c \in Calls /\ ~(row \in Challenge /\ row.code = c)
  BY CheckOwnsNone
<1>1. UNCHANGED <<world, row, history>> /\ password' \in Checks \cup {NoState}
  BY LocalOf, <1>0 DEF ValidateStart
<1>2. CASE Answer(c, "UserUnavailable")
  BY <1>0, <1>1, <1>2, QuietAnswer DEF Replies
<1>3. ASSUME NEW op \in Ops, NEW code \in Submitted,
             Continue(c, "read", [Blank EXCEPT !.op = op, !.code = code, !.standing = standing])
      PROVE  Inv'
  <2> DEFINE l == [Blank EXCEPT !.op = op, !.code = code, !.standing = standing]
  <2>1. l \in Locals
    BY <1>0, LocalOf, StartedType
  <2>2. Continue(c, "read", l)
    BY <1>3
  <2> HIDE DEF l
  <2>3. c \notin issued
    BY ResetConstants DEF Inv, TypeOK
  <2>4. CallInv(c, "read", l, reply[c])
    BY <1>0, <2>3, LocalOf DEF CallInv, ValidateStart
  <2> QED BY <1>0, <1>1, <2>1, <2>2, <2>4, QuietContinue DEF Labels
<1> QED BY <1>2, <1>3 DEF ValidateStart

LEMMA ReadInv ==
    ASSUME Inv, NEW c \in Checks, Read(c) PROVE Inv'
<1>0. c \in Calls /\ ~(row \in Challenge /\ row.code = c)
  BY CheckOwnsNone
<1>1. UNCHANGED <<world, row, history>> /\ password' \in Checks \cup {NoState}
  BY LocalOf, <1>0 DEF Read
<1> DEFINE l == [local[c] EXCEPT !.seen = Visible(row, Gone)]
<1>2. CASE Answer(c, "InvalidOrExpiredCode")
  BY <1>0, <1>1, <1>2, QuietAnswer DEF Replies
<1>3. CASE Continue(c, "decide", l)
  <2>1. l \in Locals
    BY <1>0, LocalOf, SeenType, StoredStates
  <2> HIDE DEF l
  <2>2. CallInv(c, "decide", l, reply[c])
    BY <1>0, LocalOf DEF CallInv, Read
  <2> QED BY <1>0, <1>1, <1>3, <2>1, <2>2, QuietContinue DEF Labels
<1> QED BY <1>2, <1>3 DEF Read

\* What the verdict establishes about the state it was passed on.
LEMMA VerdictMeans ==
    ASSUME NEW s \in Stored, NEW code, NEW t \in Nat
    PROVE  LET v == Verdict(s, code, t) IN
           /\ v \in {"right", "lastMiss", "miss"} => s \in Challenge
           /\ v = "miss" => s.failed + 1 < Attempts
           /\ v = "lastMiss" => s.failed + 1 >= Attempts
BY ChallengeFields, AttemptsPositive DEF Verdict

LEMMA DecideInv ==
    ASSUME Inv, NEW c \in Checks, Decide(c) PROVE Inv'
<1>0. c \in Calls /\ ~(row \in Challenge /\ row.code = c)
  BY CheckOwnsNone
<1>1. UNCHANGED <<world, row, history>> /\ password' \in Checks \cup {NoState}
  BY LocalOf, <1>0 DEF Decide
<1> DEFINE v == Verdict(local[c].seen, local[c].code, now)
           l == [local[c] EXCEPT !.verdict = v]
<1>2. /\ v \in Verdicts
      /\ v \in {"right", "lastMiss", "miss"} => local[c].seen \in Challenge
      /\ v = "miss" => local[c].seen.failed + 1 < Attempts
      /\ v = "lastMiss" => local[c].seen.failed + 1 >= Attempts
  BY <1>0, LocalOf, LocalFields, VerdictOf, VerdictMeans
<1>3. \/ Answer(c, "Valid")
      \/ v = "miss" /\ Continue(c, "replace", l)
      \/ v # "miss" /\ Continue(c, "delete", l)
  BY DEF Decide
<1> HIDE DEF v
<1>4. l \in Locals /\ l.verdict = v /\ l.seen = local[c].seen
  BY <1>0, <1>2, LocalOf, VerdictType
<1> HIDE DEF l
<1>5. CASE Answer(c, "Valid")
  BY <1>0, <1>1, <1>5, QuietAnswer DEF Replies
<1>6. CASE v = "miss" /\ Continue(c, "replace", l)
  <2>1. CallInv(c, "replace", l, reply[c])
    BY <1>0, <1>2, <1>4, <1>6, LocalOf DEF CallInv, Decide
  <2> QED BY <1>0, <1>1, <1>4, <1>6, <2>1, QuietContinue DEF Labels
<1>7. CASE Continue(c, "delete", l)
  <2>1. CallInv(c, "delete", l, reply[c])
    BY <1>0, <1>2, <1>4, LocalOf DEF CallInv, Decide
  <2> QED BY <1>0, <1>1, <1>4, <1>7, <2>1, QuietContinue DEF Labels
<1> QED BY <1>3, <1>5, <1>6, <1>7

LEMMA SaveInv ==
    ASSUME Inv, NEW c \in Checks, Save(c) PROVE Inv'
<1>0. c \in Calls /\ ~(row \in Challenge /\ row.code = c)
  BY CheckOwnsNone
<1>1. UNCHANGED <<world, row, history>> /\ password' \in Checks \cup {NoState}
  BY LocalOf, <1>0 DEF Save
<1>2. CASE Answer(c, "PersistenceFailed")
  BY <1>0, <1>1, <1>2, QuietAnswer DEF Replies
<1>3. CASE Continue(c, "invalidate", local[c])
  <2>1. CallInv(c, "invalidate", local[c], reply[c])
    BY <1>0, LocalOf DEF CallInv, Save
  <2> QED BY <1>0, <1>1, <1>3, <2>1, LocalOf, QuietContinue DEF Labels
<1> QED BY <1>2, <1>3 DEF Save

LEMMA InvalidateInv ==
    ASSUME Inv, NEW c \in Checks, Invalidate(c) PROVE Inv'
<1>0. c \in Calls /\ ~(row \in Challenge /\ row.code = c)
  BY CheckOwnsNone
<1>1. UNCHANGED <<world, row, history>> /\ password' \in Checks \cup {NoState}
  BY LocalOf, <1>0 DEF Invalidate
<1> QED BY <1>0, <1>1, QuietAnswer DEF Invalidate, Replies

LEMMA AbortInv ==
    ASSUME Inv, NEW c \in Calls, Abort(c) PROVE Inv'
<1>0. pc[c] = "requestSend" => c \in Requests
  BY LocalOf DEF CallInv
<1>1. /\ UNCHANGED <<world, row, issued, redeemed, wrong>>
      /\ password' \in Checks \cup {NoState}
      /\ mailed' \in SUBSET Requests /\ mailed \subseteq mailed'
  BY <1>0, LocalOf DEF Abort
<1>2. Moves(c, "done", Blank, "Aborted")
  BY AnswerMoves DEF Abort, Replies
<1>3. CallInv(c, "done", Blank, "Aborted")
  BY AnsweredInv
<1> QED BY <1>1, <1>2, <1>3, QuietStep

-----------------------------------------------------------------------------
(* The steps that write the row.                                             *)

LEMMA CasMeans ==
    ASSUME NEW s, NEW h \in BOOLEAN, NEW e, NEW n
    PROVE  LET cas == TryReplace(s, h, e, n) IN
           /\ cas.ok \in BOOLEAN
           /\ cas.ok => s = e /\ cas.row = n
           /\ ~cas.ok => cas.row = s
           /\ cas.ok <=> s = e /\ (h => e = NoState)
BY DEF TryReplace

LEMMA DeleteMeans ==
    ASSUME NEW s, NEW h \in BOOLEAN, NEW e
    PROVE  LET del == TryDelete(s, h, e) IN
           /\ del.ok \in BOOLEAN
           /\ del.ok => s = e /\ del.row = NoState
           /\ ~del.ok => del.row = s
           /\ del.ok <=> s # NoState /\ s = e /\ ~h
BY DEF TryDelete

LEMMA GoneType == Gone \in BOOLEAN
BY DEF Gone

LEMMA NoChallenge == NoState \notin Challenge
BY DistinctStates

\* An answered call whose step emptied the row, or left it alone.
LEMMA RowEmptied ==
    ASSUME Inv, NEW c \in Calls, NEW p, NEW l, NEW a, Moves(c, p, l, a),
           UNCHANGED <<world, password, issued, mailed>>,
           row' = NoState, redeemed' \in SUBSET (Checks \X Requests),
           wrong' \in [Requests -> Nat], HistoryInv', CallInv(c, p, l, a)'
    PROVE  Inv'
<1>1. CallTypes /\ CallTypes'
  BY LocalOf, MovedTo
<1>2. TypeOK'
  BY <1>1, StoredStates DEF Inv, TypeOK, CallTypes, world
<1>3. RowInv' /\ UndeliveredExplained'
  BY NoChallenge DEF RowInv, UndeliveredExplained
<1>4. CallsInv'
  <2>1. now' = now /\ issued' \subseteq issued \cup {c} /\ row' \notin Challenge
    BY NoChallenge DEF world
  <2> QED BY <2>1, CallsKept
<1> QED BY <1>2, <1>3, <1>4 DEF Inv

LEMMA RequestStoreInv ==
    ASSUME Inv, NEW c \in Requests, RequestStore(c) PROVE Inv'
<1> DEFINE s == local[c].seen
           n == local[c].mine
           l == [local[c] EXCEPT !.seen = NoState]
           cas == TryReplace(row, Gone, s, n)
<1>0. c \in Calls /\ ~(row \in Challenge /\ row.code = c)
  BY NotMineYet DEF Calls, RequestStore
<1>1. /\ row' = cas.row
      /\ \/ cas.ok /\ issued' = issued \cup {c} /\ Continue(c, "requestSend", l)
         \/ ~cas.ok /\ Answer(c, "Superseded") /\ UNCHANGED issued
      /\ UNCHANGED <<world, password, mailed, redeemed, wrong>>
  BY DEF RequestStore
<1>2. CASE ~cas.ok
  <2>1. row' = row
    BY <1>1, <1>2, GoneType, CasMeans
  <2>2. password' \in Checks \cup {NoState}
    BY <1>0, <1>1, LocalOf
  <2> QED BY <1>0, <1>1, <1>2, <2>1, <2>2, QuietAnswer DEF Replies, history
<1>3. CASE cas.ok
  <2>1. row' = n /\ issued' = issued \cup {c} /\ Continue(c, "requestSend", l)
    BY <1>1, <1>3, GoneType, CasMeans
  <2>2. n \in Challenge /\ n.code = c /\ n.failed = 0 /\ c \notin issued /\ reply[c] = "none"
    BY <1>0, LocalOf DEF CallInv, RequestStore
  <2>3. l \in Locals /\ l.mine = n
    BY <1>0, LocalOf, SeenType, StoredStates
  <2> HIDE DEF l, n, cas
  <2>m. PICK m : m = l
    OBVIOUS
  <2>4. Moves(c, "requestSend", m, "none")
    BY <1>0, <2>1, <2>2, <2>3, <2>m, LocalOf, ContinueMoves DEF Labels
  <2>5. TypeOK'
    <3>1. CallTypes'
      BY <1>0, <2>4, LocalOf, MovedTo
    <3>2. row' \in Stored
      BY <2>1, <2>2, StoredStates
    <3> QED BY <1>1, <2>1, <3>1, <3>2 DEF Inv, TypeOK, CallTypes, world
  <2>6. RowInv'
    <3>1. wrong[c] = 0 /\ \A p \in redeemed : p[2] # c
      BY <2>2 DEF Inv, HistoryInv
    <3> QED BY <1>1, <2>1, <2>2, <3>1, AttemptsPositive DEF RowInv
  <2>7. HistoryInv'
    BY <1>1, <2>1 DEF Inv, HistoryInv, RedeemedOnce, GuessBudget
  <2>8. CallInv(c, "requestSend", m, "none")'
    BY <2>1, <2>2, <2>3, <2>m DEF CallInv
  <2>9. CallsInv'
    <3>1. now' = now /\ issued' \subseteq issued \cup {c} /\ row'.code = c
      BY <1>1, <2>1, <2>2 DEF world
    <3> QED BY <1>0, <2>4, <2>8, <3>1, CallsKept
  <2>10. UndeliveredExplained'
    <3>1. row'.code = c /\ standing' = standing /\ mailed \subseteq mailed'
      BY <1>1, <2>1, <2>2 DEF world
    <3> QED BY <1>0, <2>4, <3>1, OwedKept
  <2> QED BY <2>5, <2>6, <2>7, <2>9, <2>10 DEF Inv
<1> QED BY <1>1, <1>2, <1>3

LEMMA RequestUndoInv ==
    ASSUME Inv, NEW c \in Requests, RequestUndo(c) PROVE Inv'
<1> DEFINE n == local[c].mine
           del == TryDelete(row, Gone, n)
<1>0. c \in Calls
  BY DEF Calls
<1>1. /\ row' = del.row
      /\ Answer(c, "SendFailed")
      /\ UNCHANGED <<world, password, history>>
  BY DEF RequestUndo
<1>2. Moves(c, "done", Blank, "SendFailed")
  BY <1>0, <1>1, AnswerMoves DEF Replies
<1>3. CallInv(c, "done", Blank, "SendFailed")'
  BY AnsweredInv
<1>4. HistoryInv'
  BY <1>1 DEF Inv, HistoryInv, RedeemedOnce, GuessBudget, history
<1>5. CASE del.ok
  <2>1. row' = NoState
    BY <1>1, <1>5, GoneType, DeleteMeans
  <2>2. /\ UNCHANGED <<world, password, issued, mailed>>
        /\ redeemed' \in SUBSET (Checks \X Requests) /\ wrong' \in [Requests -> Nat]
    BY <1>1 DEF history, Inv, TypeOK
  <2> HIDE DEF del
  <2> QED BY <1>0, <1>2, <1>3, <1>4, <2>1, <2>2, RowEmptied
<1>6. CASE ~del.ok
  <2>1. row' = row /\ (row # NoState => row # n \/ Gone)
    BY <1>1, <1>6, GoneType, DeleteMeans
  <2>2. row \in Challenge /\ row.code = c => row.failed > 0 \/ Gone
    BY <1>0, <2>1, LocalOf, NoChallenge DEF CallInv, RequestUndo
  <2> HIDE DEF del, n
  <2>3. TypeOK'
    <3>1. CallTypes'
      BY <1>0, <1>2, LocalOf, MovedTo
    <3> QED BY <1>1, <2>1, <3>1 DEF Inv, TypeOK, CallTypes, world, history
  <2>4. RowInv'
    BY <1>1, <2>1 DEF Inv, RowInv, history
  <2>5. CallsInv'
    <3>1. now' = now /\ issued' \subseteq issued \cup {c}
      BY <1>1 DEF world, history
    <3> QED BY <1>0, <1>2, <1>3, <2>1, <3>1, CallsKept
  <2>6. UndeliveredExplained'
    <3>1. standing' = standing /\ mailed \subseteq mailed'
      BY <1>1 DEF world, history
    <3>2. row \in Challenge => row.failed >= row.failed
      BY ChallengeFields
    <3> QED BY <1>0, <1>2, <2>1, <2>2, <3>1, <3>2, OwedKept
  <2> QED BY <1>4, <2>3, <2>4, <2>5, <2>6 DEF Inv
<1> QED BY <1>5, <1>6

\* The loop of ValidateResetCodeAsync goes round with nothing written.
LEMMA RetryInv ==
    ASSUME Inv, NEW c \in Checks, Retry(c), pc[c] \in {"delete", "replace"},
           UNCHANGED <<world, row, password, history>>
    PROVE  Inv'
<1>0. c \in Calls /\ ~(row \in Challenge /\ row.code = c) /\ password' \in Checks \cup {NoState}
  BY CheckOwnsNone, LocalOf
<1> DEFINE l == [local[c] EXCEPT !.tries = @ + 1, !.seen = NoState]
<1>1. CASE local[c].tries + 1 < MaxConcurrencyRetries /\ Continue(c, "read", l)
  <2>1. l \in Locals
    BY <1>0, <1>1, LocalOf, RetriedType
  <2> HIDE DEF l
  <2>2. CallInv(c, "read", l, reply[c])
    BY <1>0, LocalOf DEF CallInv
  <2> QED BY <1>0, <1>1, <2>1, <2>2, QuietContinue DEF Labels
<1>2. CASE Answer(c, "PersistenceFailed")
  BY <1>0, <1>2, QuietAnswer DEF Replies
<1> QED BY <1>1, <1>2 DEF Retry

LEMMA DeleteInv ==
    ASSUME Inv, NEW c \in Checks, Delete(c) PROVE Inv'
<1> DEFINE l == local[c]
           s == l.seen
           del == TryDelete(row, Gone, s)
           entitled == l.standing = "active"
<1>0. c \in Calls /\ ~(row \in Challenge /\ row.code = c)
  BY CheckOwnsNone
<1>1. CASE ~del.ok
  <2>1. row' = row
    BY <1>1, GoneType, DeleteMeans DEF Delete
  <2> QED BY <1>1, <2>1, RetryInv DEF Delete, history
<1>2. CASE del.ok
  <2>1. row = s /\ row' = NoState
    BY <1>2, GoneType, DeleteMeans DEF Delete
  <2>2. UNCHANGED <<world, password, issued, mailed>>
    BY DEF Delete
  <2>3. l.verdict \in {"right", "lastMiss"} => s \in Challenge
    BY <1>0, LocalOf DEF CallInv, Delete
  <2>4. s \in Challenge => s.code \in Requests
    BY ChallengeFields
  <2>5. /\ redeemed' \in SUBSET (Checks \X Requests) /\ wrong' \in [Requests -> Nat]
        /\ HistoryInv'
    <3>1. CASE l.verdict = "right" /\ entitled
      <4>1. redeemed' = redeemed \cup {<<c, s.code>>} /\ wrong' = wrong
        BY <1>2, <3>1 DEF Delete
      <4>2. s.code \in issued /\ \A p \in redeemed : p[2] # s.code
        BY <2>1, <2>3, <3>1 DEF Inv, RowInv
      <4>3. /\ redeemed \in SUBSET (Checks \X Requests) /\ wrong \in [Requests -> Nat]
            /\ HistoryInv
        BY DEF Inv, TypeOK
      <4>4. redeemed' \in SUBSET (Checks \X Requests)
        BY <2>3, <2>4, <3>1, <4>1, <4>3
      <4> HIDE DEF s, l
      <4>5. RedeemedOnce'
        BY <4>1, <4>2, <4>3 DEF HistoryInv, RedeemedOnce
      <4>6. \A p \in redeemed' : p[2] \in issued'
        BY <2>2, <4>1, <4>2, <4>3 DEF HistoryInv
      <4> QED BY <2>2, <4>1, <4>3, <4>4, <4>5, <4>6 DEF HistoryInv, GuessBudget
    <3>2. CASE l.verdict = "lastMiss"
      <4>1. redeemed' = redeemed /\ wrong' = [wrong EXCEPT ![s.code] = @ + 1]
        BY <1>2, <3>2 DEF Delete
      <4>2. /\ s.code \in issued /\ wrong[s.code] = s.failed /\ s.failed < Attempts
            /\ s.code \in Requests /\ s.failed \in Nat
        BY <2>1, <2>3, <3>2, ChallengeFields DEF Inv, RowInv
      <4>3. /\ redeemed \in SUBSET (Checks \X Requests) /\ wrong \in [Requests -> Nat]
            /\ HistoryInv
        BY DEF Inv, TypeOK
      <4> HIDE DEF s, l
      <4>4. GuessBudget'
        BY <4>1, <4>2, <4>3, AttemptsPositive DEF HistoryInv, GuessBudget
      <4>5. \A d \in Requests \ issued' : wrong'[d] = 0
        BY <2>2, <4>1, <4>2, <4>3 DEF HistoryInv
      <4> QED BY <2>2, <4>1, <4>2, <4>3, <4>4, <4>5 DEF HistoryInv, RedeemedOnce
    <3>3. CASE ~(l.verdict = "right" /\ entitled) /\ l.verdict # "lastMiss"
      <4>1. redeemed' = redeemed /\ wrong' = wrong
        BY <3>3 DEF Delete
      <4> QED BY <2>2, <4>1 DEF Inv, TypeOK, HistoryInv, RedeemedOnce, GuessBudget
    <3> QED BY <3>1, <3>2, <3>3
  <2>6. ASSUME NEW a \in Replies, Answer(c, a) PROVE Inv'
    <3>1. Moves(c, "done", Blank, a) /\ CallInv(c, "done", Blank, a)'
      BY <1>0, <2>6, AnswerMoves, AnsweredInv
    <3> HIDE DEF l
    <3> QED BY <1>0, <2>1, <2>2, <2>5, <3>1, RowEmptied
  <2>7. CASE Continue(c, "save", Blank)
    <3>1. reply[c] = "none"
      BY <1>0, LocalOf DEF CallInv, Delete
    <3>2. Moves(c, "save", Blank, "none")
      BY <1>0, <2>7, <3>1, LocalOf, ContinueMoves, BlankType DEF Labels
    <3>3. CallInv(c, "save", Blank, "none")'
      BY DEF CallInv
    <3> HIDE DEF l
    <3> QED BY <1>0, <2>1, <2>2, <2>5, <3>2, <3>3, RowEmptied
  <2> QED BY <1>2, <2>6, <2>7 DEF Delete, Replies
<1>3. del.ok \in BOOLEAN
  BY GoneType, DeleteMeans
<1> QED BY <1>1, <1>2, <1>3

LEMMA ReplaceInv ==
    ASSUME Inv, NEW c \in Checks, Replace(c) PROVE Inv'
<1> DEFINE s == local[c].seen
           n == [s EXCEPT !.failed = @ + 1]
           cas == TryReplace(row, Gone, s, n)
<1>0. c \in Calls /\ ~(row \in Challenge /\ row.code = c)
  BY CheckOwnsNone
<1>a. /\ row' = cas.row
      /\ \/ ~cas.ok /\ Retry(c)
         \/ cas.ok /\ Answer(c, "InvalidOrExpiredCode")
      /\ wrong' = IF cas.ok THEN [wrong EXCEPT ![s.code] = @ + 1] ELSE wrong
      /\ UNCHANGED <<world, password, issued, mailed, redeemed>>
  BY DEF Replace
<1>b. s \in Challenge /\ s.failed + 1 < Attempts
  BY <1>0, LocalOf DEF CallInv, Replace
<1>c. /\ cas.ok \in BOOLEAN
      /\ cas.ok => row = s /\ cas.row = n
      /\ ~cas.ok => cas.row = row
  BY GoneType, CasMeans
<1>d. /\ n \in Challenge /\ n.code = s.code /\ n.failed = s.failed + 1
      /\ s.code \in Requests /\ s.failed \in Nat
  BY <1>b, MissedFields, ChallengeFields
<1> HIDE DEF n, cas
<1>1. CASE ~cas.ok
  BY <1>1, <1>a, <1>c, RetryInv DEF Replace, history
<1>2. CASE cas.ok
  <2>1. /\ row = s /\ row' = n /\ wrong' = [wrong EXCEPT ![s.code] = @ + 1]
        /\ Answer(c, "InvalidOrExpiredCode")
    BY <1>2, <1>a, <1>c
  <2>2. /\ s.code \in issued /\ wrong[s.code] = s.failed
        /\ \A p \in redeemed : p[2] # s.code
    BY <1>b, <2>1 DEF Inv, RowInv
  <2>3. /\ Moves(c, "done", Blank, "InvalidOrExpiredCode")
        /\ CallInv(c, "done", Blank, "InvalidOrExpiredCode")'
    BY <1>0, <2>1, AnswerMoves, AnsweredInv DEF Replies
  <2>4. wrong \in [Requests -> Nat] /\ HistoryInv
    BY DEF Inv, TypeOK
  <2> HIDE DEF s
  <2>5. TypeOK'
    <3>1. CallTypes'
      BY <1>0, <2>3, LocalOf, MovedTo
    <3>2. row' \in Stored /\ wrong' \in [Requests -> Nat]
      BY <1>d, <2>1, <2>2, <2>4, StoredStates
    <3> QED BY <1>a, <3>1, <3>2 DEF Inv, TypeOK, CallTypes, world
  <2>6. wrong'[s.code] = s.failed + 1 /\ \A d \in Requests \ {s.code} : wrong'[d] = wrong[d]
    BY <1>d, <2>1, <2>2, <2>4
  <2>7. RowInv'
    BY <1>a, <1>b, <1>d, <2>1, <2>2, <2>6 DEF RowInv
  <2>8. HistoryInv'
    <3>1. GuessBudget'
      BY <1>b, <1>d, <2>4, <2>6, AttemptsPositive DEF HistoryInv, GuessBudget
    <3>2. \A d \in Requests \ issued' : wrong'[d] = 0
      BY <1>a, <2>2, <2>4, <2>6 DEF HistoryInv
    <3> QED BY <1>a, <2>4, <3>1, <3>2 DEF HistoryInv, RedeemedOnce
  <2>9. CallsInv'
    <3>1. now' = now /\ issued' \subseteq issued \cup {c} /\ row'.failed > 0
      BY <1>a, <1>d, <2>1 DEF world
    <3> QED BY <1>0, <2>3, <3>1, CallsKept
  <2>10. UndeliveredExplained'
    <3>1. /\ standing' = standing /\ mailed \subseteq mailed'
          /\ row \in Challenge /\ row'.code = row.code /\ row'.failed >= row.failed
      BY <1>a, <1>b, <1>d, <2>1 DEF world
    <3> QED BY <1>0, <2>3, <3>1, OwedKept
  <2> QED BY <2>5, <2>7, <2>8, <2>9, <2>10 DEF Inv
<1> QED BY <1>1, <1>2, <1>c

-----------------------------------------------------------------------------
(* The steps of nobody, and the theorems.                                    *)

LEMMA ChangeStandingInv == ASSUME Inv, ChangeStanding PROVE Inv'
<1>1. UNCHANGED <<now, row, password, pc, reply, local, issued, mailed, redeemed, wrong>>
      /\ ~Gone /\ standing' \in AllStandings
  BY ResetConstants DEF ChangeStanding, history
<1>2. TypeOK'
  BY <1>1 DEF Inv, TypeOK
<1>3. RowInv' /\ HistoryInv'
  BY <1>1 DEF Inv, RowInv, HistoryInv, RedeemedOnce, GuessBudget
<1>4. CallsInv'
  BY <1>1 DEF Inv, CallsInv, CallInv, Cooling
<1>5. UndeliveredExplained'
  BY <1>1 DEF Inv, UndeliveredExplained
<1> QED BY <1>2, <1>3, <1>4, <1>5 DEF Inv

LEMMA PurgeInv == ASSUME Inv, Purge PROVE Inv'
<1>1. /\ UNCHANGED <<now, standing, password, pc, reply, local, issued, mailed, redeemed, wrong>>
      /\ row' = NoState
  BY DEF Purge, history, world
<1>2. TypeOK'
  BY <1>1, StoredStates DEF Inv, TypeOK
<1>3. RowInv' /\ HistoryInv' /\ UndeliveredExplained'
  BY <1>1, NoChallenge DEF Inv, RowInv, HistoryInv, RedeemedOnce, GuessBudget,
                           UndeliveredExplained
<1>4. CallsInv'
  BY <1>1, NoChallenge DEF Inv, CallsInv, CallInv, Cooling
<1> QED BY <1>2, <1>3, <1>4 DEF Inv

LEMMA TickInv == ASSUME Inv, Tick PROVE Inv'
<1>1. /\ UNCHANGED <<row, standing, password, pc, reply, local, issued, mailed, redeemed, wrong>>
      /\ now \in 1 .. MaxTime /\ now < MaxTime /\ now' = now + 1
  BY DEF Tick, history, Inv, TypeOK
<1>2. TypeOK'
  BY <1>1, ResetConstants DEF Inv, TypeOK
<1>3. RowInv' /\ HistoryInv' /\ UndeliveredExplained'
  BY <1>1 DEF Inv, RowInv, HistoryInv, RedeemedOnce, GuessBudget, UndeliveredExplained, Gone
<1>4. CallsInv'
  <2> SUFFICES ASSUME NEW c \in Calls
               PROVE  CallInv(c, pc[c], local[c], reply[c])'
    BY DEF CallsInv
  <2>1. CallInv(c, pc[c], local[c], reply[c])
    BY DEF Inv, CallsInv
  <2>2. pc[c] = "requestStore" => local[c].mine.sentAt <= now'
    BY <1>1, <2>1, ResetConstants, ChallengeFields DEF CallInv
  <2> QED BY <1>1, <2>1, <2>2 DEF CallInv, Cooling
<1> QED BY <1>2, <1>3, <1>4 DEF Inv

LEMMA InvInit == Init => Inv
<1> SUFFICES ASSUME Init PROVE Inv
  OBVIOUS
<1>1. row \notin Challenge
  BY DistinctStates DEF Init
<1>2. TypeOK
  BY ResetConstants, BlankType DEF Init, TypeOK, Stored, AllStandings, Labels, Replies
<1>3. RowInv /\ HistoryInv /\ UndeliveredExplained
  BY <1>1, AttemptsPositive DEF Init, RowInv, HistoryInv, RedeemedOnce, GuessBudget,
                                UndeliveredExplained
<1>4. CallsInv
  BY <1>1 DEF Init, CallsInv, CallInv
<1> QED BY <1>2, <1>3, <1>4 DEF Inv

LEMMA InvNext == ASSUME Inv, [Next]_vars PROVE Inv'
<1>1. ASSUME NEW c \in Requests, RequestStart(c) \/ RequestStep(c) PROVE Inv'
  BY <1>1, RequestStartInv, RequestReadInv, RequestDecideInv, RequestStoreInv, RequestSendInv,
     RequestUndoInv DEF RequestStep
<1>2. ASSUME NEW c \in Checks, ValidateStart(c) \/ CheckStep(c) PROVE Inv'
  BY <1>2, ValidateStartInv, ReadInv, DecideInv, DeleteInv, ReplaceInv, SaveInv, InvalidateInv
     DEF CheckStep
<1>3. ASSUME NEW c \in Calls, Abort(c) PROVE Inv'
  BY <1>3, AbortInv
<1>4. CASE UNCHANGED vars
  <2>1. TypeOK'
    BY <1>4 DEF Inv, TypeOK, vars
  <2>2. RowInv' /\ HistoryInv' /\ UndeliveredExplained'
    BY <1>4 DEF Inv, RowInv, HistoryInv, RedeemedOnce, GuessBudget, UndeliveredExplained,
                Gone, vars
  <2>3. CallsInv'
    BY <1>4 DEF Inv, CallsInv, CallInv, Cooling, vars
  <2> QED BY <2>1, <2>2, <2>3 DEF Inv
<1> QED
  BY <1>1, <1>2, <1>3, <1>4, ChangeStandingInv, PurgeInv, TickInv DEF Next, Calls

\* The inductive invariant holds throughout.
THEOREM InvAlways == Spec => []Inv
BY InvInit, InvNext, PTL DEF Spec

\* The variables keep their types: no retry of ValidateResetCodeAsync runs past
\* MaxConcurrencyRetries, and no half-made challenge is stored.
THEOREM TypeCorrect == Spec => []TypeOK
<1>1. Inv => TypeOK BY DEF Inv
<1> QED BY <1>1, InvAlways, PTL

\* Of any number of concurrent confirmations with the same right code,
\* ValidateResetCodeAsync lets one through.
THEOREM RedeemedOnceAlways == Spec => []RedeemedOnce
<1>1. Inv => RedeemedOnce BY DEF Inv, HistoryInv
<1> QED BY <1>1, InvAlways, PTL

\* No interleaving of verifications and confirmations, for any MaxAttempts, gets
\* more answers about one code than the budget allows.
THEOREM GuessBudgetAlways == Spec => []GuessBudget
<1>1. Inv => GuessBudget BY DEF Inv, HistoryInv
<1> QED BY <1>1, InvAlways, PTL

\* A stored code that never left belongs to a request that is sending, was cut
\* off, or failed to discard it for one of the two reasons the property names.
THEOREM UndeliveredAlways == Spec => []UndeliveredExplained
<1>1. Inv => UndeliveredExplained BY DEF Inv
<1> QED BY <1>1, InvAlways, PTL

-----------------------------------------------------------------------------
(* What one step of the whole system may do to the table.  The cooldown and  *)
(* the refinement need no more of a step than this.                          *)

TableRests == UNCHANGED <<row, issued, redeemed, wrong>>

TableIssues(c) ==
    /\ c \notin issued
    /\ row' \in Challenge /\ row'.code = c
    /\ issued' = issued \cup {c}
    /\ row \in Challenge /\ row.expires > now => now - row.sentAt >= Cooldown
    /\ UNCHANGED <<redeemed, wrong>>

TableRetires ==
    /\ row' = NoState
    /\ UNCHANGED <<issued, redeemed, wrong>>

TableMisses ==
    /\ row \in Challenge
    /\ wrong' = [wrong EXCEPT ![row.code] = @ + 1]
    /\ \/ row.failed + 1 < Attempts /\ row' \in Challenge /\ row'.code = row.code
       \/ row.failed + 1 >= Attempts /\ row' = NoState
    /\ UNCHANGED <<issued, redeemed>>

TableRedeems(d) ==
    /\ row \in Challenge
    /\ row' = NoState
    /\ redeemed' = redeemed \cup {<<d, row.code>>}
    /\ UNCHANGED <<issued, wrong>>

TableStep ==
    \/ TableRests
    \/ \E c \in Requests : TableIssues(c)
    \/ TableRetires
    \/ TableMisses
    \/ \E d \in Checks : TableRedeems(d)

LEMMA RequestStoreTable ==
    ASSUME Inv, NEW c \in Requests, RequestStore(c) PROVE TableStep
<1> DEFINE s == local[c].seen
           n == local[c].mine
           cas == TryReplace(row, Gone, s, n)
<1>0. c \in Calls
  BY DEF Calls
<1>1. /\ cas.ok \in BOOLEAN
      /\ cas.ok => row = s /\ cas.row = n
      /\ ~cas.ok => cas.row = row
  BY GoneType, CasMeans
<1>2. CASE ~cas.ok
  BY <1>1, <1>2 DEF RequestStore, TableStep, TableRests
<1>3. CASE cas.ok
  <2>1. row = s /\ row' = n /\ issued' = issued \cup {c} /\ UNCHANGED <<redeemed, wrong>>
    BY <1>1, <1>3 DEF RequestStore
  <2>2. /\ n \in Challenge /\ n.code = c /\ c \notin issued
        /\ n.sentAt <= now /\ ~Cooling(s, n.sentAt) /\ now \in Nat
    BY <1>0, LocalOf DEF CallInv, RequestStore
  <2>3. row \in Challenge /\ row.expires > now => now - row.sentAt >= Cooldown
    <3>1. SUFFICES ASSUME s \in Challenge, s.expires > now
                   PROVE  now - s.sentAt >= Cooldown
      BY <2>1
    <3>2. n.sentAt \in Nat /\ s.sentAt \in Nat /\ s.expires \in Nat /\ Cooldown \in Nat
      BY <2>2, <3>1, ChallengeFields, ResetConstants
    <3>3. s.expires > n.sentAt
      BY <2>2, <3>1, <3>2
    <3>4. ~(n.sentAt - s.sentAt < Cooldown)
      BY <2>2, <3>1, <3>3 DEF Cooling
    <3> QED BY <2>2, <3>2, <3>4
  <2>4. TableIssues(c)
    BY <2>1, <2>2, <2>3 DEF TableIssues
  <2> QED BY <2>4 DEF TableStep
<1> QED BY <1>1, <1>2, <1>3

LEMMA DeleteTable ==
    ASSUME Inv, NEW c \in Checks, Delete(c) PROVE TableStep
<1> DEFINE l == local[c]
           s == l.seen
           del == TryDelete(row, Gone, s)
<1>0. c \in Calls
  BY DEF Calls
<1>1. /\ del.ok \in BOOLEAN
      /\ del.ok => row = s /\ del.row = NoState
      /\ ~del.ok => del.row = row
  BY GoneType, DeleteMeans
<1>2. CASE ~del.ok
  BY <1>1, <1>2 DEF Delete, TableStep, TableRests
<1>3. CASE del.ok
  <2>1. row = s /\ row' = NoState /\ issued' = issued
    BY <1>1, <1>3 DEF Delete
  <2>2. CASE l.verdict = "right" /\ l.standing = "active"
    <3>1. s \in Challenge
      BY <1>0, <2>2, LocalOf DEF CallInv, Delete
    <3>2. TableRedeems(c)
      BY <1>3, <2>1, <2>2, <3>1 DEF Delete, TableRedeems
    <3> QED BY <3>2 DEF TableStep
  <2>3. CASE l.verdict = "lastMiss"
    <3>1. s \in Challenge /\ s.failed + 1 >= Attempts
      BY <1>0, <2>3, LocalOf DEF CallInv, Delete
    <3>2. TableMisses
      BY <1>3, <2>1, <2>3, <3>1 DEF Delete, TableMisses
    <3> QED BY <3>2 DEF TableStep
  <2>4. CASE ~(l.verdict = "right" /\ l.standing = "active") /\ l.verdict # "lastMiss"
    BY <2>1, <2>4 DEF Delete, TableStep, TableRetires
  <2> QED BY <2>2, <2>3, <2>4
<1> QED BY <1>1, <1>2, <1>3

LEMMA ReplaceTable ==
    ASSUME Inv, NEW c \in Checks, Replace(c) PROVE TableStep
<1> DEFINE s == local[c].seen
           n == [s EXCEPT !.failed = @ + 1]
           cas == TryReplace(row, Gone, s, n)
<1>0. c \in Calls
  BY DEF Calls
<1>1. /\ cas.ok \in BOOLEAN
      /\ cas.ok => row = s /\ cas.row = n
      /\ ~cas.ok => cas.row = row
  BY GoneType, CasMeans
<1>2. /\ row' = cas.row
      /\ wrong' = IF cas.ok THEN [wrong EXCEPT ![s.code] = @ + 1] ELSE wrong
      /\ UNCHANGED <<issued, redeemed>>
  BY DEF Replace
<1>3. s \in Challenge /\ s.failed + 1 < Attempts
  BY <1>0, LocalOf DEF CallInv, Replace
<1>4. n \in Challenge /\ n.code = s.code
  BY <1>3, MissedFields
<1> HIDE DEF s, n, cas
<1>5. CASE ~cas.ok
  BY <1>1, <1>2, <1>5 DEF TableStep, TableRests
<1>6. CASE cas.ok
  <2>1. TableMisses
    BY <1>1, <1>2, <1>3, <1>4, <1>6 DEF TableMisses
  <2> QED BY <2>1 DEF TableStep
<1> QED BY <1>1, <1>5, <1>6

LEMMA RequestUndoTable ==
    ASSUME NEW c \in Requests, RequestUndo(c) PROVE TableStep
<1> DEFINE del == TryDelete(row, Gone, local[c].mine)
<1>1. /\ del.ok \in BOOLEAN
      /\ del.ok => del.row = NoState
      /\ ~del.ok => del.row = row
  BY GoneType, DeleteMeans
<1>2. row' = del.row /\ UNCHANGED <<issued, redeemed, wrong>>
  BY DEF RequestUndo, history
<1> HIDE DEF del
<1> QED BY <1>1, <1>2 DEF TableStep, TableRests, TableRetires

LEMMA EveryTableStep == ASSUME Inv, [Next]_vars PROVE TableStep
<1> USE DEF TableStep
<1>1. ASSUME NEW c \in Requests, RequestStart(c) \/ RequestStep(c) PROVE TableStep
  <2>1. CASE RequestStart(c) \/ RequestRead(c) \/ RequestDecide(c) \/ RequestSend(c)
    BY <2>1 DEF RequestStart, RequestRead, RequestDecide, RequestSend, TableRests, history
  <2> QED BY <1>1, <2>1, RequestStoreTable, RequestUndoTable DEF RequestStep
<1>2. ASSUME NEW c \in Checks, ValidateStart(c) \/ CheckStep(c) PROVE TableStep
  <2>1. CASE ValidateStart(c) \/ Read(c) \/ Decide(c) \/ Save(c) \/ Invalidate(c)
    BY <2>1 DEF ValidateStart, Read, Decide, Save, Invalidate, TableRests, history
  <2> QED BY <1>2, <2>1, DeleteTable, ReplaceTable DEF CheckStep
<1>3. ASSUME NEW c \in Calls, Abort(c) PROVE TableStep
  BY <1>3 DEF Abort, TableRests
<1>4. CASE ChangeStanding \/ Tick \/ UNCHANGED vars
  BY <1>4 DEF ChangeStanding, Tick, vars, TableRests, history
<1>5. CASE Purge
  BY <1>5 DEF Purge, TableRetires, history
<1> QED BY <1>1, <1>2, <1>3, <1>4, <1>5 DEF Next, Calls

\* A live challenge is not replaced by another within the cooldown, whatever
\* requests for a code race each other and however long they wait between
\* reading the old challenge and storing theirs.
THEOREM CooldownAlways == Spec => CooldownRespected
<1>1. ASSUME Inv, [Next]_vars,
             row \in Challenge, row' \in Challenge, row'.code # row.code, row.expires > now
      PROVE  now - row.sentAt >= Cooldown
  <2>1. TableStep
    BY <1>1, EveryTableStep
  <2>2. ~TableRests /\ ~TableRetires /\ ~TableMisses /\ \A d \in Checks : ~TableRedeems(d)
    BY <1>1, NoChallenge DEF TableRests, TableRetires, TableMisses, TableRedeems
  <2>3. PICK c \in Requests : TableIssues(c)
    BY <2>1, <2>2 DEF TableStep
  <2> QED BY <1>1, <2>3 DEF TableIssues
<1>2. Inv /\ [Next]_vars =>
        [(row \in Challenge /\ row' \in Challenge /\ row'.code # row.code /\ row.expires > now)
           => now - row.sentAt >= Cooldown]_vars
  BY <1>1
<1> QED BY <1>2, InvAlways, PTL DEF Spec, CooldownRespected

-----------------------------------------------------------------------------
(* PasswordReset implements OneTimeCode.                                     *)

\* The status of one code, before and after a step.
LEMMA StatusOf ==
    ASSUME NEW c \in Requests
    PROVE  /\ status[c] = IF row \in Challenge /\ row.code = c THEN "live"
                          ELSE IF \E d \in Checks : <<d, c>> \in redeemed THEN "spent"
                          ELSE IF c \in issued THEN "dead" ELSE "unissued"
           /\ status'[c] = IF row' \in Challenge /\ row'.code = c THEN "live"
                           ELSE IF \E d \in Checks : <<d, c>> \in redeemed' THEN "spent"
                           ELSE IF c \in issued' THEN "dead" ELSE "unissued"
BY DEF status

LEMMA StatusIsFunction ==
    /\ status = [c \in Requests |-> status[c]]
    /\ status' = [c \in Requests |-> status'[c]]
BY DEF status

LEMMA IssuesRefines ==
    ASSUME Inv, NEW c \in Requests, TableIssues(c) PROVE Promise!Issue(c)
<1>1. c \notin issued /\ row' \in Challenge /\ row'.code = c /\ issued' = issued \cup {c}
      /\ UNCHANGED <<redeemed, wrong>>
  BY DEF TableIssues
<1>2. /\ \A p \in redeemed : p[2] \in issued
      /\ row \in Challenge => row.code \in issued /\ \A p \in redeemed : p[2] # row.code
  BY DEF Inv, HistoryInv, RowInv
<1>3. status[c] = "unissued"
  BY <1>1, <1>2, StatusOf
<1>4. ASSUME NEW d \in Requests
      PROVE  status'[d] = IF d = c THEN "live" ELSE IF status[d] = "live" THEN "dead" ELSE status[d]
  <2>1. CASE d = c
    BY <1>1, <2>1, StatusOf
  <2>2. CASE d # c /\ row \in Challenge /\ row.code = d
    BY <1>1, <1>2, <2>2, StatusOf
  <2>3. CASE d # c /\ ~(row \in Challenge /\ row.code = d)
    BY <1>1, <2>3, StatusOf
  <2> QED BY <2>1, <2>2, <2>3
<1>5. status' = [d \in Requests |-> IF d = c THEN "live"
                                    ELSE IF status[d] = "live" THEN "dead" ELSE status[d]]
  BY <1>4, StatusIsFunction
<1> QED BY <1>1, <1>3, <1>5 DEF Promise!Issue

LEMMA MissesRefines ==
    ASSUME Inv, TableMisses PROVE \E c \in Requests : Promise!Miss(c)
<1> DEFINE c == row.code
<1>1. /\ row \in Challenge /\ wrong' = [wrong EXCEPT ![c] = @ + 1]
      /\ UNCHANGED <<issued, redeemed>>
      /\ \/ row.failed + 1 < Attempts /\ row' \in Challenge /\ row'.code = c
         \/ row.failed + 1 >= Attempts /\ row' = NoState
  BY DEF TableMisses
<1>2. /\ c \in Requests /\ c \in issued /\ wrong[c] = row.failed
      /\ row.failed \in Nat /\ \A p \in redeemed : p[2] # c
  BY <1>1, ChallengeFields DEF Inv, RowInv
<1>3. status[c] = "live"
  BY <1>1, <1>2, StatusOf
<1>4. status'[c] = IF wrong[c] + 1 >= Attempts THEN "dead" ELSE "live"
  <2>1. CASE wrong[c] + 1 >= Attempts
    <3>1. row' = NoState /\ redeemed' = redeemed /\ issued' = issued
      BY <1>1, <1>2, <2>1, AttemptsPositive
    <3>2. ~\E d \in Checks : <<d, c>> \in redeemed'
      BY <1>2, <3>1
    <3> QED BY <1>2, <2>1, <3>1, <3>2, NoChallenge, StatusOf
  <2>2. CASE ~(wrong[c] + 1 >= Attempts)
    <3>1. row' \in Challenge /\ row'.code = c
      BY <1>1, <1>2, <2>2, AttemptsPositive
    <3> QED BY <1>2, <2>2, <3>1, StatusOf
  <2> QED BY <2>1, <2>2
<1>5. ASSUME NEW d \in Requests, d # c PROVE status'[d] = status[d]
  BY <1>1, <1>5, NoChallenge, StatusOf
<1> HIDE DEF c
<1>6. status' = [status EXCEPT ![c] = IF wrong[c] + 1 >= Attempts THEN "dead" ELSE "live"]
  BY <1>2, <1>4, <1>5, StatusIsFunction
<1> QED BY <1>1, <1>2, <1>3, <1>6 DEF Promise!Miss

LEMMA RedeemsRefines ==
    ASSUME Inv, NEW d \in Checks, TableRedeems(d) PROVE \E c \in Requests : Promise!Redeem(c)
<1> DEFINE c == row.code
<1>1. /\ row \in Challenge /\ row' = NoState /\ redeemed' = redeemed \cup {<<d, c>>}
      /\ UNCHANGED <<issued, wrong>>
  BY DEF TableRedeems
<1>2. c \in Requests
  BY <1>1, ChallengeFields
<1>3. status[c] = "live" /\ status'[c] = "spent"
  BY <1>1, <1>2, NoChallenge, StatusOf
<1>4. ASSUME NEW e \in Requests, e # c PROVE status'[e] = status[e]
  BY <1>1, <1>4, NoChallenge, StatusOf
<1> HIDE DEF c
<1>5. status' = [status EXCEPT ![c] = "spent"]
  BY <1>2, <1>3, <1>4, StatusIsFunction
<1> QED BY <1>1, <1>2, <1>3, <1>5 DEF Promise!Redeem

LEMMA RetiresRefines ==
    ASSUME Inv, TableRetires
    PROVE  (\E c \in Requests : Promise!Retire(c)) \/ UNCHANGED <<status, wrong>>
<1>1. row' = NoState /\ UNCHANGED <<issued, redeemed, wrong>>
  BY DEF TableRetires
<1>2. CASE row \notin Challenge
  <2>1. \A c \in Requests : status'[c] = status[c]
    BY <1>1, <1>2, NoChallenge, StatusOf
  <2>2. status' = status
    BY <2>1, StatusIsFunction
  <2> QED BY <1>1, <2>2
<1>3. CASE row \in Challenge
  <2> DEFINE c == row.code
  <2>1. c \in Requests /\ c \in issued /\ \A p \in redeemed : p[2] # c
    BY <1>3, ChallengeFields DEF Inv, RowInv
  <2>2. status[c] = "live" /\ status'[c] = "dead"
    BY <1>1, <1>3, <2>1, NoChallenge, StatusOf
  <2>3. ASSUME NEW e \in Requests, e # c PROVE status'[e] = status[e]
    BY <1>1, <1>3, <2>3, NoChallenge, StatusOf
  <2> HIDE DEF c
  <2>4. status' = [status EXCEPT ![c] = "dead"]
    BY <2>1, <2>2, <2>3, StatusIsFunction
  <2> QED BY <1>1, <2>1, <2>2, <2>4 DEF Promise!Retire
<1> QED BY <1>2, <1>3

\* The service is an implementation of the one-time code: initial states map to
\* initial states, and every step of every call, of the purge and of the clock
\* to an issue, a miss, a redemption, a retirement or a stutter.
THEOREM ImplementsOneTimeCodeAlways == Spec => ImplementsOneTimeCode
<1>1. Init => Promise!Init
  <2> SUFFICES ASSUME Init PROVE Promise!Init
    OBVIOUS
  <2>1. row \notin Challenge
    BY DistinctStates DEF Init
  <2>2. \A c \in Requests : status[c] = "unissued"
    BY <2>1, StatusOf DEF Init
  <2>3. status = [c \in Requests |-> "unissued"]
    BY <2>2, StatusIsFunction
  <2> QED BY <2>3 DEF Init, Promise!Init
<1>2. ASSUME Inv, [Next]_vars PROVE [Promise!Next]_<<status, wrong>>
  <2>1. TableStep
    BY <1>2, EveryTableStep
  <2>2. CASE TableRests
    BY <2>2 DEF TableRests, status
  <2>3. CASE TableRetires \/ TableMisses \/ (\E c \in Requests : TableIssues(c))
                          \/ (\E d \in Checks : TableRedeems(d))
    BY <1>2, <2>3, IssuesRefines, MissesRefines, RedeemsRefines, RetiresRefines DEF Promise!Next
  <2> QED BY <2>1, <2>2, <2>3 DEF TableStep
<1> QED BY <1>1, <1>2, InvAlways, PTL DEF Spec, ImplementsOneTimeCode, Promise!Spec
=============================================================================
