--------------------------- MODULE ApiClientProofs ---------------------------
(* What ApiClient's run checks on two calls, proved for any number of calls  *)
(* of any kinds: types, that an unsafe call is carried out at most once, that *)
(* its outcome is honest, and that the refresh loop is broken.               *)
EXTENDS ApiClient, TLAPS

-----------------------------------------------------------------------------
(* What the operators on one call's state return.                            *)

Tokens == {"none", "good", "bad"}

CutResults == {"TIMEOUT", "ABORTED", "NETWORK_ERROR"}

Storages == [hint : BOOLEAN, legacy : BOOLEAN, loggedOut : BOOLEAN]

LEMMA CallFields ==
    ASSUME NEW c \in CallType
    PROVE  /\ c.pc \in {"idle", "prime", "fetch", "reply", "pause", "renew", "done"}
           /\ c.kind \in Kinds /\ c.stage \in Stages /\ c.token \in Tokens
           /\ c.cut \in SUBSET {"timeout", "caller"}
           /\ c.reason \in {"none", "timeout", "caller"}
           /\ c.status \in Statuses \cup Errors /\ c.tries \in Nat
BY DEF CallType, Tokens

LEMMA IdleType ==
    ASSUME NEW k \in Kinds
    PROVE  /\ Idle \in CallType /\ Idle.pc = "idle" /\ Idle.kind = "read"
           /\ [Idle EXCEPT !.kind = k] \in CallType
           /\ [Idle EXCEPT !.kind = k].kind = k
BY DEF Idle, CallType, Kinds, Stages, Statuses

LEMMA DoneFields ==
    ASSUME NEW c \in CallType, NEW s \in Statuses \cup Errors
    PROVE  /\ Done(c, s) \in CallType
           /\ Done(c, s).pc = "done" /\ Done(c, s).status = s /\ Done(c, s).kind = c.kind
BY DEF Done, CallType, Stages

\* A move of the program counter, with a new stage.
LEMMA StagedFields ==
    ASSUME NEW c \in CallType, NEW g \in Stages,
           NEW p \in {"prime", "pause", "renew"}
    PROVE  /\ [c EXCEPT !.pc = p, !.stage = g] \in CallType
           /\ [c EXCEPT !.pc = p, !.stage = g].pc = p
           /\ [c EXCEPT !.pc = p, !.stage = g].kind = c.kind
BY DEF CallType

LEMMA WaitingFields ==
    ASSUME NEW c \in CallType, NEW p \in {"prime", "pause", "renew"}
    PROVE  /\ [c EXCEPT !.pc = p] \in CallType
           /\ [c EXCEPT !.pc = p].pc = p /\ [c EXCEPT !.pc = p].kind = c.kind
BY DEF CallType

LEMMA CutResultType ==
    ASSUME NEW c PROVE CutResult(c) \in CutResults
BY DEF CutResult, CutResults

\* fetch() sends one attempt more, or ends a call that was cut before.
LEMMA FetchFields ==
    ASSUME NEW c \in CallType, NEW g \in Stages, NEW t \in Tokens
    PROVE  /\ Fetch(c, g, t) \in CallType
           /\ Fetch(c, g, t).kind = c.kind
           /\ \/ Fetch(c, g, t).pc = "fetch"
              \/ Fetch(c, g, t).pc = "done" /\ Fetch(c, g, t).status \in CutResults
<1>1. CASE c.cut # {}
  <2>1. CutResult(c) \in CutResults /\ CutResult(c) \in Statuses \cup Errors
    BY CutResultType DEF Errors, CutResults
  <2>2. Fetch(c, g, t) = Done(c, CutResult(c))
    BY <1>1 DEF Fetch
  <2> QED BY <2>1, <2>2, DoneFields
<1>2. CASE c.cut = {}
  <2> DEFINE d == [c EXCEPT !.pc = "fetch", !.stage = g, !.token = t, !.tries = @ + 1]
  <2>1. Fetch(c, g, t) = d
    BY <1>2 DEF Fetch
  <2>2. c.tries + 1 \in Nat /\ t \in {"none", "good", "bad"}
    BY CallFields DEF Tokens
  <2>3. d \in CallType
    BY <2>2 DEF CallType
  <2>4. d.pc = "fetch" /\ d.kind = c.kind
    BY DEF CallType
  <2> HIDE DEF d
  <2> QED BY <2>1, <2>3, <2>4
<1> QED BY <1>1, <1>2

\* A call that resolves its token is sent, cut, or waits for the token; only
\* an unsafe one waits.
LEMMA ResolveFields ==
    ASSUME NEW c \in CallType, NEW g \in Stages, xsrf \in Tokens
    PROVE  LET d == ResolveThenFetch(c, g) IN
           /\ d \in CallType
           /\ d.kind = c.kind
           /\ \/ d.pc = "fetch"
              \/ d.pc = "prime"
              \/ d.pc = "done" /\ d.status \in CutResults
<1> DEFINE t == IF isUnsafeMethod(c.kind) THEN xsrf ELSE "none"
<1>1. t \in Tokens
  BY DEF Tokens
<1> DEFINE e == [c EXCEPT !.pc = "prime", !.stage = g]
<1>2. ResolveThenFetch(c, g) = e \/ ResolveThenFetch(c, g) = Fetch(c, g, t)
  BY DEF ResolveThenFetch
<1>3. e \in CallType /\ e.pc = "prime" /\ e.kind = c.kind
  BY StagedFields
<1> HIDE DEF t, e
<1> QED BY <1>1, <1>2, <1>3, FetchFields

\* Where a response leads: an unsafe call ends with the status it got, unless
\* the status was a 401 or a 403.
LEMMA NextOfFields ==
    ASSUME NEW c \in CallType, c.pc = "reply", c.status \in Statuses, storage \in Storages
    PROVE  LET d == NextOf(c) IN
           /\ d \in CallType
           /\ d.kind = c.kind
           /\ \/ d.pc = "pause" /\ ~isUnsafeMethod(c.kind)
              \/ d.pc = "renew" /\ c.status = "unauth" /\ hasLikelyAuthenticatedSession
              \/ d.pc = "prime" /\ c.status = "forbidden"
              \/ d.pc = "done" /\ d.status = c.status
<1> DEFINE repeatable == c.stage = "first" /\ ~isUnsafeMethod(c.kind)
           renewable == c.stage \in {"first", "again"}
<1>1. CASE repeatable /\ c.status = "busy"
  <2> DEFINE d == [c EXCEPT !.pc = "pause"]
  <2>1. NextOf(c) = d
    BY <1>1 DEF NextOf, NextOfIf, isRetryableTransientStatus
  <2>2. d \in CallType /\ d.pc = "pause" /\ d.kind = c.kind
    BY WaitingFields DEF Stages
  <2> HIDE DEF d
  <2> QED BY <1>1, <2>1, <2>2
<1>2. CASE renewable /\ c.status = "unauth" /\ shouldAttemptRefresh(c.kind)
  <2> DEFINE d == [c EXCEPT !.pc = "renew"]
  <2>1. NextOf(c) = d
    BY <1>2 DEF NextOf, NextOfIf, isRetryableTransientStatus
  <2>2. d \in CallType /\ d.pc = "renew" /\ d.kind = c.kind
    BY WaitingFields DEF Stages
  <2> HIDE DEF d
  <2> QED BY <1>2, <2>1, <2>2 DEF shouldAttemptRefresh
<1>3. CASE c.stage # "forced" /\ c.status = "forbidden" /\ mayBeStaleCsrf(c.kind)
  <2> DEFINE d == [c EXCEPT !.pc = "prime", !.stage = "forced"]
  <2>1. NextOf(c) = d
    BY <1>3 DEF NextOf, NextOfIf, isRetryableTransientStatus
  <2>2. d \in CallType /\ d.pc = "prime" /\ d.kind = c.kind
    BY StagedFields DEF Stages
  <2> HIDE DEF d
  <2> QED BY <1>3, <2>1, <2>2
<1>4. CASE /\ ~(repeatable /\ c.status = "busy")
           /\ ~(renewable /\ c.status = "unauth" /\ shouldAttemptRefresh(c.kind))
           /\ ~(c.stage # "forced" /\ c.status = "forbidden" /\ mayBeStaleCsrf(c.kind))
  <2>1. NextOf(c) = Done(c, c.status)
    BY <1>4 DEF NextOf, NextOfIf, isRetryableTransientStatus
  <2> QED BY <2>1, DoneFields
<1> QED BY <1>1, <1>2, <1>3, <1>4

-----------------------------------------------------------------------------
(* The inductive invariant.  What an unsafe call may rely on when it is sent *)
(* again is that no earlier attempt of it is still on its way and that none   *)
(* was carried out, so the invariant ties the call, the wire and the server. *)

\* No attempt of call r is on wire w.
NoneOn(w, r) == \A m \in w : m.r # r

\* Of call r in state c, carried out n times, with w on the wire.
CallInv(r, c, n, w) ==
    /\ c.pc = "idle" => n = 0
    /\ c.pc \notin {"fetch", "done"} => NoneOn(w, r)
    /\ c.pc = "fetch" => \A m \in w : m.r = r => m.try = c.tries
    /\ c.pc = "reply" => c.status \in Statuses
    /\ isUnsafeMethod(c.kind) =>
         /\ n <= 1
         /\ c.pc \in {"prime", "fetch", "pause", "renew"} => n = 0
         /\ ~NoneOn(w, r) => n = 0
         /\ c.pc \in {"reply", "done"} /\ c.status = "ok" => n = 1 /\ NoneOn(w, r)
         /\ c.pc \in {"reply", "done"} /\ c.status \in {"bad", "unauth", "forbidden"} =>
              n = 0 /\ NoneOn(w, r)

CallsInv == \A r \in Requests : CallInv(r, req[r], applied[r], wire)

\* At most one attempt of a call is on its way at any time.
WireInv == \A m, n \in wire : m.r = n.r => m = n

\* Once the old keys are gone, a refresh that may still be refused needs a hint.
RefusalInv ==
    IF storage.legacy THEN refused = 0
    ELSE refused + (IF storage.hint \/ refresh # "none" THEN 1 ELSE 0) <= 1

Inv == TypeOK /\ CallsInv /\ WireInv /\ RefusalInv

-----------------------------------------------------------------------------
(* Steps of the calls.                                                       *)

Messages == [r : Requests, try : Nat, token : Tokens]

LEMMA Typed ==
    ASSUME Inv
    PROVE  /\ req \in [Requests -> CallType] /\ wire \subseteq Messages
           /\ xsrf \in Tokens /\ storage \in Storages /\ applied \in [Requests -> Nat]
           /\ \A r \in Requests : req[r] \in CallType /\ CallInv(r, req[r], applied[r], wire)
BY DEF Inv, TypeOK, Messages, Tokens, Storages, CallsInv

\* What call r may become: sent once more with nothing of it on the wire (and,
\* if unsafe, nothing of it carried out), or a state without a new attempt.
MayBecome(r, c) ==
    /\ c \in CallType
    /\ \/ c.pc = "fetch" /\ NoneOn(wire, r) /\ (isUnsafeMethod(c.kind) => applied[r] = 0)
       \/ c.pc # "fetch" /\ CallInv(r, c, applied[r], wire)

\* The calls in S move, each to a state it may become, and send what that says.
Spread(S) ==
    /\ req' \in [Requests -> CallType]
    /\ \A r \in S : MayBecome(r, req'[r])
    /\ \A r \in Requests \ S : req'[r] = req[r]
    /\ wire' = wire \cup UNION {Sent(r, req'[r]) : r \in S}

LEMMA SentFields ==
    ASSUME NEW r \in Requests, NEW c \in CallType
    PROVE  /\ Sent(r, c) \subseteq Messages
           /\ \A m \in Sent(r, c) : m.r = r /\ m.try = c.tries
           /\ \A m, n \in Sent(r, c) : m = n
           /\ c.pc # "fetch" => Sent(r, c) = {}
BY CallFields DEF Sent, Messages

LEMMA SpreadKeeps ==
    ASSUME Inv, NEW S \in SUBSET Requests, Spread(S)
    PROVE  /\ wire' \subseteq Messages
           /\ WireInv'
           /\ \A r \in Requests : CallInv(r, req'[r], applied[r], wire')
<1>1. /\ req' \in [Requests -> CallType]
      /\ \A r \in S : MayBecome(r, req'[r])
      /\ \A r \in Requests \ S : req'[r] = req[r]
  BY DEF Spread
<1>2. \A m : m \in wire' <=> m \in wire \/ \E r \in S : m \in Sent(r, req'[r])
  BY DEF Spread
<1>3. \A r \in Requests : req'[r] \in CallType
  BY <1>1
<1>4. \A r \in S : \A m \in Sent(r, req'[r]) :
         /\ m \in Messages /\ m.r = r /\ m.try = req'[r].tries
         /\ NoneOn(wire, r)
  <2> TAKE r \in S
  <2>1. CASE req'[r].pc = "fetch"
    BY <1>1, <1>3, <2>1, SentFields DEF MayBecome
  <2>2. CASE req'[r].pc # "fetch"
    BY <1>3, <2>2, SentFields
  <2> QED BY <2>1, <2>2
<1>5. wire' \subseteq Messages
  BY <1>2, <1>4, Typed
<1>6. WireInv'
  <2> SUFFICES ASSUME NEW m \in wire', NEW n \in wire', m.r = n.r PROVE m = n
    BY DEF WireInv
  <2>1. CASE m \in wire /\ n \in wire
    BY <2>1 DEF Inv, WireInv
  <2>2. ASSUME NEW r \in S, m \in Sent(r, req'[r]), n \in wire PROVE FALSE
    BY <1>4, <2>2 DEF NoneOn
  <2>3. ASSUME NEW r \in S, n \in Sent(r, req'[r]), m \in wire PROVE FALSE
    BY <1>4, <2>3 DEF NoneOn
  <2>4. ASSUME NEW r \in S, NEW q \in S, m \in Sent(r, req'[r]), n \in Sent(q, req'[q])
        PROVE  m = n
    BY <1>3, <1>4, <2>4, SentFields
  <2> QED BY <1>2, <2>1, <2>2, <2>3, <2>4
<1>7. ASSUME NEW r \in Requests PROVE CallInv(r, req'[r], applied[r], wire')
  <2>1. CASE req'[r].pc = "fetch" /\ r \in S
    <3>1. /\ NoneOn(wire, r) /\ applied[r] \in Nat
          /\ isUnsafeMethod(req'[r].kind) => applied[r] = 0
      BY <1>1, <2>1, Typed DEF MayBecome
    <3>2. \A m \in wire' : m.r = r => m.try = req'[r].tries
      BY <1>2, <1>4, <3>1 DEF NoneOn
    <3> QED BY <2>1, <3>1, <3>2 DEF CallInv
  <2>2. CASE ~(req'[r].pc = "fetch" /\ r \in S)
    <3>1. CallInv(r, req'[r], applied[r], wire)
      BY <1>1, <2>2, Typed DEF MayBecome
    <3>2. \A m : m.r = r => (m \in wire' <=> m \in wire)
      <4>1. r \in S => Sent(r, req'[r]) = {}
        BY <1>3, <2>2, SentFields
      <4> QED BY <1>2, <1>4, <4>1
    <3>3. NoneOn(wire', r) <=> NoneOn(wire, r)
      BY <3>2 DEF NoneOn
    <3> QED BY <3>1, <3>2, <3>3 DEF CallInv
  <2> QED BY <2>1, <2>2
<1> QED BY <1>5, <1>6, <1>7

\* One call moves.
LEMMA BecomesKeeps ==
    ASSUME Inv, NEW r \in Requests, NEW c, MayBecome(r, c), Becomes(r, c), UNCHANGED applied
    PROVE  /\ req' \in [Requests -> CallType] /\ wire' \subseteq Messages
           /\ CallsInv' /\ WireInv'
<1>1. Spread({r})
  <2>1. req' = [req EXCEPT ![r] = c] /\ wire' = wire \cup Sent(r, c)
    BY DEF Becomes
  <2>2. req' \in [Requests -> CallType] /\ req'[r] = c
    BY <2>1, Typed DEF MayBecome
  <2>3. UNION {Sent(q, req'[q]) : q \in {r}} = Sent(r, c)
    BY <2>2
  <2> QED BY <2>1, <2>2, <2>3, Typed DEF Spread
<1>2. /\ wire' \subseteq Messages /\ WireInv'
      /\ \A q \in Requests : CallInv(q, req'[q], applied[q], wire')
  BY <1>1, SpreadKeeps
<1> QED BY <1>1, <1>2 DEF Spread, CallsInv

\* A call that ends undecided (cut, or its connection lost), and one that goes
\* on to another attempt while nothing of it was carried out or is on its way.
LEMMA EndsOpen ==
    ASSUME Inv, NEW r \in Requests, NEW c \in CallType, c.pc = "done",
           c.status \in {"busy"} \cup Errors,
           c.kind = req[r].kind
    PROVE  MayBecome(r, c)
<1>1. CallInv(r, req[r], applied[r], wire) /\ req[r] \in CallType
  BY Typed
<1> QED BY <1>1 DEF MayBecome, CallInv, Errors

\* A call that sends again, or waits for a token or a refresh, may do so when
\* nothing of it is on its way and, if it is unsafe, nothing was carried out.
LEMMA GoesOn ==
    ASSUME Inv, NEW r \in Requests, NEW c \in CallType, NoneOn(wire, r),
           isUnsafeMethod(c.kind) => applied[r] = 0,
           \/ c.pc \in {"fetch", "prime", "renew"}
           \/ c.pc = "done" /\ c.status \in {"unauth", "forbidden"} \cup CutResults
    PROVE  MayBecome(r, c)
<1>1. applied[r] \in Nat
  BY Typed
<1> QED BY <1>1 DEF MayBecome, CallInv, CutResults

LEMMA StartKeeps ==
    ASSUME Inv, NEW r \in Requests, NEW k \in KindsOf[r], Start(r, k) PROVE Inv'
<1> DEFINE i == [Idle EXCEPT !.kind = k]
           c == ResolveThenFetch(i, "first")
<1>1. i \in CallType
  BY IdleType, ClientConstants
<1>2. xsrf \in Tokens /\ "first" \in Stages
  BY Typed DEF Stages
<1> HIDE DEF i
<1>3. /\ c \in CallType
      /\ \/ c.pc = "fetch"
         \/ c.pc = "prime"
         \/ c.pc = "done" /\ c.status \in CutResults
  BY <1>1, <1>2, ResolveFields
<1>4. Becomes(r, c) /\ UNCHANGED <<refresh, cookie, xsrf, storage, applied, refused>>
  BY DEF Start, i
<1> HIDE DEF c
<1>5. NoneOn(wire, r) /\ applied[r] = 0
  BY Typed DEF CallInv, Start
<1>6. MayBecome(r, c)
  BY <1>3, <1>5, GoesOn
<1>7. req' \in [Requests -> CallType] /\ wire' \subseteq Messages /\ CallsInv' /\ WireInv'
  BY <1>4, <1>6, BecomesKeeps
<1> QED BY <1>4, <1>7 DEF Inv, TypeOK, RefusalInv, Messages, Tokens

LEMMA PrimedKeeps ==
    ASSUME Inv, NEW r \in Requests, Primed(r) PROVE Inv'
<1> DEFINE c == req[r]
<1>1. /\ xsrf' \in Tokens /\ UNCHANGED <<refresh, cookie, storage, applied, refused>>
  BY Typed DEF Primed, Tokens
<1>2. c \in CallType /\ c.stage \in Stages /\ CallInv(r, c, applied[r], wire) /\ c.pc = "prime"
  BY Typed, CallFields DEF Primed
<1>3. NoneOn(wire, r) /\ (isUnsafeMethod(c.kind) => applied[r] = 0)
  BY <1>2 DEF CallInv
<1>4. ASSUME NEW d \in CallType, Becomes(r, d), d.kind = c.kind,
             \/ d.pc = "fetch"
             \/ d.pc = "done" /\ d.status \in {"forbidden"} \cup CutResults
      PROVE  Inv'
  <2>1. MayBecome(r, d)
    BY <1>3, <1>4, GoesOn
  <2>2. req' \in [Requests -> CallType] /\ wire' \subseteq Messages /\ CallsInv' /\ WireInv'
    BY <1>1, <1>4, <2>1, BecomesKeeps
  <2> QED BY <1>1, <2>2 DEF Inv, TypeOK, RefusalInv, Messages, Tokens
<1>5. CASE Becomes(r, Done(c, "ABORTED"))
  <2>1. Done(c, "ABORTED") \in CallType /\ Done(c, "ABORTED").kind = c.kind
        /\ Done(c, "ABORTED").pc = "done" /\ Done(c, "ABORTED").status = "ABORTED"
    BY <1>2, DoneFields DEF Errors
  <2> QED BY <1>4, <1>5, <2>1 DEF CutResults
<1>6. CASE Becomes(r, Done(c, "forbidden"))
  <2>1. Done(c, "forbidden") \in CallType /\ Done(c, "forbidden").kind = c.kind
        /\ Done(c, "forbidden").pc = "done" /\ Done(c, "forbidden").status = "forbidden"
    BY <1>2, DoneFields DEF Statuses
  <2> QED BY <1>4, <1>6, <2>1
<1>7. CASE Becomes(r, Fetch(c, c.stage, xsrf'))
  <2>1. /\ Fetch(c, c.stage, xsrf') \in CallType
        /\ Fetch(c, c.stage, xsrf').kind = c.kind
        /\ \/ Fetch(c, c.stage, xsrf').pc = "fetch"
           \/ /\ Fetch(c, c.stage, xsrf').pc = "done"
              /\ Fetch(c, c.stage, xsrf').status \in CutResults
    BY <1>1, <1>2, FetchFields
  <2> QED BY <1>4, <1>7, <2>1
<1> QED BY <1>5, <1>6, <1>7 DEF Primed

LEMMA ConnectionLostKeeps ==
    ASSUME Inv, NEW r \in Requests, ConnectionLost(r) PROVE Inv'
<1>0. PICK code \in {"CONNECTION_REFUSED", "NETWORK_ERROR"} : Becomes(r, Done(req[r], code))
  BY DEF ConnectionLost
<1> DEFINE c == Done(req[r], code)
<1>1. Becomes(r, c) /\ UNCHANGED <<refresh, cookie, xsrf, storage, applied, refused>>
  BY <1>0 DEF ConnectionLost
<1>2. c \in CallType /\ c.pc = "done" /\ c.status \in Errors /\ c.kind = req[r].kind
  BY Typed, DoneFields DEF Errors
<1> HIDE DEF c
<1>3. MayBecome(r, c)
  BY <1>2, EndsOpen
<1>4. req' \in [Requests -> CallType] /\ wire' \subseteq Messages /\ CallsInv' /\ WireInv'
  BY <1>1, <1>3, BecomesKeeps
<1> QED BY <1>1, <1>4 DEF Inv, TypeOK, RefusalInv, Messages, Tokens

LEMMA ReceiveKeeps ==
    ASSUME Inv, NEW r \in Requests, Receive(r) PROVE Inv'
<1> DEFINE c == req[r]
           d == NextOf(c)
<1>1. /\ Becomes(r, d) /\ UNCHANGED <<cookie, xsrf, storage, applied, refused>>
      /\ refresh' = IF req'[r].pc = "renew" /\ refresh = "none"
                    THEN IF xsrf = "none" THEN "prime" ELSE "sent" ELSE refresh
  BY DEF Receive
<1>2. c \in CallType /\ CallInv(r, c, applied[r], wire) /\ c.pc = "reply" /\ storage \in Storages
  BY Typed DEF Receive
<1>3. c.status \in Statuses /\ NoneOn(wire, r)
  BY <1>2 DEF CallInv
<1>4. /\ d \in CallType /\ d.kind = c.kind
      /\ \/ d.pc = "pause" /\ ~isUnsafeMethod(c.kind)
         \/ d.pc = "renew" /\ c.status = "unauth" /\ hasLikelyAuthenticatedSession
         \/ d.pc = "prime" /\ c.status = "forbidden"
         \/ d.pc = "done" /\ d.status = c.status
  BY <1>2, <1>3, NextOfFields
<1> HIDE DEF d
<1>5. MayBecome(r, d)
  BY <1>2, <1>3, <1>4 DEF MayBecome, CallInv
<1>6. req' \in [Requests -> CallType] /\ wire' \subseteq Messages /\ CallsInv' /\ WireInv'
  BY <1>1, <1>5, BecomesKeeps
<1>7. req'[r] = d
  BY <1>1, Typed DEF Becomes
<1>8. refresh' # refresh => storage.hint \/ storage.legacy
  BY <1>1, <1>4, <1>7 DEF hasLikelyAuthenticatedSession
<1>9. RefusalInv'
  BY <1>1, <1>8 DEF Inv, RefusalInv
<1> QED BY <1>1, <1>6, <1>9 DEF Inv, TypeOK, Messages, Tokens

LEMMA RepeatKeeps ==
    ASSUME Inv, NEW r \in Requests, Repeat(r) PROVE Inv'
<1> DEFINE c == Fetch(req[r], "again", "none")
<1>1. Becomes(r, c) /\ UNCHANGED <<refresh, cookie, xsrf, storage, applied, refused>>
  BY DEF Repeat
<1>2. /\ req[r] \in CallType /\ CallInv(r, req[r], applied[r], wire)
      /\ req[r].pc = "pause"
  BY Typed DEF Repeat
<1>3. /\ c \in CallType /\ c.kind = req[r].kind
      /\ c.pc = "fetch" \/ (c.pc = "done" /\ c.status \in CutResults)
  BY <1>2, FetchFields DEF Stages, Tokens
<1> HIDE DEF c
<1>4. MayBecome(r, c)
  BY <1>2, <1>3, GoesOn, EndsOpen DEF CallInv
<1>5. req' \in [Requests -> CallType] /\ wire' \subseteq Messages /\ CallsInv' /\ WireInv'
  BY <1>1, <1>4, BecomesKeeps
<1> QED BY <1>1, <1>5 DEF Inv, TypeOK, RefusalInv, Messages, Tokens

\* The timer or the caller cuts a call: an attempt on the wire stays there.
LEMMA CutKeeps ==
    ASSUME Inv, NEW r \in Requests, NEW by \in {"timeout", "caller"}, Cut(r, by) PROVE Inv'
<1> DEFINE b == req[r]
           c == [b EXCEPT !.cut = @ \cup {by}, !.reason = IF @ = "none" THEN by ELSE @]
           d == IF c.pc \in {"fetch", "reply"} THEN Done(c, CutResult(c)) ELSE c
<1>1. /\ req' = [req EXCEPT ![r] = d]
      /\ UNCHANGED <<wire, refresh, cookie, xsrf, storage, applied, refused>>
      /\ b.pc \notin {"idle", "done"}
  BY DEF Cut, InFlight
<1>2. b \in CallType /\ CallInv(r, b, applied[r], wire)
  BY Typed
<1>3. c \in CallType /\ c.pc = b.pc /\ c.kind = b.kind /\ c.status = b.status
  BY <1>2 DEF CallType
<1> HIDE DEF c
<1>4. MayBecome(r, d) /\ d \in CallType /\ d.pc # "fetch"
  <2>1. CASE c.pc \in {"fetch", "reply"}
    <3>1. CutResult(c) \in CutResults /\ CutResult(c) \in Statuses \cup Errors
      BY CutResultType DEF Errors, CutResults
    <3>2. /\ d \in CallType /\ d.pc = "done" /\ d.status \in CutResults
          /\ d.kind = b.kind
      BY <1>3, <2>1, <3>1, DoneFields
    <3> HIDE DEF d
    <3> QED BY <3>2, EndsOpen DEF CutResults, Errors
  <2>2. CASE c.pc \notin {"fetch", "reply"}
    <3>1. d = c
      BY <2>2
    <3>2. CallInv(r, c, applied[r], wire)
      BY <1>1, <1>2, <1>3, <2>2 DEF CallInv
    <3> HIDE DEF d
    <3> QED BY <1>3, <2>2, <3>1, <3>2 DEF MayBecome
  <2> QED BY <2>1, <2>2
<1> HIDE DEF d
<1>5. Becomes(r, d)
  BY <1>1, <1>4, SentFields DEF Becomes
<1>6. req' \in [Requests -> CallType] /\ wire' \subseteq Messages /\ CallsInv' /\ WireInv'
  BY <1>1, <1>4, <1>5, BecomesKeeps
<1> QED BY <1>1, <1>6 DEF Inv, TypeOK, RefusalInv, Messages, Tokens

LEMMA VerdictsType ==
    ASSUME NEW k, NEW t, NEW s \in Verdicts(k, t) PROVE s \in Statuses
BY DEF Verdicts, Statuses

\* The server handles an attempt; the call hears of it if it still waits for
\* that attempt, and otherwise it has ended without claiming to know.
LEMMA ServeKeeps ==
    ASSUME Inv, NEW m \in wire, Serve(m) PROVE Inv'
<1> DEFINE r == m.r
           c == req[r]
<1>1. m \in Messages /\ r \in Requests
  BY Typed DEF Messages
<1>2. PICK s \in Verdicts(c.kind, m.token) :
         /\ \/ applied' = [applied EXCEPT ![r] = IF isUnsafeMethod(c.kind) THEN @ + 1 ELSE @]
               /\ s \in {"ok", "busy"}
            \/ s # "ok" /\ UNCHANGED applied
         /\ req' = IF c.pc = "fetch" /\ c.tries = m.try
                   THEN [req EXCEPT ![r].pc = "reply", ![r].status = s] ELSE req
  BY DEF Serve
<1>3. wire' = wire \ {m} /\ UNCHANGED <<refresh, cookie, xsrf, storage, refused>>
  BY DEF Serve
<1>4. s \in Statuses
  BY <1>2, VerdictsType
<1>5. /\ c \in CallType /\ CallInv(r, c, applied[r], wire)
      /\ applied \in [Requests -> Nat] /\ req \in [Requests -> CallType]
  BY <1>1, Typed
<1>6. ~NoneOn(wire, r) /\ NoneOn(wire', r)
  BY <1>3 DEF NoneOn, Inv, WireInv
<1>7. WireInv' /\ wire' \subseteq Messages
  BY <1>3, Typed DEF WireInv, Inv
<1>8. /\ applied' \in [Requests -> Nat]
      /\ \A q \in Requests \ {r} : applied'[q] = applied[q]
      /\ applied'[r] \in {applied[r], applied[r] + 1}
      /\ s = "ok" /\ isUnsafeMethod(c.kind) => applied'[r] = applied[r] + 1
      /\ s \in {"bad", "unauth", "forbidden"} => applied'[r] = applied[r]
  BY <1>1, <1>2, <1>5
<1> DEFINE e == [c EXCEPT !.pc = "reply", !.status = s]
<1>9. e \in CallType /\ e.pc = "reply" /\ e.status = s /\ e.kind = c.kind
  BY <1>4, <1>5 DEF CallType
<1>10. /\ req' \in [Requests -> CallType]
       /\ \A q \in Requests \ {r} : req'[q] = req[q]
       /\ CallInv(r, req'[r], applied'[r], wire')
  <2>1. CASE c.pc = "fetch" /\ c.tries = m.try
    <3>1. req' = [req EXCEPT ![r] = e]
      BY <1>1, <1>2, <1>5, <2>1
    <3> HIDE DEF e, c
    <3>2. isUnsafeMethod(c.kind) => applied[r] = 0
      BY <1>5, <2>1 DEF CallInv
    <3>3. CallInv(r, e, applied'[r], wire')
      BY <1>1, <1>4, <1>5, <1>6, <1>8, <1>9, <3>2 DEF CallInv
    <3> QED BY <1>1, <1>5, <1>9, <3>1, <3>3
  <2>2. CASE ~(c.pc = "fetch" /\ c.tries = m.try)
    <3>1. req' = req
      BY <1>2, <2>2
    <3>2. c.pc = "done"
      BY <1>5, <1>6, <2>2 DEF CallInv
    <3>3. isUnsafeMethod(c.kind) =>
            /\ applied[r] = 0
            /\ c.status \notin {"ok", "bad", "unauth", "forbidden"}
      BY <1>5, <1>6, <3>2 DEF CallInv
    <3>4. CallInv(r, c, applied'[r], wire')
      BY <1>1, <1>5, <1>6, <1>8, <3>2, <3>3 DEF CallInv
    <3> QED BY <1>5, <3>1, <3>4
  <2> QED BY <2>1, <2>2
<1>11. CallsInv'
  <2> SUFFICES ASSUME NEW q \in Requests PROVE CallInv(q, req'[q], applied'[q], wire')
    BY DEF CallsInv
  <2>1. CASE q # r
    <3>1. CallInv(q, req[q], applied[q], wire)
      BY Typed
    <3>2. \A n : n.r = q => (n \in wire' <=> n \in wire)
      BY <1>3, <2>1
    <3>3. NoneOn(wire', q) <=> NoneOn(wire, q)
      BY <3>2 DEF NoneOn
    <3> QED BY <1>8, <1>10, <2>1, <3>1, <3>2, <3>3 DEF CallInv
  <2> QED BY <1>10, <2>1
<1> HIDE DEF e, c, r
<1> QED BY <1>3, <1>7, <1>8, <1>10, <1>11 DEF Inv, TypeOK, RefusalInv, Messages, Tokens

-----------------------------------------------------------------------------
(* The refresh all waiting calls share, and the session around the client.   *)

LEMMA ResumeKeeps ==
    ASSUME Inv, NEW ok \in BOOLEAN, Resume(ok), UNCHANGED applied
    PROVE  /\ req' \in [Requests -> CallType] /\ wire' \subseteq Messages
           /\ CallsInv' /\ WireInv'
<1> DEFINE waiting == {r \in Requests : req[r].pc = "renew"}
           after(c) == IF ok THEN ResolveThenFetch(c, "renewed") ELSE Done(c, "unauth")
<1>1. /\ req' = [r \in Requests |-> IF r \in waiting THEN after(req[r]) ELSE req[r]]
      /\ wire' = wire \cup UNION {Sent(r, req'[r]) : r \in waiting}
  BY DEF Resume
<1>2. ASSUME NEW c \in CallType
      PROVE  /\ after(c) \in CallType /\ after(c).kind = c.kind
             /\ \/ after(c).pc \in {"fetch", "prime"}
                \/ after(c).pc = "done" /\ after(c).status \in {"unauth"} \cup CutResults
  <2>1. CASE ok
    BY <2>1, Typed, ResolveFields DEF Stages
  <2>2. CASE ~ok
    BY <2>2, DoneFields DEF Statuses
  <2> QED BY <2>1, <2>2
<1> HIDE DEF after
<1>3. req' \in [Requests -> CallType]
  BY <1>1, <1>2, Typed
<1>4. ASSUME NEW r \in waiting PROVE MayBecome(r, req'[r])
  <2>1. /\ r \in Requests /\ req[r] \in CallType /\ req'[r] = after(req[r])
        /\ CallInv(r, req[r], applied[r], wire) /\ req[r].pc = "renew"
    BY <1>1, Typed
  <2>2. NoneOn(wire, r) /\ (isUnsafeMethod(req[r].kind) => applied[r] = 0)
    BY <2>1 DEF CallInv
  <2> QED BY <1>2, <2>1, <2>2, GoesOn
<1>5. \A r \in Requests \ waiting : req'[r] = req[r]
  BY <1>1
<1>6. Spread(waiting) /\ waiting \in SUBSET Requests
  BY <1>1, <1>3, <1>4, <1>5 DEF Spread
<1> HIDE DEF waiting
<1>7. /\ wire' \subseteq Messages /\ WireInv'
      /\ \A q \in Requests : CallInv(q, req'[q], applied[q], wire')
  BY <1>6, SpreadKeeps
<1> QED BY <1>3, <1>7 DEF CallsInv

LEMMA RefreshKeeps ==
    ASSUME Inv, RefreshPrimed \/ RefreshOk \/ RefreshRefused \/ RefreshLost PROVE Inv'
<1>1. CASE RefreshPrimed
  BY <1>1 DEF RefreshPrimed, Inv, TypeOK, CallsInv, WireInv, RefusalInv
<1>2. CASE RefreshOk
  <2>1. req' \in [Requests -> CallType] /\ wire' \subseteq Messages /\ CallsInv' /\ WireInv'
    BY <1>2, ResumeKeeps DEF RefreshOk
  <2>2. RefusalInv'
    BY <1>2 DEF RefreshOk, Inv, RefusalInv, TypeOK
  <2> QED BY <1>2, <2>1, <2>2 DEF RefreshOk, Inv, TypeOK, Messages, Tokens
<1>3. CASE RefreshRefused
  <2>1. req' \in [Requests -> CallType] /\ wire' \subseteq Messages /\ CallsInv' /\ WireInv'
    BY <1>3, ResumeKeeps DEF RefreshRefused
  <2>2. /\ storage \in Storages /\ storage' = [storage EXCEPT !.hint = FALSE]
        /\ refused \in Nat /\ refused' = (IF storage.legacy THEN refused ELSE refused + 1)
        /\ refresh = "sent" /\ refresh' = "none" /\ UNCHANGED <<cookie, xsrf, applied>>
    BY <1>3, Typed DEF RefreshRefused, Inv, TypeOK
  <2>3. storage' \in Storages /\ ~storage'.hint /\ storage'.legacy = storage.legacy
    BY <2>2 DEF Storages
  <2>4. RefusalInv'
    BY <2>2, <2>3 DEF Inv, RefusalInv
  <2>5. TypeOK'
    BY <2>1, <2>2, <2>3 DEF Inv, TypeOK, Messages, Tokens, Storages
  <2> QED BY <2>1, <2>4, <2>5 DEF Inv
<1>4. CASE RefreshLost
  <2>1. req' \in [Requests -> CallType] /\ wire' \subseteq Messages /\ CallsInv' /\ WireInv'
    BY <1>4, ResumeKeeps DEF RefreshLost
  <2>2. RefusalInv'
    BY <1>4, ClientConstants DEF RefreshLost, Inv, RefusalInv, TypeOK
  <2> QED BY <1>4, <2>1, <2>2 DEF RefreshLost, Inv, TypeOK, Messages, Tokens
<1> QED BY <1>1, <1>2, <1>3, <1>4

LEMMA SessionKeeps ==
    ASSUME Inv, CookieSet \/ CookieRemoved \/ Expire \/ SignIn \/ CheckConfirms \/ CheckRefused
                \/ SignOut
    PROVE  Inv'
<1> USE DEF CheckRefused, SignOut, clearAuthStorage
<1>1. UNCHANGED <<req, wire, refresh, applied>>
  BY DEF CookieSet, CookieRemoved, Expire, SignIn, CheckConfirms
<1>2. CallsInv' /\ WireInv'
  BY <1>1 DEF Inv, CallsInv, WireInv
<1>3. cookie' \in {"none", "live", "stale"} /\ xsrf' \in {"none", "good", "bad"}
  BY DEF Inv, TypeOK, CookieSet, CookieRemoved, Expire, SignIn, CheckConfirms
<1>4. storage' \in Storages /\ refused' \in Nat /\ RefusalInv'
  <2>0. storage \in Storages /\ refused \in Nat /\ RefusalInv
    BY Typed DEF Inv, TypeOK
  <2>1. CASE UNCHANGED <<storage, refused>>
    BY <1>1, <2>0, <2>1 DEF RefusalInv
  <2>2. CASE SignIn \/ CheckConfirms
    <3>1. storage' \in Storages /\ storage'.hint /\ storage'.legacy = storage.legacy
      BY <2>0, <2>2 DEF SignIn, CheckConfirms, Storages
    <3>2. refused' = 0
      BY <2>2 DEF SignIn, CheckConfirms
    <3>3. refused' \in Nat /\ refused' + 1 <= 1
      BY <3>2
    <3> QED BY <3>1, <3>2, <3>3 DEF RefusalInv
  <2>3. CASE CheckRefused \/ SignOut
    <3>1. storage' \in Storages /\ ~storage'.hint /\ ~storage'.legacy
      <4>1. PICK o \in BOOLEAN : storage' = [hint |-> FALSE, legacy |-> FALSE, loggedOut |-> o]
        <5>1. storage.loggedOut \in BOOLEAN
          BY <2>0 DEF Storages
        <5> QED BY <2>3, <5>1, Zenon
      <4> QED BY <4>1 DEF Storages
    <3>2. refused' = refused
      BY <2>3
    <3> QED BY <1>1, <2>0, <3>1, <3>2 DEF RefusalInv
  <2> QED BY <2>1, <2>2, <2>3 DEF CookieSet, CookieRemoved, Expire
<1>5. TypeOK'
  BY <1>1, <1>3, <1>4 DEF Inv, TypeOK, Storages
<1> QED BY <1>2, <1>4, <1>5 DEF Inv

-----------------------------------------------------------------------------
(* Theorems.                                                                 *)

LEMMA InvInit == Init => Inv
<1> SUFFICES ASSUME Init PROVE Inv
  OBVIOUS
<1>1. Idle \in CallType /\ Idle.pc = "idle" /\ Idle.kind = "read"
  BY IdleType DEF Kinds
<1>2. TypeOK
  BY <1>1, ClientConstants DEF Init, TypeOK
<1>3. CallsInv
  BY <1>1 DEF Init, CallsInv, CallInv, NoneOn, isUnsafeMethod
<1>4. WireInv /\ RefusalInv
  BY DEF Init, WireInv, RefusalInv
<1> QED BY <1>2, <1>3, <1>4 DEF Inv

LEMMA InvNext == ASSUME Inv, [Next]_vars PROVE Inv'
<1>1. CASE UNCHANGED vars
  BY <1>1 DEF vars, Inv, TypeOK, CallsInv, WireInv, RefusalInv
<1>2. ASSUME NEW r \in Requests, Timeout(r) \/ CallerAborts(r) PROVE Inv'
  BY <1>2, CutKeeps DEF Timeout, CallerAborts
<1> QED
  BY <1>1, <1>2, StartKeeps, PrimedKeeps, ConnectionLostKeeps, ReceiveKeeps, RepeatKeeps,
     ServeKeeps, RefreshKeeps, SessionKeeps DEF Next

\* The inductive invariant holds throughout.
THEOREM InvAlways == Spec => []Inv
BY InvInit, InvNext, PTL DEF Spec

\* Every variable keeps its type, for any number of calls of any kinds.
THEOREM TypeCorrect == Spec => []TypeOK
<1>1. Inv => TypeOK BY DEF Inv
<1> QED BY <1>1, InvAlways, PTL

\* However apiRequest repeats a call, the server carries an unsafe one out at
\* most once.
THEOREM AppliedOnceAlways == Spec => []AppliedOnce
<1>1. Inv => AppliedOnce
  BY DEF Inv, CallsInv, CallInv, AppliedOnce
<1> QED BY <1>1, InvAlways, PTL

\* An unsafe call that reports success was carried out, and one that reports a
\* 400, 401 or 403 was not, whatever was repeated, cut or lost on the way.
THEOREM OutcomeHonestAlways == Spec => []OutcomeHonest
<1>1. Inv => OutcomeHonest
  BY DEF Inv, CallsInv, CallInv, OutcomeHonest
<1> QED BY <1>1, InvAlways, PTL

\* Without keys of an old version, at most one refresh is refused from one
\* raising of the session hint to the next.
THEOREM RefusalBudgetAlways == Spec => []RefusalBudget
<1>1. Inv => RefusalBudget
  BY ClientConstants DEF Inv, TypeOK, RefusalInv, RefusalBudget
<1> QED BY <1>1, InvAlways, PTL
=============================================================================
