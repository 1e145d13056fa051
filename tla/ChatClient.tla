----------------------------- MODULE ChatClient -----------------------------
(***************************************************************************)
(* The realtime chat service of the web client (services/chatService.ts)   *)
(* and the hook that connects it to the signed-in account                  *)
(* (app/hooks/useChatConnection.ts).  connect and disconnect only change   *)
(* what is asked for; the work is queued, one transition after the other.  *)
(* A transition runs to its first await before any other event is handled, *)
(* so a transition that has not begun keeps everything else waiting.       *)
(***************************************************************************)
EXTENDS Naturals, Sequences

CONSTANTS Users,      \* the accounts used in this browser
          Nobody,     \* no account
          MaxQueue    \* bound on the transitions that are queued

VARIABLES
  user,        \* the account the page shows as signed in
  session,     \* external: the account of the browser's session cookie
  imported,    \* the chat module has been loaded
  requested,   \* requestedUserId
  current,     \* currentUserId
  lastKnown,   \* lastKnownUserId
  intentional, \* intentionalDisconnect
  connection,  \* the hub connection: its state, the account it was made for, the
               \* account the server took from the cookie in the handshake, and
               \* what put the two at risk of being different
  attempt,     \* reconnectAttempt
  timer,       \* the account the reconnect timer will connect
  queue,       \* connectionTransition: the transitions not yet over
  sending,     \* the account whose message the hub has been asked to send
  exchange,    \* history: the last message sent or delivered: the account the
               \* service acted for, the one the page showed, the one the server
               \* took it for, and the risk of these being different
  abandoned    \* history: the last connect failed and nobody waits to retry it

vars == <<user, session, imported, requested, current, lastKnown, intentional, connection,
          attempt, timer, queue, sending, exchange, abandoned>>

Owners == Users \cup {Nobody}
NoConnection == [of |-> Nobody, as |-> Nobody, risk |-> "none", state |-> "none"]
NoExchange == [for |-> Nobody, page |-> Nobody, server |-> Nobody, risk |-> "none"]

\* The cookie may be of another account before the page knows: LoginPage awaits
\* getCurrentUser between the login and setSession, and other tabs share it.
CookieRisk == IF session = user THEN "none" ELSE "cookie"
MaxAttempts == 5

-----------------------------------------------------------------------------
(* The queue of transitions                                                *)

Transition(kind, u, timed) == [kind |-> kind, user |-> u, timed |-> timed, at |-> "queued"]
Running == queue[1]
AtHead(kind, at) == queue # << >> /\ Running.kind = kind /\ Running.at = at

\* Anything that is not the queue's own next step waits for it.
Quiet == queue # << >> => Running.at # "queued"

\* connect: who is asked for changes at once, the work is queued.
Connects(u, timed) ==
  /\ timer' = IF requested = u THEN timer ELSE Nobody
  /\ requested' = u
  /\ queue' = Append(queue, Transition("connect", u, timed))

Disconnects ==
  /\ requested' = Nobody
  /\ intentional' = TRUE
  /\ timer' = Nobody
  /\ queue' = Append(queue, Transition("disconnect", Nobody, FALSE))

-----------------------------------------------------------------------------
(* useChatConnection                                                       *)

\* The account changes while the handshake of a connection is under way.
Switches ==
  connection' = IF connection.state = "connecting" /\ connection.as = Nobody
                THEN [connection EXCEPT !.risk = "switch"] ELSE connection

\* The effect of a sign-in.  The first one loads the module; later its promise
\* is settled and connect follows at once.
SignIn(u) ==
  /\ Quiet /\ Len(queue) < MaxQueue
  /\ user # u /\ user' = u
  /\ IF imported THEN Connects(u, FALSE) ELSE UNCHANGED <<timer, requested, queue>>
  /\ Switches
  /\ UNCHANGED <<session, imported, current, lastKnown, intentional, attempt,
                 sending, exchange, abandoned>>

\* The module has arrived, for the account that is signed in by now: the
\* effect of an earlier one is disposed of.
Imported ==
  /\ Quiet /\ ~imported /\ user # Nobody
  /\ imported' = TRUE
  /\ Connects(user, FALSE)
  /\ UNCHANGED <<user, session, current, lastKnown, intentional, connection, attempt,
                 sending, exchange, abandoned>>

SignOut ==
  /\ Quiet /\ Len(queue) < MaxQueue
  /\ user # Nobody /\ user' = Nobody
  /\ IF imported THEN Disconnects ELSE UNCHANGED <<timer, requested, queue, intentional>>
  /\ Switches
  /\ UNCHANGED <<session, imported, current, lastKnown, attempt,
                 sending, exchange, abandoned>>

\* The cookie changes: a sign-in or sign-out of which the page is yet to hear,
\* here or in another tab.
SessionChanges(u) ==
  /\ session # u /\ session' = u
  /\ UNCHANGED <<user, imported, requested, current, lastKnown, intentional, connection,
                 attempt, timer, queue, sending, exchange, abandoned>>

-----------------------------------------------------------------------------
(* connectInternal and disconnectInternal                                  *)

\* Bug: a failed retry is not followed by another.
ScheduleReconnect_once(known) == timer' = Nobody /\ UNCHANGED attempt

\* scheduleReconnect: the timer that was running is cleared in any case.
ScheduleReconnect(known) ==
  LET again == ~intentional /\ attempt < MaxAttempts /\ known # Nobody /\ requested = known
  IN  /\ timer' = IF again THEN known ELSE Nobody
      /\ attempt' = IF again THEN attempt + 1 ELSE attempt

\* The connection is taken out of service before it is stopped.
Detach ==
  /\ intentional' = TRUE
  /\ timer' = Nobody
  /\ connection' = NoConnection
  /\ current' = Nobody /\ lastKnown' = Nobody

NewConnection(u) ==
  /\ current' = u /\ lastKnown' = u
  /\ intentional' = FALSE
  /\ connection' = [of |-> u, as |-> Nobody, risk |-> "none", state |-> "connecting"]
  /\ abandoned' = FALSE
  /\ queue' = [queue EXCEPT ![1].at = "starting"]

\* The first transition is over: its promise is settled.
Over == queue' = Tail(queue)

\* ... or rejected: only the reconnect timer handles that by trying again.
Rejected(known) ==
  /\ Over
  /\ IF Running.timed THEN ScheduleReconnect(known) ELSE UNCHANGED <<timer, attempt>>
  /\ abandoned' = (abandoned \/ ~Running.timed \/ known = Nobody)

ConnectBegins ==
  /\ AtHead("connect", "queued")
  /\ CASE requested # Running.user \/ (connection # NoConnection /\ current = Running.user) ->
            /\ Over
            /\ UNCHANGED <<current, lastKnown, intentional, connection, timer, abandoned>>
       [] requested = Running.user /\ connection # NoConnection /\ current # Running.user ->
            /\ Detach
            /\ queue' = [queue EXCEPT ![1].at = "stopping"]
            /\ UNCHANGED abandoned
       [] OTHER -> NewConnection(Running.user) /\ UNCHANGED timer
  /\ UNCHANGED <<user, session, imported, requested, attempt, sending, exchange>>

PreviousStopped(ok) ==
  /\ AtHead("connect", "stopping")
  /\ CASE ~ok ->
            /\ Rejected(lastKnown)
            /\ UNCHANGED <<current, lastKnown, intentional, connection>>
       [] ok /\ requested # Running.user ->
            /\ Over
            /\ UNCHANGED <<current, lastKnown, intentional, connection, timer, attempt, abandoned>>
       [] OTHER -> NewConnection(Running.user) /\ UNCHANGED <<timer, attempt>>
  /\ UNCHANGED <<user, session, imported, requested, sending, exchange>>

\* The handshake: the server takes the account from the cookie.
Negotiated ==
  /\ AtHead("connect", "starting")
  /\ connection.as = Nobody /\ session # Nobody
  /\ connection' = [connection EXCEPT !.as = session,
                      !.risk = IF session = user THEN @ ELSE "cookie"]
  /\ UNCHANGED <<user, session, imported, requested, current, lastKnown, intentional,
                 attempt, timer, queue, sending, exchange, abandoned>>

Started(ok) ==
  /\ AtHead("connect", "starting")
  /\ ok => connection.as # Nobody
  /\ IF ok
     THEN /\ Over
          /\ connection' = [connection EXCEPT !.state = "connected"]
          /\ attempt' = IF requested = Running.user THEN 0 ELSE attempt
          /\ UNCHANGED <<current, timer, abandoned>>
     ELSE /\ connection' = NoConnection /\ current' = Nobody
          /\ Rejected(lastKnown)
  /\ UNCHANGED <<user, session, imported, requested, lastKnown, intentional, sending, exchange>>

DisconnectBegins ==
  /\ AtHead("disconnect", "queued")
  /\ Detach
  /\ IF connection = NoConnection THEN Over ELSE queue' = [queue EXCEPT ![1].at = "stopping"]
  /\ UNCHANGED <<user, session, imported, requested, attempt, sending, exchange, abandoned>>

Disconnected ==
  /\ AtHead("disconnect", "stopping")
  /\ Over
  /\ UNCHANGED <<user, session, imported, requested, current, lastKnown, intentional, connection,
                 attempt, timer, sending, exchange, abandoned>>

-----------------------------------------------------------------------------
(* What the connection does by itself                                      *)

\* SignalR reconnects automatically for a while, with a new handshake ...
Interrupted ==
  /\ Quiet /\ connection.state = "connected"
  /\ connection' = [connection EXCEPT !.state = "reconnecting"]
  /\ UNCHANGED <<user, session, imported, requested, current, lastKnown, intentional, attempt,
                 timer, queue, sending, exchange, abandoned>>

Reconnected ==
  /\ Quiet /\ connection.state = "reconnecting" /\ session # Nobody
  /\ connection' = [connection EXCEPT !.state = "connected", !.as = session,
                                      !.risk = CookieRisk]
  /\ UNCHANGED <<user, session, imported, requested, current, lastKnown, intentional, attempt,
                 timer, queue, sending, exchange, abandoned>>

\* ... and then closes: onclose.
Closed ==
  /\ Quiet /\ connection.state \in {"connected", "reconnecting"}
  /\ connection' = NoConnection /\ current' = Nobody
  /\ IF intentional THEN UNCHANGED <<timer, attempt>> ELSE ScheduleReconnect(lastKnown)
  /\ UNCHANGED <<user, session, imported, requested, lastKnown, intentional, queue, sending,
                 exchange, abandoned>>

TimerFires ==
  /\ Quiet /\ timer # Nobody /\ Len(queue) < MaxQueue
  /\ IF intentional \/ requested # timer
     THEN timer' = Nobody /\ UNCHANGED <<requested, queue>>
     ELSE /\ requested' = timer /\ timer' = Nobody
          /\ queue' = Append(queue, Transition("connect", timer, TRUE))
  /\ UNCHANGED <<user, session, imported, current, lastKnown, intentional, connection, attempt,
                 sending, exchange, abandoned>>

isActiveConnection == current = connection.of /\ requested = connection.of

Exchanged(u, server, risk) == [for |-> u, page |-> user, server |-> server, risk |-> risk]

\* A message, notification or read receipt arrives over the connection.
Pushed ==
  /\ Quiet /\ connection.state = "connected" /\ isActiveConnection
  /\ exchange' = Exchanged(connection.of, connection.as, connection.risk)
  /\ UNCHANGED <<user, session, imported, requested, current, lastKnown, intentional, connection,
                 attempt, timer, queue, sending, abandoned>>

-----------------------------------------------------------------------------
(* sendMessage: the hub while it is connected, the REST API otherwise.     *)

CanSend == current # Nobody /\ current = requested

\* A call of the REST API for account u, unless the server turns it away.
Posts(u) ==
  exchange' = IF session = Nobody THEN exchange ELSE Exchanged(u, session, CookieRisk)

Send ==
  /\ Quiet /\ CanSend /\ sending = Nobody
  /\ IF connection.state = "connected"
     THEN /\ sending' = current
          /\ exchange' = Exchanged(current, connection.as, connection.risk)
     ELSE Posts(current) /\ UNCHANGED sending
  /\ UNCHANGED <<user, session, imported, requested, current, lastKnown, intentional,
                 connection, attempt, timer, queue, abandoned>>

Invoked ==
  /\ Quiet /\ sending # Nobody
  /\ sending' = Nobody
  /\ UNCHANGED <<user, session, imported, requested, current, lastKnown, intentional,
                 connection, attempt, timer, queue, exchange, abandoned>>

\* Bug: the fallback does not ask whether the account is still the same.
SameAccount_any == user # Nobody

SameAccount == current = sending /\ requested = sending

InvokeFails ==
  /\ Quiet /\ sending # Nobody
  /\ sending' = Nobody
  /\ IF SameAccount THEN Posts(sending) ELSE UNCHANGED exchange
  /\ UNCHANGED <<user, session, imported, requested, current, lastKnown, intentional,
                 connection, attempt, timer, queue, abandoned>>

-----------------------------------------------------------------------------
Init ==
  /\ user = Nobody /\ session = Nobody /\ imported = FALSE
  /\ requested = Nobody /\ current = Nobody /\ lastKnown = Nobody
  /\ intentional = FALSE /\ connection = NoConnection
  /\ attempt = 0 /\ timer = Nobody /\ queue = << >>
  /\ sending = Nobody /\ exchange = NoExchange /\ abandoned = FALSE

Next ==
  \/ \E u \in Users : SignIn(u)
  \/ \E u \in Owners : SessionChanges(u)
  \/ Imported \/ SignOut
  \/ ConnectBegins \/ DisconnectBegins \/ Disconnected
  \/ \E ok \in BOOLEAN : PreviousStopped(ok) \/ Started(ok)
  \/ Negotiated \/ Interrupted \/ Reconnected \/ Closed \/ TimerFires \/ Pushed
  \/ Send \/ Invoked \/ InvokeFails

Spec == Init /\ [][Next]_vars

-----------------------------------------------------------------------------
(* Properties                                                              *)

Risks == {"none", "cookie", "switch"}

TypeOK ==
  /\ {user, session, requested, current, lastKnown, timer, sending} \subseteq Owners
  /\ {imported, intentional, abandoned} \subseteq BOOLEAN
  /\ connection \in {NoConnection} \cup
       [of : Users, as : Owners, risk : Risks, state : {"connecting", "connected", "reconnecting"}]
  /\ attempt \in 0..MaxAttempts
  /\ queue \in Seq([kind : {"connect", "disconnect"}, user : Owners, timed : BOOLEAN,
                    at : {"queued", "stopping", "starting"}])
  /\ exchange \in [for : Owners, page : Owners, server : Owners, risk : Risks]

\* What is sent and what is delivered is for the account the page shows at
\* that moment, although accounts change while transitions and sends are under
\* way.  The server takes it for the same account, unless the cookie was of
\* another one when the call or the handshake was made, or the account changed
\* during the handshake.
SentAsSender ==
  /\ exchange.for = exchange.page
  /\ exchange.risk = "none" => exchange.server = exchange.for

\* After a sign-out that has run its course there is neither a connection nor
\* a timer that would make one.
LoggedOutQuiet ==
  requested = Nobody /\ queue = << >> => connection = NoConnection /\ timer = Nobody

\* While an account asks for the chat there is a connection, a transition or a
\* timer, unless every attempt is used up or nobody retries the last failure.
ConnectionOwed ==
  requested # Nobody /\ queue = << >> /\ connection = NoConnection /\ timer = Nobody
    => attempt = MaxAttempts \/ abandoned

=============================================================================
