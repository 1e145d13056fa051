-------------------------- MODULE NotificationCount --------------------------
(***************************************************************************)
(* The number of unread notifications beside the bell                      *)
(* (app/hooks/useNotificationPolling.ts): polled, asked for again when a   *)
(* notification is pushed and when the chat is entered, and not asked for  *)
(* during a minute after the service was unavailable.                      *)
(***************************************************************************)
CONSTANTS Users, Nobody

VARIABLES
  user,        \* the account that is signed in (ownerId)
  suspended,   \* the hook is told to keep quiet (maintenance)
  inChat,      \* the route is a chat
  cooling,     \* isNotificationsServiceCoolingDown
  loadedOwner, \* loadedOwnerId: whose number is held
  loads        \* the requests in flight: started by what, for whom, and
               \* whether the effect that started it has not been cleaned up

vars == <<user, suspended, inChat, cooling, loadedOwner, loads>>

Owners == Users \cup {Nobody}
Active(u, s) == u # Nobody /\ ~s
Ask(by, u) == [by |-> by, for |-> u, live |-> TRUE]

Cancelled(ls, by) == {IF d.by \in by THEN [d EXCEPT !.live = FALSE] ELSE d : d \in ls}

\* The cleanup and the new run of the polling effect, for account u, with the
\* hook suspended or not (s) and cooling or not (c).
Polls(u, s, c, ls) ==
  /\ loads' = Cancelled(ls, {"poll"}) \cup (IF Active(u, s) /\ ~c THEN {Ask("poll", u)} ELSE {})
  /\ IF Active(u, s) /\ c THEN UNCHANGED loadedOwner ELSE loadedOwner' = Nobody

Others == {"push", "route"}

\* The account, or what the page wants, changes: every effect runs again.
Changes(u, s) ==
  /\ <<u, s>> # <<user, suspended>>
  /\ user' = u /\ suspended' = s
  /\ Polls(u, s, cooling, Cancelled(loads, Others))
  /\ UNCHANGED <<inChat, cooling>>

\* The effects of the subscription and of the chat route depend on the route.
RouteChanges ==
  /\ inChat' = ~inChat
  /\ loads' = Cancelled(loads, Others)
  /\ UNCHANGED <<user, suspended, cooling, loadedOwner>>

Starts(by) ==
  /\ Active(user, suspended)
  /\ loads' = loads \cup {Ask(by, user)}
  /\ UNCHANGED <<user, suspended, inChat, cooling, loadedOwner>>

\* The interval, and the event that asks for a refresh.
PollTick == ~cooling /\ Starts("poll")
\* A notification is pushed: the subscription outlasts the cooling.
Pushed == Starts("push")
\* A while after the chat has been entered.
ChatEntered == ~cooling /\ inChat /\ Starts("route")

\* The number arrives, or the call fails otherwise than with 503, which counts
\* as zero; the end of the cooling runs the effects again.
Counted(d) ==
  /\ d \in loads
  /\ IF ~d.live
     THEN loads' = loads \ {d} /\ UNCHANGED <<loadedOwner, cooling>>
     ELSE /\ cooling' = FALSE
          /\ IF cooling
             THEN Polls(user, suspended, FALSE, Cancelled(loads \ {d}, Others))
             ELSE loadedOwner' = d.for /\ loads' = loads \ {d}
  /\ UNCHANGED <<user, suspended, inChat>>

\* The service is unavailable: the effects run again, and pause.
Unavailable(d) ==
  /\ d \in loads
  /\ IF ~d.live
     THEN loads' = loads \ {d} /\ UNCHANGED <<loadedOwner, cooling>>
     ELSE /\ cooling' = TRUE
          /\ IF cooling
             THEN loads' = loads \ {d} /\ UNCHANGED loadedOwner
             ELSE Polls(user, suspended, TRUE, Cancelled(loads \ {d}, Others))
  /\ UNCHANGED <<user, suspended, inChat>>

\* A minute later.
CoolingEnds ==
  /\ cooling /\ cooling' = FALSE
  /\ Polls(user, suspended, FALSE, Cancelled(loads, Others))
  /\ UNCHANGED <<user, suspended, inChat>>

-----------------------------------------------------------------------------
Init ==
  /\ user = Nobody /\ suspended = TRUE /\ inChat = FALSE
  /\ cooling = FALSE /\ loadedOwner = Nobody /\ loads = {}

Next ==
  \/ \E u \in Owners, s \in BOOLEAN : Changes(u, s)
  \/ RouteChanges \/ PollTick \/ Pushed \/ ChatEntered \/ CoolingEnds
  \/ \E d \in loads : Counted(d) \/ Unavailable(d)

Spec == Init /\ [][Next]_vars

-----------------------------------------------------------------------------
(* Properties                                                              *)

TypeOK ==
  /\ {user, loadedOwner} \subseteq Owners
  /\ {suspended, inChat, cooling} \subseteq BOOLEAN
  /\ loads \subseteq [by : {"poll"} \cup Others, for : Users, live : BOOLEAN]

\* While the hook polls, the number of the signed-in account has been loaded,
\* or a request that the effect of this account will take is under way: an
\* answer that is dropped, a pause or a change of the account in between never
\* leaves the bell empty with nothing to fill it.
NumberOwed ==
  Active(user, suspended) /\ ~cooling
    => \/ loadedOwner = user
       \/ \E d \in loads : d.live /\ d.by = "poll" /\ d.for = user

=============================================================================
