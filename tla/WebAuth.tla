------------------------------- MODULE WebAuth -------------------------------
(***************************************************************************)
(* The authentication provider of the web client, in several tabs of one   *)
(* browser (contexts/useAuthProviderController.ts, useAuthEventSync.ts,    *)
(* authActions.ts).  The tabs share localStorage and the session cookie;   *)
(* a storage event tells the other tabs that localStorage changed, and     *)
(* each answers with checkAuth, which asks GET /auth/me and applies the    *)
(* answer if no later check, logout or guest entry has begun since.        *)
(***************************************************************************)
EXTENDS Naturals, FiniteSets

CONSTANTS Tabs,      \* the open tabs
          MaxActs    \* bound on what visitor and server do of their own accord

ASSUME WebAuthConstants == IsFiniteSet(Tabs) /\ MaxActs \in Nat

VARIABLES
  tab,        \* React state of each tab: what it shows, loading, initialised
  checks,     \* the check under way in each tab that is the latest run, if any
  signin,     \* the login or sign-up under way in each tab
  leaving,    \* the logout request of each tab, and what waits for it
  refresh,    \* tabs whose token refresh was refused, not yet handled
  store,      \* localStorage: logout flag, session hint, guest flag
  event,      \* tabs with a storage event to handle
  session,    \* TRUE while the cookie is one the server accepts
  acts,       \* how many acts there have been
  loggedOut   \* history: the tabs logged out in since the last way back in

vars == <<tab, checks, signin, leaving, refresh, store, event, session, acts,
          loggedOut>>

-----------------------------------------------------------------------------
(* localStorage                                                            *)

\* Bug: the session hint is not among the keys that are removed.
clearAuthStorage_keepsHint(s) == [s EXCEPT !.guest = FALSE]

\* clearAuthStorage: everything but the logout flag.
clearAuthStorage(s) == [s EXCEPT !.hint = FALSE, !.guest = FALSE]

\* A tab writes while handling the events in e; the browser tells the other
\* tabs, unless nothing changed.
WriteOn(t, s, e) ==
  /\ store' = s
  /\ event' = (event \ e) \cup
       (IF s = store THEN {} ELSE {u \in Tabs \ {t} : tab[u].mounted})

Write(t, s) == WriteOn(t, s, {})

-----------------------------------------------------------------------------
(* checkAuth                                                               *)

\* Bug: the state is set from a field that is not there.
Shows_undefined(t, what) == [tab[t] EXCEPT !.shown = "undefined"]

Shows(t, what) == [tab[t] EXCEPT !.shown = what]

\* Bug: the check ends without setLoading(false).
Checked_keepsLoading(x) == [x EXCEPT !.ready = TRUE]

Checked(x) == [x EXCEPT !.loading = FALSE, !.ready = TRUE]

NoCheck == [told |-> "no check", guest |-> FALSE, second |-> FALSE]

\* Bug: the run id is not raised.
Outdated_not(c) == c

\* The run id is raised: the check under way, if any, is not the latest run
\* any more and will return without effect (isLatestRun), so it is dropped.
Outdated(c) == NoCheck

\* The synchronous part of checkAuth in tab t, whose state is x, while handling
\* the events in e.  The redirect that ends a Google sign-in is recognised
\* first: it drops the logout flag and sets the hint.
CheckAuth(t, x, e) ==
  LET s == IF x.oauth THEN [store EXCEPT !.logout = FALSE, !.hint = TRUE] ELSE store
      y == [x EXCEPT !.oauth = FALSE]
      asks == ~s.logout /\ (x.shown = "in" \/ s.hint)
      guest == ~s.logout /\ s.guest
      run == [told |-> "nothing", guest |-> s.guest, second |-> FALSE]
  IN /\ WriteOn(t, IF asks \/ guest THEN s ELSE clearAuthStorage(s), e)
     /\ loggedOut' = IF x.oauth THEN {} ELSE loggedOut
     /\ checks' = [checks EXCEPT ![t] = IF asks THEN run ELSE Outdated(@)]
     /\ tab' = [tab EXCEPT ![t] =
          CASE asks -> [y EXCEPT !.loading = @ \/ ~y.ready]
            [] ~asks /\ guest -> Checked([y EXCEPT !.shown = "guest"])
            [] OTHER -> Checked([y EXCEPT !.shown = "out"])]

\* GET /auth/me is answered: by the session's user, by a refusal, or not at
\* all.  A 5xx or 429 whose text isRetryableAuthError does not know counts as
\* a refusal.
MeAnswers == (IF session THEN {"success"} ELSE {"auth_error"})
             \cup {"network_error", "auth_error"}

Told(t, answer) ==
  /\ checks[t].told = "nothing"
  /\ answer \in MeAnswers
  /\ checks' = [checks EXCEPT ![t].told = answer]
  /\ UNCHANGED <<tab, signin, leaving, refresh, store, event, session, acts,
                 loggedOut>>

\* A network failure is asked again, once, after a pause.
AskAgain(t) ==
  /\ checks[t].told = "network_error" /\ ~checks[t].second
  /\ checks' = [checks EXCEPT ![t].told = "nothing", ![t].second = TRUE]
  /\ UNCHANGED <<tab, signin, leaving, refresh, store, event, session, acts,
                 loggedOut>>

\* The rest of checkAuth, after its last await.
Apply(t) ==
  LET c == checks[t] IN
  /\ c.told \in {"success", "auth_error"} \/ (c.told = "network_error" /\ c.second)
  /\ checks' = [checks EXCEPT ![t] = NoCheck]
  /\ CASE c.told = "success" ->
            /\ Write(t, [store EXCEPT !.hint = TRUE, !.guest = @ /\ ~c.guest])
            /\ tab' = [tab EXCEPT ![t] = Checked(Shows(t, "in"))]
       [] c.told # "success" /\ c.guest ->
            /\ tab' = [tab EXCEPT ![t] = Checked(Shows(t, "guest"))]
            /\ UNCHANGED <<store, event>>
       [] c.told = "auth_error" /\ ~c.guest ->
            /\ Write(t, clearAuthStorage(store))
            /\ tab' = [tab EXCEPT ![t] = Checked(Shows(t, "out"))]
       [] OTHER ->
            /\ tab' = [tab EXCEPT ![t] = Checked(@)]
            /\ UNCHANGED <<store, event>>
  /\ UNCHANGED <<signin, leaving, refresh, session, acts, loggedOut>>

-----------------------------------------------------------------------------
(* What makes a tab check                                                  *)

Act == acts < MaxActs /\ acts' = acts + 1

\* Bug: the storage event of the logout flag is not listened to.
HandledKeysChanged_notLogout(t) == t \in event /\ ~store.logout

\* One of the keys of handleStorageChange was changed by another tab.
HandledKeysChanged(t) == t \in event

StorageEvent(t) ==
  /\ HandledKeysChanged(t)
  /\ CheckAuth(t, tab[t], {t})
  /\ UNCHANGED <<signin, leaving, refresh, session, acts>>

\* Focus, visibility (throttled), coming back online, authSessionChanged.
Revalidate(t) ==
  /\ Act
  /\ tab[t].mounted
  /\ CheckAuth(t, tab[t], {})
  /\ UNCHANGED <<signin, leaving, refresh, session>>

Blank == [shown |-> "out", loading |-> TRUE, ready |-> FALSE, mounted |-> FALSE,
          oauth |-> FALSE]

\* The page is loaded afresh: React state and every await of the old page are
\* gone, localStorage and the cookie stay.
LoadPage(t, x) ==
  /\ Act
  /\ tab' = [tab EXCEPT ![t] = x]
  /\ checks' = [checks EXCEPT ![t] = NoCheck]
  /\ signin' = [signin EXCEPT ![t] = "none"]
  /\ leaving' = [leaving EXCEPT ![t] = "none"]
  /\ refresh' = refresh \ {t}
  /\ event' = event \ {t}
  /\ UNCHANGED <<store, loggedOut>>

Reload(t) == LoadPage(t, Blank) /\ UNCHANGED session

\* The backend redirects here at the end of a Google sign-in.
OAuthReturn(t) == LoadPage(t, [Blank EXCEPT !.oauth = TRUE]) /\ session' = TRUE

\* The provider's initial effect, once per page.
Mount(t) ==
  /\ ~tab[t].mounted
  /\ CheckAuth(t, [tab[t] EXCEPT !.mounted = TRUE], {})
  /\ UNCHANGED <<signin, leaving, refresh, session, acts>>

-----------------------------------------------------------------------------
(* login, register and setSession                                          *)

\* The routes, and with them every form, are only there once loading is over.
LoginSubmit(t) ==
  /\ Act
  /\ ~tab[t].loading /\ signin[t] = "none"
  /\ signin' = [signin EXCEPT ![t] = "ask"]
  /\ UNCHANGED <<tab, checks, leaving, refresh, store, event, session, loggedOut>>

\* POST /auth/login or /auth/signup: the cookie is set, with or without the
\* names that make hydration unnecessary; or refused, or lost.
LoginAnswered(t) ==
  /\ signin[t] = "ask"
  /\ \/ /\ session' = TRUE
        /\ signin' \in {[signin EXCEPT ![t] = x] : x \in {"complete", "partial"}}
     \/ /\ session' \in {session, TRUE}
        /\ signin' = [signin EXCEPT ![t] = "none"]
  /\ UNCHANGED <<tab, checks, leaving, refresh, store, event, acts, loggedOut>>

persistAuthenticatedSession(t) ==
  /\ Write(t, [logout |-> FALSE, hint |-> TRUE, guest |-> FALSE])
  /\ tab' = [tab EXCEPT ![t] = Shows(t, "in")]
  /\ signin' = [signin EXCEPT ![t] = "none"]
  /\ loggedOut' = {}

LoginDone(t) ==
  /\ signin[t] = "complete"
  /\ persistAuthenticatedSession(t)
  /\ UNCHANGED <<checks, leaving, refresh, session, acts>>

\* hydrateAuthenticatedUser: the answer of /auth/me completes the user, is
\* missing (the candidate is taken), or is a refusal that ends the sign-in.
LoginHydrated(t) ==
  /\ signin[t] = "partial"
  /\ \E answer \in MeAnswers :
       IF answer = "auth_error"
       THEN /\ Write(t, clearAuthStorage(store))
            /\ tab' = [tab EXCEPT ![t] = Shows(t, "out")]
            /\ signin' = [signin EXCEPT ![t] = "none"]
            /\ UNCHANGED loggedOut
       ELSE persistAuthenticatedSession(t)
  /\ UNCHANGED <<checks, leaving, refresh, session, acts>>

-----------------------------------------------------------------------------
(* logout and loginAsGuest                                                 *)

Logout(t) ==
  /\ Act
  /\ tab[t].shown = "in" /\ ~tab[t].loading /\ leaving[t] = "none"
  /\ checks' = [checks EXCEPT ![t] = Outdated(@)]
  /\ Write(t, [clearAuthStorage(store) EXCEPT !.logout = TRUE])
  /\ tab' = [tab EXCEPT ![t].shown = "out", ![t].loading = FALSE]
  /\ leaving' = [leaving EXCEPT ![t] = "logout"]
  /\ loggedOut' = loggedOut \cup {t}
  /\ UNCHANGED <<signin, refresh, session>>

\* POST /auth/logout deletes the cookie or fails; both are swallowed.
LogoutAnswered(t) ==
  /\ leaving[t] = "logout"
  /\ session' \in {session, FALSE}
  /\ leaving' = [leaving EXCEPT ![t] = "none"]
  /\ UNCHANGED <<tab, checks, signin, refresh, store, event, acts, loggedOut>>

LoginAsGuest(t) ==
  /\ Act
  /\ ~tab[t].loading /\ leaving[t] = "none"
  /\ checks' = [checks EXCEPT ![t] = Outdated(@)]
  /\ leaving' = [leaving EXCEPT ![t] = "guest"]
  /\ UNCHANGED <<tab, signin, refresh, store, event, session, loggedOut>>

GuestEntered(t) ==
  /\ leaving[t] = "guest"
  /\ session' \in {session, FALSE}
  /\ leaving' = [leaving EXCEPT ![t] = "none"]
  /\ Write(t, [logout |-> FALSE, hint |-> FALSE, guest |-> TRUE])
  /\ tab' = [tab EXCEPT ![t] = Shows(t, "guest")]
  /\ loggedOut' = {}
  /\ UNCHANGED <<checks, signin, refresh, acts>>

-----------------------------------------------------------------------------
(* The server and the request helper                                       *)

\* The session ends on the server: expiry, a ban, "log out everywhere".
SessionEnds ==
  /\ Act
  /\ session /\ session' = FALSE
  /\ UNCHANGED <<tab, checks, signin, leaving, refresh, store, event, loggedOut>>

\* A call of tab t met a 401 and the server refused the refresh (ApiClient),
\* whatever has become of the session since ...
RefreshRefused(t) ==
  /\ Act
  /\ store.hint /\ ~store.logout /\ t \notin refresh
  /\ refresh' = refresh \cup {t}
  /\ UNCHANGED <<tab, checks, signin, leaving, store, event, session, loggedOut>>

\* ... and the client removes the hints when that answer arrives.
HintRemoved(t) ==
  /\ t \in refresh
  /\ refresh' = refresh \ {t}
  /\ Write(t, [store EXCEPT !.hint = FALSE])
  /\ UNCHANGED <<tab, checks, signin, leaving, session, acts, loggedOut>>

-----------------------------------------------------------------------------
Init ==
  /\ session \in BOOLEAN
  /\ store \in [logout : BOOLEAN, hint : BOOLEAN, guest : BOOLEAN]
  /\ store.logout => ~store.hint /\ ~store.guest
  /\ tab = [t \in Tabs |-> Blank]
  /\ checks = [t \in Tabs |-> NoCheck]
  /\ signin = [t \in Tabs |-> "none"]
  /\ leaving = [t \in Tabs |-> "none"]
  /\ refresh = {} /\ event = {} /\ acts = 0 /\ loggedOut = {}

Next ==
  \E t \in Tabs :
    \/ Mount(t) \/ StorageEvent(t) \/ Revalidate(t) \/ Reload(t) \/ OAuthReturn(t)
    \/ \E a \in MeAnswers : Told(t, a)
    \/ AskAgain(t) \/ Apply(t)
    \/ LoginSubmit(t) \/ LoginAnswered(t) \/ LoginDone(t) \/ LoginHydrated(t)
    \/ Logout(t) \/ LogoutAnswered(t) \/ LoginAsGuest(t) \/ GuestEntered(t)
    \/ SessionEnds \/ RefreshRefused(t) \/ HintRemoved(t)

\* Events, timers and answers come; what the visitor does is not assumed.
Fairness ==
  \A t \in Tabs :
    /\ WF_vars(Mount(t)) /\ WF_vars(StorageEvent(t))
    /\ WF_vars(\E a \in MeAnswers : Told(t, a))
    /\ WF_vars(AskAgain(t)) /\ WF_vars(Apply(t))
    /\ WF_vars(LoginAnswered(t)) /\ WF_vars(LoginDone(t))
    /\ WF_vars(LoginHydrated(t)) /\ WF_vars(LogoutAnswered(t))
    /\ WF_vars(GuestEntered(t)) /\ WF_vars(HintRemoved(t))

Spec == Init /\ [][Next]_vars /\ Fairness

-----------------------------------------------------------------------------
(* Properties                                                              *)

CheckType == [told : {"no check", "nothing", "success", "auth_error", "network_error"},
              guest : BOOLEAN, second : BOOLEAN]

\* Every variable stays in its type.
TypeOK ==
  /\ tab \in [Tabs -> [shown : {"in", "out", "guest"}, loading : BOOLEAN,
                       ready : BOOLEAN, mounted : BOOLEAN, oauth : BOOLEAN]]
  /\ checks \in [Tabs -> CheckType]
  /\ signin \in [Tabs -> {"none", "ask", "complete", "partial"}]
  /\ leaving \in [Tabs -> {"none", "logout", "guest"}]
  /\ refresh \subseteq Tabs /\ event \subseteq Tabs /\ loggedOut \subseteq Tabs
  /\ store \in [logout : BOOLEAN, hint : BOOLEAN, guest : BOOLEAN]
  /\ session \in BOOLEAN /\ acts \in 0..MaxActs

\* Logging out sticks: the tab does not show the user as signed in again until
\* a sign-in, a Google return or a guest entry somewhere in the browser, even
\* if the logout request failed and a check was under way.
LogoutSticks == \A t \in loggedOut : tab[t].shown # "in"

Quiet == /\ event = {} /\ refresh = {}
         /\ \A t \in Tabs : /\ tab[t].mounted /\ signin[t] = "none"
                             /\ checks[t] = NoCheck /\ leaving[t] = "none"

\* Once nothing is under way, the logout flag and the tabs agree: no tab shows
\* a user and no hint of a session is left for the next page load.
LogoutSettled ==
  Quiet /\ store.logout => ~store.hint /\ \A t \in Tabs : tab[t].shown = "out"

\* A logout in one tab reaches every tab, unless someone comes back in.
LogoutReachesTabs ==
  store.logout ~> (~store.logout \/ \A t \in Tabs : tab[t].shown = "out")

\* The page does not load for ever: the first check ends it, and nothing that
\* outdates that check leaves the spinner on.
LoadingEnds == \A t \in Tabs : tab[t].loading ~> ~tab[t].loading

=============================================================================
