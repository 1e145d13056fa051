---------------------------- MODULE WebAuthProofs ----------------------------
(***************************************************************************)
(* Proofs about WebAuth, for any number of tabs.  That a logout sticks is  *)
(* not inductive: a check that is under way in a tab that has logged out   *)
(* would sign it in again, and so would a check that does not find the     *)
(* logout flag.  LogoutInv adds that neither is there.                     *)
(***************************************************************************)
EXTENDS WebAuth, TLAPS

TabType == [shown : {"in", "out", "guest"}, loading : BOOLEAN, ready : BOOLEAN,
            mounted : BOOLEAN, oauth : BOOLEAN]
StoreType == [logout : BOOLEAN, hint : BOOLEAN, guest : BOOLEAN]

\* What holds of a tab that has logged out, whatever the others do.
LogoutInv ==
  \A t \in loggedOut : tab[t].shown # "in" /\ checks[t] = NoCheck /\ store.logout

-----------------------------------------------------------------------------
(* The types of what the helpers return.                                   *)

LEMMA NoCheckType == NoCheck \in CheckType
  BY DEF NoCheck, CheckType

LEMMA NoCheckTold == NoCheck.told = "no check"
  BY DEF NoCheck

LEMMA BlankType == Blank \in TabType
  BY DEF Blank, TabType

LEMMA CheckedType ==
  ASSUME NEW x \in TabType
  PROVE  Checked(x) \in TabType /\ Checked(x).shown = x.shown
  BY DEF Checked, TabType

LEMMA ClearType ==
  ASSUME NEW s \in StoreType
  PROVE  clearAuthStorage(s) \in StoreType /\ clearAuthStorage(s).logout = s.logout
  BY DEF clearAuthStorage, StoreType

LEMMA WriteType ==
  ASSUME TypeOK, NEW t \in Tabs, NEW s \in StoreType, NEW e \in SUBSET Tabs, WriteOn(t, s, e)
  PROVE  store' = s /\ store' \in StoreType /\ event' \in SUBSET Tabs
  BY DEF WriteOn, TypeOK

\* checkAuth keeps the types; in a tab that finds the logout flag, or under
\* any circumstances without a sign-in, it does not undo a logout.
LEMMA CheckAuthSafe ==
  ASSUME TypeOK, NEW t \in Tabs, NEW x \in TabType, NEW e \in SUBSET Tabs,
         CheckAuth(t, x, e)
  PROVE  /\ tab' \in [Tabs -> TabType] /\ checks' \in [Tabs -> CheckType]
         /\ store' \in StoreType /\ event' \in SUBSET Tabs /\ loggedOut' \in SUBSET Tabs
         /\ loggedOut' = {} \/
              /\ loggedOut' = loggedOut
              /\ store.logout => /\ store'.logout
                                 /\ tab'[t].shown # "in" /\ checks'[t] = NoCheck
         /\ \A u \in Tabs \ {t} : tab'[u] = tab[u] /\ checks'[u] = checks[u]
<1> DEFINE s == IF x.oauth THEN [store EXCEPT !.logout = FALSE, !.hint = TRUE] ELSE store
           y == [x EXCEPT !.oauth = FALSE]
           asks == ~s.logout /\ (x.shown = "in" \/ s.hint)
           guest == ~s.logout /\ s.guest
           run == [told |-> "nothing", guest |-> s.guest, second |-> FALSE]
           tx == CASE asks -> [y EXCEPT !.loading = @ \/ ~y.ready]
                   [] ~asks /\ guest -> Checked([y EXCEPT !.shown = "guest"])
                   [] OTHER -> Checked([y EXCEPT !.shown = "out"])
           w == IF asks \/ guest THEN s ELSE clearAuthStorage(s)
           cx == IF asks THEN run ELSE NoCheck
<1>1. store \in StoreType /\ tab \in [Tabs -> TabType] /\ checks \in [Tabs -> CheckType]
      /\ loggedOut \in SUBSET Tabs
  BY DEF TypeOK, StoreType, TabType
<1>2. /\ WriteOn(t, w, e)
      /\ loggedOut' = IF x.oauth THEN {} ELSE loggedOut
      /\ checks' = [checks EXCEPT ![t] = cx]
      /\ tab' = [tab EXCEPT ![t] = tx]
  BY DEF CheckAuth, Outdated
<1>3. s \in StoreType /\ (~x.oauth => s = store)
  BY <1>1 DEF StoreType
<1>4. w \in StoreType /\ w.logout = s.logout
  BY <1>3, ClearType
<1>5. store' = w /\ store' \in StoreType /\ event' \in SUBSET Tabs
  <2> HIDE DEF w
  <2> QED BY <1>2, <1>4, WriteType
<1>6. y \in TabType /\ y.shown = x.shown
  BY DEF TabType
<1>7. cx \in CheckType /\ (s.logout => cx = NoCheck)
  <2>1. run \in CheckType
    BY <1>3 DEF CheckType, StoreType
  <2> QED BY <2>1, NoCheckType
<1>8. tx \in TabType /\ (s.logout => tx.shown # "in")
  <2> HIDE DEF y, s
  <2>1. [y EXCEPT !.loading = @ \/ ~y.ready] \in TabType
    BY <1>6 DEF TabType
  <2>2. [y EXCEPT !.shown = "guest"] \in TabType /\ [y EXCEPT !.shown = "out"] \in TabType
    BY <1>6 DEF TabType
  <2>3. [y EXCEPT !.shown = "out"].shown = "out" /\ [y EXCEPT !.shown = "guest"].shown = "guest"
    BY <1>6 DEF TabType
  <2>4. CASE asks
    BY <2>1, <2>4
  <2>5. CASE ~asks /\ guest
    BY <2>2, <2>3, <2>5, CheckedType
  <2>6. CASE ~asks /\ ~guest
    BY <2>2, <2>3, <2>6, CheckedType
  <2> QED BY <2>4, <2>5, <2>6
<1>9. tab'[t] = tx /\ checks'[t] = cx
      /\ tab' \in [Tabs -> TabType] /\ checks' \in [Tabs -> CheckType]
      /\ \A u \in Tabs \ {t} : tab'[u] = tab[u] /\ checks'[u] = checks[u]
  <2> HIDE DEF tx, cx
  <2> QED BY <1>1, <1>2, <1>7, <1>8
<1>10. CASE x.oauth
  <2>1. loggedOut' = {}
    BY <1>2, <1>10
  <2> QED BY <2>1, <1>5, <1>9
<1>11. CASE ~x.oauth
  <2>1. loggedOut' = loggedOut /\ s = store
    BY <1>2, <1>3, <1>11
  <2> HIDE DEF s, tx, cx, w
  <2> QED BY <2>1, <1>1, <1>4, <1>5, <1>7, <1>8, <1>9
<1> QED BY <1>10, <1>11

-----------------------------------------------------------------------------
(* One lemma per group of actions.                                         *)

Inv == TypeOK /\ LogoutInv

LEMMA TypeParts ==
  ASSUME TypeOK
  PROVE  /\ tab \in [Tabs -> TabType] /\ checks \in [Tabs -> CheckType]
         /\ store \in StoreType /\ loggedOut \in SUBSET Tabs /\ event \in SUBSET Tabs
  BY DEF TypeOK, TabType, StoreType

\* The actions that are a checkAuth and nothing else that matters here.
LEMMA CheckAuthKeeps ==
  ASSUME Inv, NEW t \in Tabs, NEW x \in TabType, NEW e \in SUBSET Tabs,
         CheckAuth(t, x, e), UNCHANGED <<signin, leaving, refresh, session>>,
         acts' \in 0..MaxActs
  PROVE  Inv'
<1>1. TypeOK /\ LogoutInv
  BY DEF Inv
<1>2. /\ tab' \in [Tabs -> TabType] /\ checks' \in [Tabs -> CheckType]
      /\ store' \in StoreType /\ event' \in SUBSET Tabs /\ loggedOut' \in SUBSET Tabs
  BY <1>1, CheckAuthSafe
<1>3. TypeOK'
  BY <1>1, <1>2 DEF TypeOK, TabType, StoreType
<1>4. LogoutInv'
  <2>1. CASE loggedOut' = {}
    BY <2>1 DEF LogoutInv
  <2>2. CASE /\ loggedOut' = loggedOut
             /\ store.logout => /\ store'.logout
                                /\ tab'[t].shown # "in" /\ checks'[t] = NoCheck
    <3>1. \A u \in Tabs \ {t} : tab'[u] = tab[u] /\ checks'[u] = checks[u]
      BY <1>1, CheckAuthSafe
    <3>2. loggedOut \in SUBSET Tabs
      BY <1>1, TypeParts
    <3> QED BY <1>1, <2>2, <3>1, <3>2 DEF LogoutInv
  <2> QED BY <2>1, <2>2, <1>1, CheckAuthSafe
<1> QED BY <1>3, <1>4 DEF Inv

LEMMA ActBound ==
  ASSUME TypeOK, Act
  PROVE  acts' \in 0..MaxActs
  BY WebAuthConstants DEF TypeOK, Act

LEMMA ChecksKeep ==
  ASSUME Inv, NEW t \in Tabs, Mount(t) \/ StorageEvent(t) \/ Revalidate(t)
  PROVE  Inv'
<1>1. TypeOK /\ acts \in 0..MaxActs /\ tab[t] \in TabType
      /\ [tab[t] EXCEPT !.mounted = TRUE] \in TabType
  <2>1. TypeOK /\ tab[t] \in TabType
    BY TypeParts DEF Inv
  <2>2. [tab[t] EXCEPT !.mounted = TRUE] \in TabType
    BY <2>1 DEF TabType
  <2> QED BY <2>1, <2>2 DEF TypeOK
<1>2. CASE Mount(t)
  BY <1>1, <1>2, CheckAuthKeeps DEF Mount
<1>3. CASE StorageEvent(t)
  BY <1>1, <1>3, CheckAuthKeeps DEF StorageEvent
<1>4. CASE Revalidate(t)
  BY <1>1, <1>4, ActBound, CheckAuthKeeps DEF Revalidate
<1> QED BY <1>2, <1>3, <1>4

LEMMA LoadPageKeeps ==
  ASSUME Inv, NEW t \in Tabs, Reload(t) \/ OAuthReturn(t)
  PROVE  Inv'
<1>1. PICK x \in TabType : LoadPage(t, x) /\ x.shown = "out"
  <2>1. Blank \in TabType /\ Blank.shown = "out"
    BY BlankType DEF Blank
  <2>2. LET b == [Blank EXCEPT !.oauth = TRUE] IN b \in TabType /\ b.shown = "out"
    BY <2>1 DEF TabType
  <2> QED BY <2>1, <2>2 DEF Reload, OAuthReturn
<1>2. session' \in BOOLEAN
  BY DEF Reload, OAuthReturn, Inv, TypeOK
<1>3. acts' \in 0..MaxActs
  BY <1>1, ActBound DEF LoadPage, Inv
<1>4. tab' \in [Tabs -> TabType] /\ checks' \in [Tabs -> CheckType]
  BY <1>1, TypeParts, NoCheckType DEF LoadPage, Inv
<1>5. TypeOK'
  BY <1>1, <1>2, <1>3, <1>4 DEF LoadPage, Inv, TypeOK, TabType
<1>6. LogoutInv'
  BY <1>1, TypeParts DEF LoadPage, Inv, LogoutInv
<1> QED BY <1>5, <1>6 DEF Inv

LEMMA AnswersKeep ==
  ASSUME Inv, NEW t \in Tabs, (\E a \in MeAnswers : Told(t, a)) \/ AskAgain(t)
  PROVE  Inv'
<1>1. PICK c \in CheckType : checks' = [checks EXCEPT ![t] = c] /\ checks[t] # NoCheck
  <2>1. checks \in [Tabs -> CheckType] /\ checks[t] \in CheckType
    BY TypeParts DEF Inv
  <2>2. ASSUME NEW a \in MeAnswers, Told(t, a)
        PROVE  \E c \in CheckType : checks' = [checks EXCEPT ![t] = c] /\ checks[t] # NoCheck
    <3>1. [checks[t] EXCEPT !.told = a] \in CheckType
      BY <2>1 DEF MeAnswers, CheckType
    <3>2. checks' = [checks EXCEPT ![t] = [checks[t] EXCEPT !.told = a]]
      BY <2>1, <2>2 DEF Told
    <3>3. checks[t] # NoCheck
      BY <2>2, NoCheckTold DEF Told
    <3> QED BY <3>1, <3>2, <3>3
  <2>3. ASSUME AskAgain(t)
        PROVE  \E c \in CheckType : checks' = [checks EXCEPT ![t] = c] /\ checks[t] # NoCheck
    <3>1. [checks[t] EXCEPT !.told = "nothing", !.second = TRUE] \in CheckType
      BY <2>1 DEF CheckType
    <3>2. checks' = [checks EXCEPT ![t] = [checks[t] EXCEPT !.told = "nothing", !.second = TRUE]]
      BY <2>1, <2>3 DEF AskAgain
    <3>3. checks[t] # NoCheck
      BY <2>3, NoCheckTold DEF AskAgain
    <3> QED BY <3>1, <3>2, <3>3
  <2> QED BY <2>2, <2>3
<1>2. t \notin loggedOut
  BY <1>1 DEF Inv, LogoutInv
<1>3. checks' \in [Tabs -> CheckType] /\ \A u \in Tabs \ {t} : checks'[u] = checks[u]
  BY <1>1, TypeParts DEF Inv
<1>4. UNCHANGED <<tab, signin, leaving, refresh, store, event, session, acts, loggedOut>>
  BY DEF Told, AskAgain
<1>5. TypeOK'
  BY <1>3, <1>4 DEF Inv, TypeOK
<1>6. LogoutInv'
  BY <1>2, <1>3, <1>4, TypeParts DEF Inv, LogoutInv
<1> QED BY <1>5, <1>6 DEF Inv

LEMMA ShowsType ==
  ASSUME TypeOK, NEW t \in Tabs, NEW what \in {"in", "out", "guest"}
  PROVE  Shows(t, what) \in TabType /\ Shows(t, what).shown = what
  BY TypeParts DEF Shows, TabType

LEMMA ApplyKeeps ==
  ASSUME Inv, NEW t \in Tabs, Apply(t)
  PROVE  Inv'
<1>1. TypeOK /\ LogoutInv /\ tab \in [Tabs -> TabType] /\ checks \in [Tabs -> CheckType]
      /\ store \in StoreType /\ loggedOut \in SUBSET Tabs /\ tab[t] \in TabType
  BY TypeParts DEF Inv
<1>2. t \notin loggedOut
  <2>1. checks[t].told # "no check"
    BY DEF Apply
  <2>2. checks[t] # NoCheck
    BY <2>1, NoCheckTold
  <2> QED BY <1>1, <2>2 DEF LogoutInv
<1>3. checks' \in [Tabs -> CheckType] /\ \A u \in Tabs \ {t} : checks'[u] = checks[u]
  BY <1>1, NoCheckType DEF Apply
<1>4. /\ store' \in StoreType /\ event' \in SUBSET Tabs /\ store'.logout = store.logout
      /\ \E y \in TabType : tab' = [tab EXCEPT ![t] = y]
  <2> DEFINE c == checks[t]
  <2>1. CASE c.told = "success"
    <3>1. PICK s \in StoreType : Write(t, s) /\ s.logout = store.logout
      <4>1. [store EXCEPT !.hint = TRUE, !.guest = @ /\ ~c.guest] \in StoreType
        BY <1>1 DEF StoreType
      <4>2. [store EXCEPT !.hint = TRUE, !.guest = @ /\ ~c.guest].logout = store.logout
        BY <1>1 DEF StoreType
      <4> QED BY <2>1, <4>1, <4>2 DEF Apply
    <3>2. tab' = [tab EXCEPT ![t] = Checked(Shows(t, "in"))]
      BY <2>1 DEF Apply
    <3> QED BY <1>1, <3>1, <3>2, WriteType, ShowsType, CheckedType DEF Write
  <2>2. CASE c.told # "success" /\ c.guest
    <3>1. tab' = [tab EXCEPT ![t] = Checked(Shows(t, "guest"))] /\ UNCHANGED <<store, event>>
      BY <2>2 DEF Apply
    <3> QED BY <1>1, <3>1, TypeParts, ShowsType, CheckedType
  <2>3. CASE c.told = "auth_error" /\ ~c.guest
    <3>1. tab' = [tab EXCEPT ![t] = Checked(Shows(t, "out"))]
          /\ Write(t, clearAuthStorage(store))
      BY <2>3 DEF Apply
    <3>2. PICK s \in StoreType : WriteOn(t, s, {}) /\ s.logout = store.logout
      BY <1>1, <3>1, ClearType DEF Write
    <3> QED BY <1>1, <3>1, <3>2, WriteType, ShowsType, CheckedType
  <2>4. CASE c.told # "success" /\ c.told # "auth_error" /\ ~c.guest
    <3>1. tab' = [tab EXCEPT ![t] = Checked(tab[t])] /\ UNCHANGED <<store, event>>
      BY <2>4 DEF Apply
    <3> QED BY <1>1, <3>1, TypeParts, CheckedType
  <2> QED BY <2>1, <2>2, <2>3, <2>4
<1>5. tab' \in [Tabs -> TabType] /\ \A u \in Tabs \ {t} : tab'[u] = tab[u]
  BY <1>1, <1>4
<1>6. UNCHANGED <<signin, leaving, refresh, session, acts, loggedOut>>
  BY DEF Apply
<1>7. TypeOK'
  BY <1>1, <1>3, <1>4, <1>5, <1>6 DEF TypeOK, TabType, StoreType
<1>8. LogoutInv'
  BY <1>1, <1>2, <1>3, <1>4, <1>5, <1>6 DEF LogoutInv
<1> QED BY <1>7, <1>8 DEF Inv

\* A sign-in or a guest entry ends every logout.
LEMMA EntryKeeps ==
  ASSUME Inv, NEW t \in Tabs, LoginDone(t) \/ LoginHydrated(t) \/ GuestEntered(t)
  PROVE  Inv'
<1>1. TypeOK /\ LogoutInv /\ tab \in [Tabs -> TabType] /\ store \in StoreType
      /\ loggedOut \in SUBSET Tabs /\ tab[t] \in TabType
  BY TypeParts DEF Inv
<1>2. PICK s \in StoreType, what \in {"in", "out", "guest"} :
        /\ Write(t, s) /\ tab' = [tab EXCEPT ![t] = Shows(t, what)]
        /\ \/ loggedOut' = {}
           \/ loggedOut' = loggedOut /\ what = "out" /\ s.logout = store.logout
  <2> DEFINE in == [logout |-> FALSE, hint |-> TRUE, guest |-> FALSE]
  <2>1. in \in StoreType
        /\ [logout |-> FALSE, hint |-> FALSE, guest |-> TRUE] \in StoreType
    BY DEF StoreType
  <2>2. CASE persistAuthenticatedSession(t)
    BY <2>1, <2>2 DEF persistAuthenticatedSession
  <2>3. CASE LoginHydrated(t) /\ ~persistAuthenticatedSession(t)
    <3>1. Write(t, clearAuthStorage(store)) /\ tab' = [tab EXCEPT ![t] = Shows(t, "out")]
          /\ loggedOut' = loggedOut
      BY <2>3 DEF LoginHydrated
    <3> QED BY <1>1, <3>1, ClearType
  <2>4. CASE GuestEntered(t)
    BY <2>1, <2>4 DEF GuestEntered
  <2> QED BY <2>2, <2>3, <2>4 DEF LoginDone
<1>3. store' = s /\ store' \in StoreType /\ event' \in SUBSET Tabs
  BY <1>1, <1>2, WriteType DEF Write
<1>4. /\ tab' \in [Tabs -> TabType] /\ tab'[t].shown = what
      /\ \A u \in Tabs \ {t} : tab'[u] = tab[u]
  BY <1>1, <1>2, ShowsType
<1>5. /\ signin' \in [Tabs -> {"none", "ask", "complete", "partial"}]
      /\ leaving' \in [Tabs -> {"none", "logout", "guest"}]
      /\ session' \in BOOLEAN
      /\ UNCHANGED <<checks, refresh, acts>>
  BY <1>1 DEF TypeOK, LoginDone, LoginHydrated, GuestEntered, persistAuthenticatedSession
<1>6. TypeOK'
  BY <1>1, <1>2, <1>3, <1>4, <1>5 DEF TypeOK, TabType, StoreType
<1>7. LogoutInv'
  BY <1>1, <1>2, <1>3, <1>4, <1>5 DEF LogoutInv
<1> QED BY <1>6, <1>7 DEF Inv

LEMMA LogoutKeeps ==
  ASSUME Inv, NEW t \in Tabs, Logout(t)
  PROVE  Inv'
<1>1. TypeOK /\ LogoutInv /\ tab \in [Tabs -> TabType] /\ store \in StoreType
      /\ loggedOut \in SUBSET Tabs /\ checks \in [Tabs -> CheckType]
  BY TypeParts DEF Inv
<1> DEFINE s == [clearAuthStorage(store) EXCEPT !.logout = TRUE]
<1>2. s \in StoreType /\ s.logout
  BY <1>1, ClearType DEF StoreType
<1>3. store' = s /\ store' \in StoreType /\ event' \in SUBSET Tabs
  <2>1. WriteOn(t, s, {})
    BY DEF Logout, Write
  <2> HIDE DEF s
  <2> QED BY <1>1, <1>2, <2>1, WriteType
<1>4. /\ tab' \in [Tabs -> TabType] /\ tab'[t].shown = "out"
      /\ \A u \in Tabs \ {t} : tab'[u] = tab[u]
  BY <1>1 DEF Logout, TabType
<1>5. /\ checks' \in [Tabs -> CheckType] /\ checks'[t] = NoCheck
      /\ \A u \in Tabs \ {t} : checks'[u] = checks[u]
  BY <1>1, NoCheckType DEF Logout, Outdated
<1>6. acts' \in 0..MaxActs /\ leaving' \in [Tabs -> {"none", "logout", "guest"}]
      /\ loggedOut' = loggedOut \cup {t} /\ UNCHANGED <<signin, refresh, session>>
  BY <1>1, ActBound DEF Logout, TypeOK
<1>7. TypeOK'
  BY <1>1, <1>3, <1>4, <1>5, <1>6 DEF TypeOK, TabType, StoreType
<1>8. LogoutInv'
  <2> HIDE DEF s
  <2> QED BY <1>1, <1>2, <1>3, <1>4, <1>5, <1>6 DEF LogoutInv
<1> QED BY <1>7, <1>8 DEF Inv

\* The actions that change neither what a tab shows nor localStorage.
LEMMA QuietKeeps ==
  ASSUME Inv, NEW t \in Tabs,
         \/ LoginSubmit(t) \/ LoginAnswered(t) \/ LogoutAnswered(t) \/ LoginAsGuest(t)
         \/ SessionEnds \/ RefreshRefused(t)
  PROVE  Inv'
<1>1. TypeOK /\ LogoutInv /\ loggedOut \in SUBSET Tabs /\ checks \in [Tabs -> CheckType]
  BY TypeParts DEF Inv
<1>2. UNCHANGED <<tab, store, event, loggedOut>>
  BY DEF LoginSubmit, LoginAnswered, LogoutAnswered, LoginAsGuest, SessionEnds, RefreshRefused
<1>3. /\ checks' \in [Tabs -> CheckType]
      /\ \A u \in Tabs : checks'[u] = checks[u] \/ checks'[u] = NoCheck
  BY <1>1, NoCheckType
    DEF LoginSubmit, LoginAnswered, LogoutAnswered, LoginAsGuest, SessionEnds, RefreshRefused,
        Outdated
<1>4. acts' \in 0..MaxActs
  BY <1>1, ActBound
    DEF LoginSubmit, LoginAnswered, LogoutAnswered, LoginAsGuest, SessionEnds, RefreshRefused,
        TypeOK
<1>5. session' \in BOOLEAN
  BY <1>1
    DEF LoginSubmit, LoginAnswered, LogoutAnswered, LoginAsGuest, SessionEnds, RefreshRefused,
        TypeOK
<1>6. /\ signin' \in [Tabs -> {"none", "ask", "complete", "partial"}]
      /\ leaving' \in [Tabs -> {"none", "logout", "guest"}]
      /\ refresh' \in SUBSET Tabs
  BY <1>1
    DEF LoginSubmit, LoginAnswered, LogoutAnswered, LoginAsGuest, SessionEnds, RefreshRefused,
        TypeOK
<1>7. TypeOK'
  BY <1>1, <1>2, <1>3, <1>4, <1>5, <1>6 DEF TypeOK
<1>8. LogoutInv'
  BY <1>1, <1>2, <1>3 DEF LogoutInv
<1> QED BY <1>7, <1>8 DEF Inv

LEMMA HintRemovedKeeps ==
  ASSUME Inv, NEW t \in Tabs, HintRemoved(t)
  PROVE  Inv'
<1>1. TypeOK /\ LogoutInv /\ store \in StoreType
  BY TypeParts DEF Inv
<1> DEFINE s == [store EXCEPT !.hint = FALSE]
<1>2. s \in StoreType /\ s.logout = store.logout
  BY <1>1 DEF StoreType
<1>3. store' = s /\ store' \in StoreType /\ event' \in SUBSET Tabs
  <2>1. WriteOn(t, s, {})
    BY DEF HintRemoved, Write
  <2> HIDE DEF s
  <2> QED BY <1>1, <1>2, <2>1, WriteType
<1>4. TypeOK'
  BY <1>1, <1>3 DEF HintRemoved, TypeOK, StoreType
<1>5. LogoutInv'
  BY <1>1, <1>2, <1>3 DEF HintRemoved, LogoutInv
<1> QED BY <1>4, <1>5 DEF Inv

-----------------------------------------------------------------------------
LEMMA InitInv == Init => Inv
<1> SUFFICES ASSUME Init PROVE Inv
  OBVIOUS
<1>1. TypeOK
  BY BlankType, NoCheckType, WebAuthConstants DEF Init, TypeOK, TabType
<1>2. LogoutInv
  BY DEF Init, LogoutInv
<1> QED BY <1>1, <1>2 DEF Inv

LEMMA NextInv == Inv /\ [Next]_vars => Inv'
<1> SUFFICES ASSUME Inv, [Next]_vars PROVE Inv'
  OBVIOUS
<1>1. CASE UNCHANGED vars
  BY <1>1 DEF vars, Inv, TypeOK, LogoutInv
<1>2. CASE Next
  BY <1>2, ChecksKeep, LoadPageKeeps, AnswersKeep, ApplyKeeps, EntryKeeps, LogoutKeeps,
     QuietKeeps, HintRemovedKeeps
    DEF Next
<1> QED BY <1>1, <1>2

\* Every variable of the authentication provider keeps its type, for any
\* number of tabs and of acts.
THEOREM TypeCorrect == Spec => []TypeOK
<1>1. Inv => TypeOK
  BY DEF Inv
<1> QED BY <1>1, InitInv, NextInv, PTL DEF Spec

\* A logout in a tab sticks (logout and checkAuth of the provider): whatever
\* checks, refreshes, reloads and other tabs do, and whether or not the logout
\* request arrived, that tab shows no user until somebody signs in again.
THEOREM LogoutSticksAlways == Spec => []LogoutSticks
<1>1. Inv => LogoutSticks
  BY DEF Inv, LogoutInv, LogoutSticks
<1> QED BY <1>1, InitInv, NextInv, PTL DEF Spec

-----------------------------------------------------------------------------
(* LogoutSettled.  What makes it true is that a logout elsewhere is never    *)
(* lost on a tab: until it has handled the storage event, or has mounted     *)
(* after a reload, the tab may still show a user and write the hint, but     *)
(* then there is something under way.                                        *)

\* Tab t has still to look at localStorage.
Pending(t) == t \in event \/ ~tab[t].mounted

SettledInv ==
  store.logout =>
    /\ \A t \in Tabs : Pending(t) \/ (tab[t].shown = "out" /\ checks[t] = NoCheck)
    /\ store.hint => \E t \in Tabs : Pending(t)

\* A step that takes away no event, mounts no tab and sets no logout flag keeps
\* it, unless it disturbs a tab that is done, or sets the hint with none left
\* to look.
LEMMA SettledFrame ==
  ASSUME SettledInv, event \subseteq event', store'.logout => store.logout,
         \A u \in Tabs : tab'[u].mounted = tab[u].mounted,
         store.logout => \A u \in Tabs :
           Pending(u) \/ (tab'[u].shown = "out" /\ checks'[u] = NoCheck),
         store'.logout /\ store'.hint => store.hint \/ \E u \in Tabs : Pending(u)
  PROVE  SettledInv'
<1> SUFFICES ASSUME store'.logout PROVE
      /\ \A t \in Tabs : Pending(t)' \/ (tab'[t].shown = "out" /\ checks'[t] = NoCheck)
      /\ store'.hint => \E t \in Tabs : Pending(t)'
  BY DEF SettledInv, NoCheck
<1>1. \A u \in Tabs : Pending(u) => Pending(u)'
  BY DEF Pending
<1> QED BY <1>1 DEF SettledInv

\* A checkAuth that ends with the logout flag set found it set, cleared the
\* hint, shows nobody and asks nothing.
LEMMA CheckAuthSettles ==
  ASSUME TypeOK, NEW t \in Tabs, NEW x \in TabType, NEW e \in SUBSET Tabs,
         CheckAuth(t, x, e), store'.logout
  PROVE  /\ store.logout /\ ~store'.hint
         /\ tab'[t].shown = "out" /\ checks'[t] = NoCheck
         /\ event \ e \subseteq event'
         /\ \A u \in Tabs \ {t} : tab'[u] = tab[u] /\ checks'[u] = checks[u]
<1> DEFINE s == IF x.oauth THEN [store EXCEPT !.logout = FALSE, !.hint = TRUE] ELSE store
           y == [x EXCEPT !.oauth = FALSE]
           asks == ~s.logout /\ (x.shown = "in" \/ s.hint)
           guest == ~s.logout /\ s.guest
           w == IF asks \/ guest THEN s ELSE clearAuthStorage(s)
<1>1. store \in StoreType /\ tab \in [Tabs -> TabType] /\ checks \in [Tabs -> CheckType]
  BY TypeParts
<1>2. s \in StoreType
  BY <1>1 DEF StoreType
<1>3. store' = w /\ event \ e \subseteq event'
  BY DEF CheckAuth, WriteOn
<1>4. w.logout = s.logout
  BY <1>2, ClearType
<1>5. s.logout
  BY <1>3, <1>4
<1>6. ~x.oauth
  BY <1>1, <1>5 DEF StoreType
<1>7. s = store
  BY <1>6
<1>8. ~asks /\ ~guest
  BY <1>5
<1>9. w = clearAuthStorage(store)
  BY <1>7, <1>8
<1>10. ~store'.hint
  BY <1>1, <1>3, <1>9 DEF clearAuthStorage, StoreType
<1>11. y \in TabType
  BY DEF TabType
<1>12. [y EXCEPT !.shown = "out"] \in TabType /\ [y EXCEPT !.shown = "out"].shown = "out"
  <2> HIDE DEF y
  <2> QED BY <1>11 DEF TabType
<1>13. /\ checks' = [checks EXCEPT ![t] = NoCheck]
       /\ tab' = [tab EXCEPT ![t] = Checked([y EXCEPT !.shown = "out"])]
  BY <1>8 DEF CheckAuth, Outdated
<1>14. Checked([y EXCEPT !.shown = "out"]).shown = "out"
  BY <1>12, CheckedType
<1> HIDE DEF y, s, w, asks, guest
<1> QED BY <1>1, <1>3, <1>5, <1>7, <1>10, <1>13, <1>14

\* Handling an event or mounting is what ends a tab's being pending.
LEMMA CheckAuthSettled ==
  ASSUME Inv, SettledInv, NEW t \in Tabs, NEW x \in TabType, NEW e \in SUBSET {t},
         CheckAuth(t, x, e)
  PROVE  SettledInv'
<1> SUFFICES ASSUME store'.logout PROVE
      /\ \A u \in Tabs : Pending(u)' \/ (tab'[u].shown = "out" /\ checks'[u] = NoCheck)
      /\ ~store'.hint
  BY DEF SettledInv, NoCheck
<1>1. /\ store.logout /\ ~store'.hint
      /\ tab'[t].shown = "out" /\ checks'[t] = NoCheck
      /\ event \ e \subseteq event'
      /\ \A u \in Tabs \ {t} : tab'[u] = tab[u] /\ checks'[u] = checks[u]
  BY CheckAuthSettles DEF Inv
<1>2. \A u \in Tabs \ {t} : Pending(u) => Pending(u)'
  BY <1>1 DEF Pending
<1> QED BY <1>1, <1>2 DEF SettledInv

LEMMA ChecksSettled ==
  ASSUME Inv, SettledInv, NEW t \in Tabs, Mount(t) \/ StorageEvent(t) \/ Revalidate(t)
  PROVE  SettledInv'
<1>1. tab[t] \in TabType
  BY TypeParts DEF Inv
<1>2. [tab[t] EXCEPT !.mounted = TRUE] \in TabType
  BY <1>1 DEF TabType
<1> QED BY <1>1, <1>2, CheckAuthSettled DEF Mount, StorageEvent, Revalidate

LEMMA LoadPageSettled ==
  ASSUME Inv, SettledInv, NEW t \in Tabs, Reload(t) \/ OAuthReturn(t)
  PROVE  SettledInv'
<1>1. PICK x \in TabType : LoadPage(t, x) /\ x.mounted = FALSE
  <2>1. Blank \in TabType /\ Blank.mounted = FALSE
    BY BlankType DEF Blank
  <2>2. LET b == [Blank EXCEPT !.oauth = TRUE] IN b \in TabType /\ b.mounted = FALSE
    BY <2>1 DEF TabType
  <2> QED BY <2>1, <2>2 DEF Reload, OAuthReturn
<1>2. /\ tab'[t].mounted = FALSE
      /\ \A u \in Tabs \ {t} : tab'[u] = tab[u] /\ checks'[u] = checks[u]
      /\ store' = store /\ event' = event \ {t}
  BY <1>1, TypeParts DEF LoadPage, Inv
<1>3. Pending(t)' /\ \A u \in Tabs \ {t} : Pending(u) => Pending(u)'
  BY <1>2 DEF Pending
<1> QED BY <1>2, <1>3 DEF SettledInv, NoCheck

LEMMA AnswersSettled ==
  ASSUME Inv, SettledInv, NEW t \in Tabs, (\E a \in MeAnswers : Told(t, a)) \/ AskAgain(t)
  PROVE  SettledInv'
<1>1. checks[t] # NoCheck
  BY NoCheckTold DEF Told, AskAgain
<1>2. \A u \in Tabs \ {t} : checks'[u] = checks[u]
  BY TypeParts DEF Told, AskAgain, Inv
<1>3. UNCHANGED <<tab, store, event>>
  BY DEF Told, AskAgain
<1>4. \A u \in Tabs : Pending(u) => Pending(u)'
  BY <1>3 DEF Pending
<1> QED BY <1>1, <1>2, <1>3, <1>4 DEF SettledInv

LEMMA WriteEvents ==
  ASSUME NEW t, NEW s, Write(t, s)
  PROVE  store' = s /\ event \subseteq event'
  BY DEF Write, WriteOn

\* A check under way in a tab that has heard of no logout: the flag is not set.
\* So what Apply writes while it is set, it writes in a pending tab.
LEMMA ApplySettled ==
  ASSUME Inv, SettledInv, NEW t \in Tabs, Apply(t)
  PROVE  SettledInv'
<1>1. TypeOK /\ tab \in [Tabs -> TabType] /\ checks \in [Tabs -> CheckType]
      /\ store \in StoreType /\ tab[t] \in TabType
  BY TypeParts DEF Inv
<1>2. store.logout => Pending(t)
  <2>1. checks[t].told # "no check"
    BY DEF Apply
  <2>2. checks[t] # NoCheck
    BY <2>1, NoCheckTold
  <2> QED BY <2>2 DEF SettledInv
<1>3. /\ checks'[t] = NoCheck
      /\ \A u \in Tabs \ {t} : checks'[u] = checks[u]
  BY <1>1 DEF Apply
<1>4. /\ event \subseteq event' /\ store'.logout = store.logout
      /\ \E y \in TabType : tab' = [tab EXCEPT ![t] = y] /\ y.mounted = tab[t].mounted
  <2> DEFINE c == checks[t]
  <2>0. \A what \in {"in", "out", "guest"} :
          /\ Checked(Shows(t, what)) \in TabType
          /\ Checked(Shows(t, what)).mounted = tab[t].mounted
    BY <1>1 DEF Checked, Shows, TabType
  <2>1. CASE c.told = "success"
    <3> DEFINE s == [store EXCEPT !.hint = TRUE, !.guest = @ /\ ~c.guest]
    <3>1. tab' = [tab EXCEPT ![t] = Checked(Shows(t, "in"))] /\ Write(t, s)
      BY <2>1 DEF Apply
    <3>2. s.logout = store.logout
      BY <1>1 DEF StoreType
    <3> HIDE DEF s
    <3>3. event \subseteq event' /\ store'.logout = store.logout
      BY <3>1, <3>2, WriteEvents
    <3> QED BY <2>0, <3>1, <3>3
  <2>2. CASE c.told # "success" /\ c.guest
    <3>1. tab' = [tab EXCEPT ![t] = Checked(Shows(t, "guest"))] /\ UNCHANGED <<store, event>>
      BY <2>2 DEF Apply
    <3> QED BY <2>0, <3>1
  <2>3. CASE c.told = "auth_error" /\ ~c.guest
    <3>1. tab' = [tab EXCEPT ![t] = Checked(Shows(t, "out"))]
          /\ Write(t, clearAuthStorage(store))
      BY <2>3 DEF Apply
    <3>2. event \subseteq event' /\ store'.logout = store.logout
      BY <1>1, <3>1, ClearType, WriteEvents
    <3> QED BY <2>0, <3>1, <3>2
  <2>4. CASE c.told # "success" /\ c.told # "auth_error" /\ ~c.guest
    <3>1. tab' = [tab EXCEPT ![t] = Checked(tab[t])] /\ UNCHANGED <<store, event>>
      BY <2>4 DEF Apply
    <3>2. Checked(tab[t]) \in TabType /\ Checked(tab[t]).mounted = tab[t].mounted
      BY <1>1 DEF Checked, TabType
    <3> QED BY <3>1, <3>2
  <2> QED BY <2>1, <2>2, <2>3, <2>4
<1>5. /\ \A u \in Tabs \ {t} : tab'[u] = tab[u]
      /\ tab'[t].mounted = tab[t].mounted
  BY <1>1, <1>4
<1>6. \A u \in Tabs : tab'[u].mounted = tab[u].mounted
  BY <1>5
<1>7. store.logout => \A u \in Tabs :
         Pending(u) \/ (tab'[u].shown = "out" /\ checks'[u] = NoCheck)
  BY <1>2, <1>3, <1>5 DEF SettledInv
<1>8. store'.logout => \E u \in Tabs : Pending(u)
  BY <1>2, <1>4
<1> QED BY <1>4, <1>6, <1>7, <1>8, SettledFrame

\* A sign-in or a guest entry takes the flag away; a refused hydration shows
\* nobody and clears the hint.
LEMMA EntrySettled ==
  ASSUME Inv, SettledInv, NEW t \in Tabs, LoginDone(t) \/ LoginHydrated(t) \/ GuestEntered(t)
  PROVE  SettledInv'
<1>1. TypeOK /\ tab \in [Tabs -> TabType] /\ store \in StoreType /\ tab[t] \in TabType
  BY TypeParts DEF Inv
<1>2. CASE persistAuthenticatedSession(t) \/ GuestEntered(t)
  <2>1. \E h, g \in BOOLEAN : Write(t, [logout |-> FALSE, hint |-> h, guest |-> g])
    BY <1>2 DEF persistAuthenticatedSession, GuestEntered
  <2>2. store'.logout = FALSE
    BY <2>1, WriteEvents
  <2> QED BY <2>2 DEF SettledInv
<1>3. CASE LoginHydrated(t) /\ ~persistAuthenticatedSession(t)
  <2>1. /\ Write(t, clearAuthStorage(store)) /\ tab' = [tab EXCEPT ![t] = Shows(t, "out")]
        /\ checks' = checks
    BY <1>3 DEF LoginHydrated
  <2>2. store' = clearAuthStorage(store) /\ event \subseteq event'
    BY <2>1, WriteEvents
  <2>3. clearAuthStorage(store).logout = store.logout /\ clearAuthStorage(store).hint = FALSE
    BY <1>1 DEF clearAuthStorage, StoreType
  <2>4. Shows(t, "out").shown = "out" /\ Shows(t, "out").mounted = tab[t].mounted
    BY <1>1 DEF Shows, TabType
  <2>5. \A u \in Tabs : /\ tab'[u].mounted = tab[u].mounted
                        /\ tab'[u].shown = tab[u].shown \/ tab'[u].shown = "out"
    BY <1>1, <2>1, <2>4
  <2>6. store.logout => \A u \in Tabs :
           Pending(u) \/ (tab'[u].shown = "out" /\ checks'[u] = NoCheck)
    BY <2>1, <2>5 DEF SettledInv
  <2> QED BY <2>2, <2>3, <2>5, <2>6, SettledFrame
<1> QED BY <1>2, <1>3 DEF LoginDone

\* A logout reaches localStorage and, as an event, every mounted tab but its own.
LEMMA LogoutSettles ==
  ASSUME Inv, SettledInv, NEW t \in Tabs, Logout(t)
  PROVE  SettledInv'
<1>1. /\ TypeOK /\ tab \in [Tabs -> TabType] /\ store \in StoreType
      /\ checks \in [Tabs -> CheckType] /\ tab[t] \in TabType
  BY TypeParts DEF Inv
<1> DEFINE s == [clearAuthStorage(store) EXCEPT !.logout = TRUE]
<1>2. s.logout = TRUE /\ s.hint = FALSE
  BY <1>1 DEF clearAuthStorage, StoreType
<1>3. /\ store' = s
      /\ event' = event \cup (IF s = store THEN {} ELSE {u \in Tabs \ {t} : tab[u].mounted})
  BY DEF Logout, Write, WriteOn
<1>4. tab' = [tab EXCEPT ![t].shown = "out", ![t].loading = FALSE]
      /\ checks' = [checks EXCEPT ![t] = NoCheck]
  BY DEF Logout, Outdated
<1>5. /\ tab'[t].shown = "out" /\ checks'[t] = NoCheck
      /\ \A u \in Tabs \ {t} : tab'[u] = tab[u] /\ checks'[u] = checks[u]
  BY <1>1, <1>4 DEF TabType
<1> HIDE DEF s
<1>6. ASSUME NEW u \in Tabs \ {t}
      PROVE  Pending(u)' \/ (tab'[u].shown = "out" /\ checks'[u] = NoCheck)
  <2>1. CASE s = store
    <3>1. Pending(u) \/ (tab[u].shown = "out" /\ checks[u] = NoCheck)
      BY <1>2, <2>1 DEF SettledInv
    <3> QED BY <1>3, <1>5, <2>1, <3>1 DEF Pending
  <2>2. CASE s # store
    BY <1>3, <1>5, <2>2 DEF Pending
  <2> QED BY <2>1, <2>2
<1> QED BY <1>2, <1>3, <1>5, <1>6 DEF SettledInv, NoCheck

LEMMA QuietSettled ==
  ASSUME Inv, SettledInv, NEW t \in Tabs,
         \/ LoginSubmit(t) \/ LoginAnswered(t) \/ LogoutAnswered(t) \/ LoginAsGuest(t)
         \/ SessionEnds \/ RefreshRefused(t)
  PROVE  SettledInv'
<1>1. checks \in [Tabs -> CheckType]
  BY TypeParts DEF Inv
<1>2. UNCHANGED <<tab, store, event>>
  BY DEF LoginSubmit, LoginAnswered, LogoutAnswered, LoginAsGuest, SessionEnds, RefreshRefused
<1>3. \A u \in Tabs : checks'[u] = checks[u] \/ checks'[u] = NoCheck
  BY <1>1
    DEF LoginSubmit, LoginAnswered, LogoutAnswered, LoginAsGuest, SessionEnds, RefreshRefused,
        Outdated
<1> QED BY <1>2, <1>3, SettledFrame DEF SettledInv

LEMMA HintRemovedSettled ==
  ASSUME Inv, SettledInv, NEW t \in Tabs, HintRemoved(t)
  PROVE  SettledInv'
<1>1. store \in StoreType
  BY TypeParts DEF Inv
<1> DEFINE s == [store EXCEPT !.hint = FALSE]
<1>2. s.logout = store.logout /\ s.hint = FALSE
  BY <1>1 DEF StoreType
<1>3. store' = s /\ event \subseteq event' /\ UNCHANGED <<tab, checks>>
  BY WriteEvents DEF HintRemoved
<1> HIDE DEF s
<1> QED BY <1>2, <1>3, SettledFrame DEF SettledInv

LEMMA SettledInit == Init => SettledInv
  BY BlankType DEF Init, SettledInv, Pending, Blank

LEMMA SettledNext == Inv /\ SettledInv /\ [Next]_vars => SettledInv'
<1> SUFFICES ASSUME Inv, SettledInv, [Next]_vars PROVE SettledInv'
  OBVIOUS
<1>1. CASE UNCHANGED vars
  BY <1>1 DEF vars, SettledInv, Pending
<1>2. CASE Next
  BY <1>2, ChecksSettled, LoadPageSettled, AnswersSettled, ApplySettled, EntrySettled,
     LogoutSettles, QuietSettled, HintRemovedSettled
    DEF Next
<1> QED BY <1>1, <1>2

\* Once nothing is under way in any of any number of tabs, the logout flag and
\* the tabs agree (handleStorageChange and checkAuth of the provider): no tab
\* shows a user, and no hint is left that the next page load would act on.
THEOREM LogoutSettledAlways == Spec => []LogoutSettled
<1>1. SettledInv => LogoutSettled
  BY DEF SettledInv, LogoutSettled, Quiet, Pending
<1>2. Spec => []Inv
  BY InitInv, NextInv, PTL DEF Spec
<1> QED BY <1>1, <1>2, SettledInit, SettledNext, PTL DEF Spec
=============================================================================
