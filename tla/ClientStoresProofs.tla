------------------------- MODULE ClientStoresProofs -------------------------
(* What the run of MCClientStores checks for two accounts, proved for any    *)
(* set of accounts and any length of the chat's queue.  Each store has an    *)
(* inductive invariant of its own.                                           *)
EXTENDS MCClientStores, Sequences, TLAPS

-----------------------------------------------------------------------------
(* The number of unread notifications: a request whose effect has not been   *)
(* cleaned up is for the account that is signed in, so its answer is that    *)
(* account's, and whatever drops the requests asks again or pauses.          *)

Loads == [by : {"poll"} \cup Count!Others, for : Users, live : BOOLEAN]

CountInv ==
  /\ Count!TypeOK
  /\ \A d \in loads : d.live => d.for = user
  /\ Count!NumberOwed

LEMMA CancelledLoads ==
  ASSUME NEW by, NEW ls \in SUBSET Loads
  PROVE  /\ Count!Cancelled(ls, by) \subseteq Loads
         /\ \A d \in Count!Cancelled(ls, by) : d.live => d \in ls /\ d.by \notin by
BY DEF Count!Cancelled, Loads

\* The polling effect runs again, the other requests being cancelled.
LEMMA PollsOwed ==
  ASSUME NEW u \in Count!Owners, NEW s \in BOOLEAN, NEW c \in BOOLEAN,
         loadedOwner \in Count!Owners, NEW ls \in SUBSET Loads,
         Count!Polls(u, s, c, Count!Cancelled(ls, Count!Others))
  PROVE  /\ loads' \subseteq Loads /\ loadedOwner' \in Count!Owners
         /\ \A d \in loads' : d.live => d.for = u
         /\ Count!Active(u, s) /\ ~c
              => \E d \in loads' : d.live /\ d.by = "poll" /\ d.for = u
<1> DEFINE kept == Count!Cancelled(ls, Count!Others)
           dead == Count!Cancelled(kept, {"poll"})
           new == IF Count!Active(u, s) /\ ~c THEN {Count!Ask("poll", u)} ELSE {}
<1>1. kept \subseteq Loads /\ \A d \in kept : d.live => d.by \notin Count!Others
  BY CancelledLoads
<1>2. dead \subseteq Loads /\ \A d \in dead : d.live => d \in kept /\ d.by \notin {"poll"}
  BY <1>1, CancelledLoads
<1>3. \A d \in dead : ~d.live
  BY <1>1, <1>2 DEF Loads
<1>4. loads' = dead \cup new /\ loadedOwner' \in {loadedOwner, Nobody}
  BY DEF Count!Polls
<1>5. \A d \in new : d \in Loads /\ d.live /\ d.by = "poll" /\ d.for = u
  <2> DEFINE a == Count!Ask("poll", u)
  <2>1. a.live /\ a.by = "poll" /\ a.for = u
    BY DEF Count!Ask
  <2>2. Count!Active(u, s) => a \in Loads
    BY DEF Count!Active, Count!Ask, Count!Owners, Loads
  <2> HIDE DEF a
  <2>3. \A d \in new : d = a /\ Count!Active(u, s)
    BY DEF a
  <2> QED BY <2>1, <2>2, <2>3
<1>6. Count!Active(u, s) /\ ~c => new # {}
  OBVIOUS
<1> HIDE DEF kept, dead, new
<1> QED BY <1>2, <1>3, <1>4, <1>5, <1>6 DEF Count!Owners

LEMMA CountNext == ASSUME CountInv, Count!Next PROVE CountInv'
<1>0. /\ user \in Count!Owners /\ loadedOwner \in Count!Owners
      /\ suspended \in BOOLEAN /\ inChat \in BOOLEAN /\ cooling \in BOOLEAN
      /\ loads \subseteq Loads /\ \A d \in loads : d.live => d.for = user
  BY DEF CountInv, Count!TypeOK, Loads
\* After the polling effect: nothing else is needed of the old requests.
<1>p. ASSUME NEW u \in Count!Owners, NEW s \in BOOLEAN, NEW c \in BOOLEAN,
             NEW ls \in SUBSET Loads, user' = u, suspended' = s, cooling' = c,
             inChat' \in BOOLEAN, Count!Polls(u, s, c, Count!Cancelled(ls, Count!Others))
      PROVE  CountInv'
  <2>1. /\ loads' \subseteq Loads /\ loadedOwner' \in Count!Owners
        /\ \A d \in loads' : d.live => d.for = u
        /\ Count!Active(u, s) /\ ~c
             => \E d \in loads' : d.live /\ d.by = "poll" /\ d.for = u
    BY <1>0, <1>p, PollsOwed
  <2>2. Count!TypeOK'
    BY <1>p, <2>1 DEF Count!TypeOK, Loads
  <2>3. Count!NumberOwed'
    BY <1>p, <2>1 DEF Count!NumberOwed, Count!Active
  <2> QED BY <1>p, <2>1, <2>2, <2>3 DEF CountInv
<1>1. ASSUME NEW u \in Count!Owners, NEW s \in BOOLEAN, Count!Changes(u, s) PROVE CountInv'
  BY <1>0, <1>1, <1>p DEF Count!Changes
<1>2. CASE Count!RouteChanges
  <2>1. /\ loads' = Count!Cancelled(loads, Count!Others) /\ inChat' \in BOOLEAN
        /\ UNCHANGED <<user, suspended, cooling, loadedOwner>>
    BY <1>0, <1>2 DEF Count!RouteChanges
  <2>2. loads' \subseteq Loads /\ \A d \in loads' : d.live => d \in loads
    BY <1>0, <2>1, CancelledLoads
  <2>3. \A d \in loads : d.live /\ d.by = "poll" => d \in loads'
    BY <1>0, <2>1 DEF Count!Cancelled, Count!Others
  <2>4. Count!TypeOK'
    BY <1>0, <2>1, <2>2 DEF Count!TypeOK, Loads
  <2>5. Count!NumberOwed'
    BY <2>1, <2>3 DEF CountInv, Count!NumberOwed, Count!Active
  <2> QED BY <1>0, <2>1, <2>2, <2>4, <2>5 DEF CountInv
<1>3. CASE Count!PollTick \/ Count!Pushed \/ Count!ChatEntered
  <2>1. PICK by \in {"poll"} \cup Count!Others : Count!Starts(by)
    BY <1>3 DEF Count!PollTick, Count!Pushed, Count!ChatEntered, Count!Others
  <2>2. Count!Ask(by, user) \in Loads /\ Count!Ask(by, user).for = user
    BY <1>0, <2>1 DEF Count!Starts, Count!Active, Count!Ask, Count!Owners, Loads
  <2>3. /\ loads' = loads \cup {Count!Ask(by, user)}
        /\ UNCHANGED <<user, suspended, inChat, cooling, loadedOwner>>
    BY <2>1 DEF Count!Starts
  <2>4. Count!TypeOK'
    BY <1>0, <2>2, <2>3 DEF Count!TypeOK, Loads
  <2>5. Count!NumberOwed'
    BY <2>3 DEF CountInv, Count!NumberOwed, Count!Active
  <2> QED BY <1>0, <2>2, <2>3, <2>4, <2>5 DEF CountInv
<1>4. CASE Count!CoolingEnds
  <2>1. /\ user' = user /\ suspended' = suspended /\ inChat' = inChat
        /\ Count!Polls(user, suspended, FALSE, Count!Cancelled(loads, Count!Others))
    BY <1>4 DEF Count!CoolingEnds
  <2>2. cooling' = FALSE
    BY <1>4 DEF Count!CoolingEnds
  <2> QED BY <1>0, <1>p, <2>1, <2>2
<1>5. ASSUME NEW d \in loads, Count!Counted(d) \/ Count!Unavailable(d)
      PROVE  CountInv'
  <2>0. /\ UNCHANGED <<user, suspended, inChat>> /\ loads \ {d} \subseteq Loads
        /\ d.for \in Count!Owners
    BY <1>0, <1>5 DEF Count!Counted, Count!Unavailable, Count!Owners, Loads
  <2>1. CASE loads' = loads \ {d} /\ UNCHANGED <<loadedOwner, cooling>> /\ ~d.live
    \* Nobody waits for the answer.
    <3>1. Count!TypeOK'
      BY <1>0, <2>0, <2>1 DEF Count!TypeOK, Loads
    <3>2. Count!NumberOwed'
      BY <2>0, <2>1 DEF CountInv, Count!NumberOwed, Count!Active
    <3> QED BY <1>0, <2>0, <2>1, <3>1, <3>2 DEF CountInv
  <2>2. CASE loads' = loads \ {d} /\ cooling' = FALSE /\ loadedOwner' = d.for /\ d.live
    <3>1. cooling' \in BOOLEAN /\ d.for = user
      BY <1>0, <2>2
    <3>2. Count!TypeOK'
      BY <1>0, <2>0, <2>2, <3>1 DEF Count!TypeOK, Loads
    <3>3. Count!NumberOwed'
      BY <2>0, <2>2, <3>1 DEF Count!NumberOwed
    <3> QED BY <1>0, <2>0, <2>2, <3>2, <3>3 DEF CountInv
  <2>3. CASE loads' = loads \ {d} /\ cooling' = TRUE /\ UNCHANGED loadedOwner
    <3>1. cooling' \in BOOLEAN /\ cooling'
      BY <2>3, Zenon
    <3>2. Count!TypeOK'
      BY <1>0, <2>0, <2>3, <3>1 DEF Count!TypeOK, Loads
    <3>3. Count!NumberOwed'
      BY <3>1 DEF Count!NumberOwed
    <3> QED BY <1>0, <2>0, <2>3, <3>2, <3>3 DEF CountInv
  <2>4. ASSUME NEW c \in BOOLEAN, cooling' = c,
               Count!Polls(user, suspended, c, Count!Cancelled(loads \ {d}, Count!Others))
        PROVE  CountInv'
    BY <1>0, <1>p, <2>0, <2>4
  <2>5. CASE Count!Counted(d)
    BY <2>1, <2>2, <2>4, <2>5 DEF Count!Counted
  <2>6. CASE Count!Unavailable(d)
    BY <2>1, <2>3, <2>4, <2>6 DEF Count!Unavailable
  <2> QED BY <1>5, <2>5, <2>6
<1> QED BY <1>1, <1>2, <1>3, <1>4, <1>5 DEF Count!Next

-----------------------------------------------------------------------------
(* The profile: every path that changes the account or adopts a profile      *)
(* leaves the owner, the profile and the retry timer with the account that   *)
(* is rendered, and the check of the owner refuses the answers of the others.*)

\* Profile!TypeOK, field by field.
ProfileTyped ==
  /\ user \in Profile!Owners /\ owner \in Profile!Owners /\ fetched \in Profile!Owners
  /\ timer \in Profile!Owners /\ closure \in Profile!Owners
  /\ profile \in [id : Profile!Owners, of : Profile!Owners, bio : Profile!Owners]
  /\ loading \in BOOLEAN /\ failed \in BOOLEAN /\ misled \in BOOLEAN
  /\ received \subseteq Users /\ retries \in 0..3
  /\ requests \subseteq [of : Users, current : BOOLEAN]
  /\ form \in [open : BOOLEAN, expected : Profile!Owners, bio : Profile!Owners]

ProfileInv ==
  /\ ProfileTyped
  /\ owner = user /\ profile.id = user
  /\ profile.of \in {Nobody, user}
  /\ user \in received => profile = [id |-> user, of |-> user, bio |-> user]
  /\ timer \in {Nobody, owner}
  /\ Profile!LoadingOwed

\* The synchronous part of a fetch: it waits for its request, or has nothing
\* to wait for.
LEMMA FetchOwed ==
  ASSUME NEW u \in Profile!Owners, NEW f \in Profile!Owners,
         NEW rs \in SUBSET [of : Users, current : BOOLEAN], Profile!Fetch(u, f, rs)
  PROVE  /\ timer' = Nobody /\ loading' \in BOOLEAN /\ fetched' \in Profile!Owners
         /\ requests' \subseteq [of : Users, current : BOOLEAN]
         /\ \/ ~loading' /\ (u = Nobody \/ fetched' = u)
            \/ [of |-> u, current |-> TRUE] \in requests'
<1>1. Profile!Outdated(rs) \subseteq [of : Users, current : BOOLEAN]
  BY DEF Profile!Outdated
<1>2. u # Nobody => [of |-> u, current |-> TRUE] \in [of : Users, current : BOOLEAN]
  BY DEF Profile!Owners
<1>3. requests' \subseteq [of : Users, current : BOOLEAN]
  BY <1>1, <1>2 DEF Profile!Fetch
<1>4. loading' \in BOOLEAN /\ timer' = Nobody /\ fetched' \in Profile!Owners
  BY DEF Profile!Fetch, Profile!Owners
<1>5. CASE u # Nobody /\ f # u
  <2>1. [of |-> u, current |-> TRUE] \in requests'
    BY <1>5 DEF Profile!Fetch
  <2> QED BY <1>3, <1>4, <2>1
<1>6. CASE ~(u # Nobody /\ f # u)
  <2>1. ~loading' /\ (u = Nobody \/ fetched' = u)
    BY <1>6 DEF Profile!Fetch
  <2> QED BY <1>3, <1>4, <2>1
<1> QED BY <1>5, <1>6

\* Another account is rendered, with nothing adopted or with its own profile.
LEMMA RenderedInv ==
  ASSUME ProfileInv, NEW u \in Profile!Owners, u # user, NEW o, NEW p,
         \/ o = user
         \/ o = u /\ p \in [id : {u}, of : {u}, bio : Profile!Owners],
         Profile!Rendered(u, o, p), closure' \in Profile!Owners,
         form' \in [open : BOOLEAN, expected : Profile!Owners, bio : Profile!Owners]
  PROVE  ProfileInv'
<1>0. ProfileTyped BY DEF ProfileInv
<1>1. /\ user' = u /\ owner' = u /\ retries' = 0 /\ received' = {}
      /\ Profile!Fetch(u, Nobody, requests)
  BY DEF Profile!Rendered
<1>f. failed' \in BOOLEAN /\ misled' \in BOOLEAN
  BY Zenon DEF Profile!Rendered
<1>2. Nobody \in Profile!Owners
  BY DEF Profile!Owners
<1>3. /\ profile' \in [id : Profile!Owners, of : Profile!Owners, bio : Profile!Owners]
      /\ profile'.id = u /\ profile'.of \in {Nobody, u}
  <2>1. CASE u = Nobody \/ o # u
    BY <2>1, <1>2 DEF Profile!Rendered, Profile!createProfileForAuthUser
  <2>2. CASE u # Nobody /\ o = u
    <3>1. p \in [id : {u}, of : {u}, bio : Profile!Owners]
      BY <2>2
    <3>2. profile' = [p EXCEPT !.id = u]
      BY <2>2 DEF Profile!Rendered
    <3> QED BY <3>1, <3>2
  <2> QED BY <2>1, <2>2
<1>4. requests \subseteq [of : Users, current : BOOLEAN]
  BY <1>0 DEF ProfileTyped
<1>5. /\ timer' = Nobody /\ loading' \in BOOLEAN /\ fetched' \in Profile!Owners
      /\ requests' \subseteq [of : Users, current : BOOLEAN]
      /\ \/ ~loading' /\ (u = Nobody \/ fetched' = u)
         \/ [of |-> u, current |-> TRUE] \in requests'
  BY <1>1, <1>2, <1>4, FetchOwed
<1>6. ProfileTyped'
  BY <1>1, <1>f, <1>2, <1>3, <1>5 DEF ProfileTyped
<1>7. Profile!LoadingOwed'
  <2>1. CASE ~loading' /\ (u = Nobody \/ fetched' = u)
    BY <1>1, <2>1 DEF Profile!LoadingOwed
  <2>2. CASE [of |-> u, current |-> TRUE] \in requests'
    BY <1>1, <2>2 DEF Profile!LoadingOwed
  <2> QED BY <1>5, <2>1, <2>2
<1> QED BY <1>1, <1>3, <1>5, <1>6, <1>7 DEF ProfileInv

\* An answer that is taken is of the account that is rendered.
LEMMA AnsweredInv ==
  ASSUME ProfileInv, NEW r \in requests, NEW answer \in {"user", "missing", "failure"},
         Profile!Answered(r, answer)
  PROVE  ProfileInv'
<1>0. ProfileTyped /\ owner = user /\ profile.id = user
  BY DEF ProfileInv
<1>1. r \in [of : Users, current : BOOLEAN] /\ r.of \in Profile!Owners /\ r.of # Nobody
  BY <1>0, NobodyIsNoUser DEF ProfileTyped, Profile!Owners
<1>2. /\ requests' = requests \ {r} /\ UNCHANGED <<user, owner, form, closure, misled>>
      /\ requests' \subseteq [of : Users, current : BOOLEAN]
  BY <1>0 DEF ProfileTyped, Profile!Answered
<1>3. CASE ~Profile!isOwnedProfileRequestCurrent(r)
  <2>1. UNCHANGED <<profile, retries, fetched, failed, loading, timer, received>>
    BY <1>3 DEF Profile!Answered
  <2>2. ProfileTyped'
    BY <1>0, <1>2, <2>1 DEF ProfileTyped
  <2>3. Profile!LoadingOwed'
    BY <1>2, <1>3, <2>1 DEF ProfileInv, Profile!LoadingOwed, Profile!isOwnedProfileRequestCurrent
  <2> QED BY <1>2, <2>1, <2>2, <2>3 DEF ProfileInv
<1>4. CASE Profile!isOwnedProfileRequestCurrent(r) /\ answer = "failure"
  <2>1. /\ Profile!ScheduleRetry(r.of, retries + 1) /\ UNCHANGED <<profile, received>>
        /\ r.of = user
    BY <1>0, <1>4 DEF Profile!Answered, Profile!isOwnedProfileRequestCurrent
  <2>2. /\ retries' \in 0..3 /\ loading' \in BOOLEAN /\ failed' \in BOOLEAN
        /\ timer' \in {Nobody, user} /\ fetched' \in Profile!Owners
        /\ (~loading' /\ fetched' = user) \/ timer' # Nobody
    <3>1. retries \in 0..3 /\ loading \in BOOLEAN /\ failed \in BOOLEAN
          /\ timer \in {Nobody, user} /\ fetched \in Profile!Owners
      BY <1>0 DEF ProfileTyped, ProfileInv
    <3>2. CASE retries + 1 >= 3
      <4>1. retries' = 0 /\ fetched' = r.of /\ UNCHANGED timer
        BY <2>1, <3>2 DEF Profile!ScheduleRetry, Profile!MAX_FETCH_RETRIES
      <4>2. failed' = TRUE /\ loading' = FALSE
        BY <2>1, <3>2 DEF Profile!ScheduleRetry, Profile!MAX_FETCH_RETRIES
      <4>3. failed' \in BOOLEAN /\ loading' \in BOOLEAN /\ ~loading'
        BY <4>2, Zenon
      <4> QED BY <1>1, <2>1, <3>1, <4>1, <4>3
    <3>3. CASE ~(retries + 1 >= 3)
      <4>1. retries' = retries + 1 /\ timer' = r.of /\ UNCHANGED <<fetched, failed, loading>>
        BY <2>1, <3>3 DEF Profile!ScheduleRetry, Profile!MAX_FETCH_RETRIES
      <4>2. retries' \in 0..3
        BY <3>1, <3>3, <4>1
      <4> QED BY <1>1, <2>1, <3>1, <4>1, <4>2
    <3> QED BY <3>2, <3>3
  <2>3. ProfileTyped'
    <3>1. timer' \in Profile!Owners
      BY <1>0, <2>2 DEF ProfileTyped, Profile!Owners
    <3> QED BY <1>0, <1>2, <2>1, <2>2, <3>1 DEF ProfileTyped
  <2>4. Profile!LoadingOwed'
    BY <1>2, <2>2 DEF Profile!LoadingOwed
  <2> QED BY <1>2, <2>1, <2>2, <2>3, <2>4 DEF ProfileInv
<1>5. CASE Profile!isOwnedProfileRequestCurrent(r) /\ answer # "failure"
  <2>1. /\ profile' = IF answer = "user" THEN [id |-> r.of, of |-> r.of, bio |-> r.of] ELSE profile
        /\ fetched' = r.of /\ retries' = 0 /\ UNCHANGED timer
        /\ received' = IF answer = "user" THEN received \cup {r.of} ELSE received
    BY <1>5 DEF Profile!Answered
  <2>f. failed' \in BOOLEAN /\ loading' \in BOOLEAN /\ ~loading'
    <3>1. failed' = FALSE /\ loading' = FALSE
      BY <1>5 DEF Profile!Answered
    <3> QED BY <3>1, Zenon
  <2>2. r.of = user
    BY <1>0, <1>5 DEF Profile!isOwnedProfileRequestCurrent
  <2>3. /\ profile' \in [id : Profile!Owners, of : Profile!Owners, bio : Profile!Owners]
        /\ profile'.id = user /\ profile'.of \in {Nobody, user}
        /\ user \in received' => profile' = [id |-> user, of |-> user, bio |-> user]
        /\ received' \subseteq Users
    BY <1>0, <1>1, <2>1, <2>2 DEF ProfileTyped, ProfileInv
  <2>4. ProfileTyped'
    BY <1>0, <1>1, <1>2, <2>1, <2>f, <2>3 DEF ProfileTyped
  <2>5. Profile!LoadingOwed'
    BY <1>2, <2>1, <2>f, <2>2 DEF Profile!LoadingOwed
  <2> QED BY <1>0, <1>2, <2>1, <2>3, <2>4, <2>5 DEF ProfileInv
<1> QED BY <1>3, <1>4, <1>5

\* A fetch for the account that is rendered, or one that is known to mislead.
LEMMA FetchInv ==
  ASSUME ProfileInv, NEW u \in Profile!Owners, NEW f \in Profile!Owners, u # Nobody,
         Profile!Fetch(u, f, requests), u = owner \/ misled',
         UNCHANGED <<user, owner, profile, form, received>>,
         closure' \in Profile!Owners, failed' \in BOOLEAN, misled' \in BOOLEAN,
         retries' \in 0..3
  PROVE  ProfileInv'
<1>0. ProfileTyped /\ owner = user
  BY DEF ProfileInv
<1>1. requests \in SUBSET [of : Users, current : BOOLEAN]
  BY <1>0 DEF ProfileTyped
<1>2. /\ timer' = Nobody /\ loading' \in BOOLEAN /\ fetched' \in Profile!Owners
      /\ requests' \subseteq [of : Users, current : BOOLEAN]
      /\ \/ ~loading' /\ (u = Nobody \/ fetched' = u)
         \/ [of |-> u, current |-> TRUE] \in requests'
  BY <1>1, FetchOwed
<1>3. ProfileTyped'
  BY <1>0, <1>2 DEF ProfileTyped, Profile!Owners
<1>4. Profile!LoadingOwed'
  <2>1. CASE misled'
    BY <2>1 DEF Profile!LoadingOwed
  <2>2. CASE u = owner /\ ~loading' /\ fetched' = u
    BY <1>0, <2>2 DEF Profile!LoadingOwed
  <2>3. CASE u = owner /\ [of |-> u, current |-> TRUE] \in requests'
    BY <1>0, <2>3 DEF Profile!LoadingOwed
  <2> QED BY <1>2, <2>1, <2>2, <2>3
<1> QED BY <1>2, <1>3, <1>4 DEF ProfileInv

LEMMA LoginDoneInv ==
  ASSUME ProfileInv, NEW u \in Users, Profile!LoginDone(u)
  PROVE  ProfileInv'
<1> DEFINE p == Profile!applyLoginUserDataToProfile(u)
<1>0. ProfileTyped /\ owner = user /\ profile.id = user
  BY DEF ProfileInv
<1>1. /\ form' \in [open : BOOLEAN, expected : Profile!Owners, bio : Profile!Owners]
      /\ closure' \in Profile!Owners
  BY <1>0 DEF Profile!LoginDone, Profile!NoForm, Profile!Owners, ProfileTyped
<1>2. p \in [id : {u}, of : {u}, bio : Profile!Owners]
  BY <1>0 DEF Profile!applyLoginUserDataToProfile, ProfileTyped
<1>3. u \in Profile!Owners /\ u # Nobody
  BY NobodyIsNoUser DEF Profile!Owners
<1> HIDE DEF p
<1>4. CASE u # user /\ Profile!Rendered(u, u, p)
  BY <1>1, <1>2, <1>3, <1>4, RenderedInv
<1>5. CASE u # user /\ Profile!Rendered(u, owner, profile)
  BY <1>0, <1>1, <1>3, <1>5, RenderedInv
<1>6. CASE /\ u = user
           /\ profile' = p /\ owner' = u /\ fetched' = Nobody /\ retries' = 0
           /\ timer' = Nobody /\ failed' = FALSE /\ loading' = TRUE
           /\ requests' = Profile!Outdated(requests)
           /\ received' = {} /\ misled' = TRUE
           /\ UNCHANGED user
  <2>0. failed' = FALSE /\ loading' = TRUE /\ misled' = TRUE
    BY <1>6
  <2>1. failed' \in BOOLEAN /\ loading' \in BOOLEAN /\ misled' \in BOOLEAN /\ misled'
    BY <2>0, Zenon
  <2>2. /\ u = user /\ profile' = p /\ owner' = u /\ fetched' = Nobody /\ retries' = 0
        /\ timer' = Nobody /\ requests' = Profile!Outdated(requests)
        /\ received' = {} /\ UNCHANGED user
    BY <1>6
  <2>3. requests' \subseteq [of : Users, current : BOOLEAN]
    BY <1>0, <2>2 DEF Profile!Outdated, ProfileTyped
  <2>4. /\ profile' \in [id : Profile!Owners, of : Profile!Owners, bio : Profile!Owners]
        /\ profile'.id = user /\ profile'.of = user
    BY <1>2, <1>3, <2>2
  <2>5. ProfileTyped'
    BY <1>0, <1>1, <1>3, <2>1, <2>2, <2>3, <2>4 DEF ProfileTyped, Profile!Owners
  <2>6. Profile!LoadingOwed'
    BY <2>1 DEF Profile!LoadingOwed
  <2> QED BY <2>2, <2>4, <2>5, <2>6 DEF ProfileInv
<1>7. CASE UNCHANGED <<user, owner, profile, fetched, retries, timer, failed, loading,
                       requests, received, misled>>
  BY <1>1, <1>7 DEF ProfileInv, ProfileTyped, Profile!LoadingOwed
<1> QED BY <1>4, <1>5, <1>6, <1>7 DEF Profile!LoginDone, p

LEMMA ProfileNext == ASSUME ProfileInv, Profile!Next PROVE ProfileInv'
<1>0. ProfileTyped /\ owner = user /\ profile.id = user /\ Nobody \in Profile!Owners
  BY DEF ProfileInv, Profile!Owners
<1>1. ASSUME NEW r \in requests, NEW answer \in {"user", "missing", "failure"},
             Profile!Answered(r, answer)
      PROVE  ProfileInv'
  BY <1>1, AnsweredInv
<1>2. CASE Profile!RetryFires
  <2>1. timer \in Profile!Owners /\ timer # Nobody /\ timer = owner
    BY <1>0, <1>2 DEF ProfileInv, ProfileTyped, Profile!RetryFires
  <2>2. /\ Profile!Fetch(timer, fetched, requests) /\ fetched \in Profile!Owners
        /\ UNCHANGED <<user, owner, profile, form, received>>
        /\ closure' \in Profile!Owners /\ failed' \in BOOLEAN /\ misled' \in BOOLEAN
        /\ retries' \in 0..3
    BY <1>0, <1>2 DEF ProfileTyped, Profile!RetryFires
  <2> QED BY <2>1, <2>2, FetchInv
<1>3. ASSUME NEW u \in Profile!Owners, Profile!AccountChanges(u) PROVE ProfileInv'
  <2>1. closure' \in Profile!Owners
        /\ form' \in [open : BOOLEAN, expected : Profile!Owners, bio : Profile!Owners]
    BY <1>0, <1>3 DEF Profile!AccountChanges, ProfileTyped
  <2> QED BY <1>0, <1>3, <2>1, RenderedInv DEF Profile!AccountChanges
<1>4. CASE Profile!LoginSubmitted \/ Profile!LoginFails
  <2>1. form' \in [open : BOOLEAN, expected : Profile!Owners, bio : Profile!Owners]
    <3>1. \A o, e, b : o \in BOOLEAN /\ e \in Profile!Owners /\ b \in Profile!Owners =>
            [open |-> o, expected |-> e, bio |-> b]
              \in [open : BOOLEAN, expected : Profile!Owners, bio : Profile!Owners]
      OBVIOUS
    <3>2. /\ user \in Profile!Owners
          /\ (IF profile.id = user THEN profile.bio ELSE Nobody) \in Profile!Owners
      BY <1>0 DEF ProfileTyped
    <3>3. CASE Profile!LoginSubmitted
      BY <3>1, <3>2, <3>3 DEF Profile!LoginSubmitted
    <3>4. CASE Profile!LoginFails
      BY <1>0, <3>1, <3>4 DEF Profile!LoginFails, Profile!NoForm
    <3> QED BY <1>4, <3>3, <3>4
  <2>2. UNCHANGED <<user, owner, fetched, profile, loading, failed, retries, timer,
                    requests, closure, received, misled>>
    BY <1>4 DEF Profile!LoginSubmitted, Profile!LoginFails
  <2> QED BY <2>1, <2>2 DEF ProfileInv, ProfileTyped, Profile!LoadingOwed
<1>5. ASSUME NEW u \in Users, Profile!LoginDone(u) PROVE ProfileInv'
  BY <1>5, LoginDoneInv
<1>6. CASE Profile!FormSubmitted
  BY <1>0, <1>6 DEF Profile!FormSubmitted, ProfileInv, ProfileTyped, Profile!LoadingOwed
<1>7. CASE Profile!Saved
  <2>0. closure' = Nobody /\ closure \in Profile!Owners
        /\ UNCHANGED <<user, owner, fetched, loading, retries, timer, requests, form, received,
                       misled>>
    BY <1>0, <1>7 DEF Profile!Saved, ProfileTyped
  <2>1. /\ profile' \in [id : Profile!Owners, of : Profile!Owners, bio : Profile!Owners]
        /\ profile'.id = user
        /\ profile' = profile \/ profile' = [id |-> user, of |-> user, bio |-> user]
    <3>1. CASE Profile!isCurrentProfileOwner(closure)
      <4>1. closure = user /\ profile' = [id |-> closure, of |-> closure, bio |-> closure]
        BY <1>7, <3>1 DEF Profile!Saved, Profile!isCurrentProfileOwner
      <4> QED BY <2>0, <4>1
    <3>2. CASE ~Profile!isCurrentProfileOwner(closure)
      <4>1. profile' = profile
        BY <1>7, <3>2 DEF Profile!Saved
      <4> QED BY <1>0, <4>1 DEF ProfileTyped
    <3> QED BY <3>1, <3>2
  <2>2. failed' \in BOOLEAN
    <3>1. failed' = FALSE \/ failed' = failed
      BY <1>7 DEF Profile!Saved
    <3>2. failed \in BOOLEAN
      BY <1>0 DEF ProfileTyped
    <3> QED BY <3>1, <3>2, Zenon
  <2>3. ProfileTyped'
    BY <1>0, <2>0, <2>1, <2>2 DEF ProfileTyped
  <2>4. profile'.of \in {Nobody, user}
    BY <2>1 DEF ProfileInv
  <2> QED BY <2>0, <2>1, <2>3, <2>4 DEF ProfileInv, Profile!LoadingOwed
<1>8. CASE Profile!Refreshed
  <2>1. closure \in Profile!Owners /\ closure # Nobody
    BY <1>0, <1>8 DEF ProfileTyped, Profile!Refreshed
  <2>2. /\ Profile!Fetch(closure, Nobody, requests) /\ closure' = Nobody /\ retries' = 0
        /\ UNCHANGED <<user, owner, profile, form, received>>
    BY <1>8 DEF Profile!Refreshed
  <2>3. failed' \in BOOLEAN /\ misled' \in BOOLEAN
    BY <1>8, Zenon DEF Profile!Refreshed
  <2>4. closure = owner \/ misled'
    BY <1>8, Zenon DEF Profile!Refreshed
  <2>5. retries' \in 0..3 /\ closure' \in Profile!Owners
    BY <1>0, <2>2
  <2> QED BY <1>0, <2>1, <2>2, <2>3, <2>4, <2>5, FetchInv
<1> QED BY <1>1, <1>2, <1>3, <1>4, <1>5, <1>6, <1>7, <1>8 DEF Profile!Next

-----------------------------------------------------------------------------
(* The chat.  The queue is what ties the account asked for to the connection *)
(* that exists: its last transition is for the account asked for, and a      *)
(* connection that is not wanted any more has a disconnect still before it.  *)

Transitions == [kind : {"connect", "disconnect"}, user : Chat!Owners, timed : BOOLEAN,
                at : {"queued", "stopping", "starting"}]

Connected == [of : Users, as : Chat!Owners, risk : Chat!Risks,
              state : {"connecting", "connected", "reconnecting"}]

Connections == {Chat!NoConnection} \cup Connected

\* Chat!TypeOK, field by field.
ChatTyped ==
  /\ user \in Chat!Owners /\ session \in Chat!Owners
  /\ requested \in Chat!Owners /\ current \in Chat!Owners
  /\ lastKnown \in Chat!Owners /\ timer \in Chat!Owners /\ sending \in Chat!Owners
  /\ imported \in BOOLEAN /\ intentional \in BOOLEAN /\ abandoned \in BOOLEAN
  /\ connection \in Connections
  /\ attempt \in 0..5
  /\ queue \in Seq(Transitions)
  /\ exchange \in [for : Chat!Owners, page : Chat!Owners, server : Chat!Owners,
                   risk : Chat!Risks]

\* A connect is for an account; a disconnect starts nothing.
Wellformed(t) ==
  IF t.kind = "connect" THEN t.user \in Users ELSE t.user = Nobody /\ t.at # "starting"

\* Only the first transition runs, and the last one is what is asked for.
Ordered(q, asked) ==
  /\ \A i \in 1..Len(q) : Wellformed(q[i]) /\ (i > 1 => q[i].at = "queued")
  /\ Len(q) > 0 => q[Len(q)].user = asked

Disconnecting(q) == \E i \in 1..Len(q) : q[i].kind = "disconnect" /\ q[i].at = "queued"

\* What the first transition, between two awaits, may rely on.
HeadInv ==
  Len(queue) > 0 =>
    /\ queue[1].at = "starting" =>
         connection.of = queue[1].user /\ connection.state = "connecting"
    /\ queue[1].at = "stopping" => connection = Chat!NoConnection /\ lastKnown = Nobody

ConnectionInv ==
  connection # Chat!NoConnection =>
    /\ lastKnown = connection.of /\ current = connection.of
    /\ intentional \/ requested = Nobody => Disconnecting(queue)
    /\ Len(queue) = 0 => connection.of = requested

\* The account asked for follows the one signed in, the timer the one asked for.
AccountInv ==
  /\ IF imported THEN requested = user ELSE requested = Nobody /\ Len(queue) = 0
  /\ timer # Nobody => timer = requested /\ ~intentional

\* The server has a connection for its own account, or will if nothing changes
\* until the handshake, unless something is known to have put that at risk.
IdentityInv ==
  /\ connection.state \in {"connected", "reconnecting"} => connection.as # Nobody
  /\ connection # Chat!NoConnection /\ connection.risk = "none" =>
       \/ connection.as = connection.of
       \/ connection.as = Nobody /\ connection.of = user

ChatInv ==
  /\ ChatTyped /\ Ordered(queue, requested) /\ HeadInv /\ ConnectionInv /\ AccountInv
  /\ IdentityInv /\ Chat!SentAsSender /\ Chat!ConnectionOwed

-----------------------------------------------------------------------------
(* The queue.                                                                *)

LEMMA EmptyQueue == \A q \in Seq(Transitions) : q = << >> <=> Len(q) = 0
OBVIOUS

LEMMA Appended ==
  ASSUME NEW q \in Seq(Transitions), NEW asked, NEW t \in Transitions, Ordered(q, asked),
         t.at = "queued", Wellformed(t)
  PROVE  /\ Append(q, t) \in Seq(Transitions) /\ Len(Append(q, t)) = Len(q) + 1
         /\ Len(q) > 0 => Append(q, t)[1] = q[1]
         /\ Len(q) = 0 => Append(q, t)[1] = t
         /\ Ordered(Append(q, t), t.user)
         /\ Disconnecting(q) => Disconnecting(Append(q, t))
         /\ t.kind = "disconnect" => Disconnecting(Append(q, t))
<1> DEFINE n == Append(q, t)
<1>1. /\ n \in Seq(Transitions) /\ Len(n) = Len(q) + 1 /\ Len(q) \in Nat
      /\ \A i \in 1..Len(q) : n[i] = q[i]
      /\ n[Len(q) + 1] = t
  OBVIOUS
<1> HIDE DEF n
<1>2. Ordered(n, t.user)
  <2>1. ASSUME NEW i \in 1..Len(n) PROVE Wellformed(n[i]) /\ (i > 1 => n[i].at = "queued")
    <3>1. CASE i \in 1..Len(q)
      BY <1>1, <3>1 DEF Ordered
    <3>2. CASE i = Len(q) + 1
      BY <1>1, <3>2
    <3> QED BY <1>1, <3>1, <3>2
  <2> QED BY <1>1, <2>1 DEF Ordered
<1>3. Disconnecting(q) => Disconnecting(n)
  BY <1>1 DEF Disconnecting
<1>4. t.kind = "disconnect" => Disconnecting(n)
  BY <1>1 DEF Disconnecting
<1>5. (Len(q) > 0 => n[1] = q[1]) /\ (Len(q) = 0 => n[1] = t)
  BY <1>1
<1> QED BY <1>1, <1>2, <1>3, <1>4, <1>5 DEF n

LEMMA Shortened ==
  ASSUME NEW q \in Seq(Transitions), NEW asked, Ordered(q, asked), Len(q) > 0
  PROVE  /\ Tail(q) \in Seq(Transitions) /\ Len(Tail(q)) = Len(q) - 1
         /\ Len(Tail(q)) > 0 => Tail(q)[1].at = "queued"
         /\ Ordered(Tail(q), asked)
         /\ Disconnecting(q) /\ (q[1].kind = "connect" \/ q[1].at # "queued")
              => Disconnecting(Tail(q))
<1> DEFINE n == Tail(q)
<1>1. /\ n \in Seq(Transitions) /\ Len(n) = Len(q) - 1 /\ Len(q) \in Nat
      /\ \A i \in 1..(Len(q) - 1) : n[i] = q[i + 1]
  OBVIOUS
<1> HIDE DEF n
<1>2. \A i \in 1..Len(n) : i + 1 \in 1..Len(q) /\ i + 1 > 1 /\ n[i] = q[i + 1]
  BY <1>1
<1>3. Ordered(n, asked)
  <2>1. \A i \in 1..Len(n) : Wellformed(n[i]) /\ n[i].at = "queued"
    BY <1>2 DEF Ordered
  <2>2. Len(n) > 0 => n[Len(n)] = q[Len(q)]
    BY <1>1
  <2> QED BY <1>1, <2>1, <2>2 DEF Ordered
<1>4. ASSUME Disconnecting(q), q[1].kind = "connect" \/ q[1].at # "queued"
      PROVE  Disconnecting(n)
  <2>1. PICK i \in 1..Len(q) : q[i].kind = "disconnect" /\ q[i].at = "queued"
    BY <1>4 DEF Disconnecting
  <2>2. i # 1
    BY <1>4, <2>1
  <2>3. i - 1 \in 1..Len(n) /\ n[i - 1] = q[i]
    BY <1>1, <2>1, <2>2
  <2> QED BY <2>1, <2>3 DEF Disconnecting
<1>5. Len(n) > 0 => n[1].at = "queued"
  BY <1>1, <1>2 DEF Ordered
<1> QED BY <1>1, <1>3, <1>4, <1>5 DEF n

LEMMA Marked ==
  ASSUME NEW q \in Seq(Transitions), NEW asked, Ordered(q, asked), Len(q) > 0,
         NEW x \in {"stopping", "starting"}, x = "starting" => q[1].kind = "connect"
  PROVE  /\ [q EXCEPT ![1].at = x] \in Seq(Transitions)
         /\ Len([q EXCEPT ![1].at = x]) = Len(q)
         /\ [q EXCEPT ![1].at = x][1].at = x
         /\ [q EXCEPT ![1].at = x][1].user = q[1].user
         /\ [q EXCEPT ![1].at = x][1].kind = q[1].kind
         /\ Ordered([q EXCEPT ![1].at = x], asked)
         /\ Disconnecting(q) /\ q[1].kind = "connect" => Disconnecting([q EXCEPT ![1].at = x])
<1> DEFINE n == [q EXCEPT ![1].at = x]
<1>0. Len(q) \in Nat /\ 1 \in 1..Len(q) /\ DOMAIN q = 1..Len(q) /\ q \in [1..Len(q) -> Transitions]
  OBVIOUS
<1>1. q[1] \in Transitions
  BY <1>0
<1>2. [q[1] EXCEPT !.at = x] \in Transitions
  BY <1>1 DEF Transitions
<1>3. /\ n[1] = [q[1] EXCEPT !.at = x]
      /\ \A i \in 2..Len(q) : n[i] = q[i]
      /\ n \in [1..Len(q) -> Transitions]
  BY <1>0, <1>2
<1>4. n \in Seq(Transitions) /\ Len(n) = Len(q)
  BY <1>0, <1>3
<1>5. n[1].at = x /\ n[1].user = q[1].user /\ n[1].kind = q[1].kind
  BY <1>1, <1>3 DEF Transitions
<1> HIDE DEF n
<1>6. Wellformed(n[1])
  BY <1>0, <1>5 DEF Ordered, Wellformed
<1>7. Ordered(n, asked)
  <2>1. ASSUME NEW i \in 1..Len(n) PROVE Wellformed(n[i]) /\ (i > 1 => n[i].at = "queued")
    <3>1. CASE i = 1
      BY <1>6, <3>1
    <3>2. CASE i > 1
      BY <1>3, <1>4, <3>2 DEF Ordered
    <3> QED BY <1>4, <3>1, <3>2
  <2>2. n[Len(n)].user = q[Len(q)].user
    <3>1. CASE Len(q) = 1
      BY <1>4, <1>5, <3>1
    <3>2. CASE Len(q) > 1
      BY <1>0, <1>3, <1>4, <3>2
    <3> QED BY <1>0, <3>1, <3>2
  <2> QED BY <1>4, <2>1, <2>2 DEF Ordered
<1>8. ASSUME Disconnecting(q), q[1].kind = "connect" PROVE Disconnecting(n)
  <2>1. PICK i \in 1..Len(q) : q[i].kind = "disconnect" /\ q[i].at = "queued"
    BY <1>8 DEF Disconnecting
  <2>2. i \in 2..Len(q)
    BY <1>8, <2>1
  <2> QED BY <1>3, <1>4, <2>1, <2>2 DEF Disconnecting
<1> QED BY <1>4, <1>5, <1>7, <1>8 DEF n

-----------------------------------------------------------------------------
(* The steps of the chat.                                                    *)

LEMMA ChatConstants == Nobody \in Chat!Owners /\ Nobody \notin Users /\ Users \subseteq Chat!Owners
BY NobodyIsNoUser DEF Chat!Owners

LEMMA ConnectionTypes ==
  ASSUME NEW c \in Connections
  PROVE  /\ c # Chat!NoConnection => c.of \in Users
         /\ c.state \in {"connecting", "connected", "reconnecting"} <=> c # Chat!NoConnection
BY ChatConstants DEF Connections, Connected, Chat!NoConnection

\* The account changes: a handshake under way is at risk from now on.
LEMMA Switched ==
  ASSUME ChatInv, Chat!Switches
  PROVE  /\ connection' \in Connections /\ IdentityInv'
         /\ connection' = Chat!NoConnection <=> connection = Chat!NoConnection
         /\ connection'.of = connection.of /\ connection'.state = connection.state
<1>0. connection \in Connections /\ IdentityInv
  BY DEF ChatInv, ChatTyped
<1>1. CASE connection.state = "connecting" /\ connection.as = Nobody
  <2>1. connection \in Connected /\ connection # Chat!NoConnection
    BY <1>0, <1>1 DEF Connections, Chat!NoConnection
  <2>2. connection' = [connection EXCEPT !.risk = "switch"]
    BY <1>1 DEF Chat!Switches
  <2>3. /\ connection' \in Connected /\ connection'.risk = "switch"
        /\ connection'.of = connection.of /\ connection'.state = "connecting"
    BY <1>1, <2>1, <2>2 DEF Connected, Chat!Risks
  <2> QED BY <1>1, <2>1, <2>3 DEF Connections, IdentityInv, Chat!NoConnection
<1>2. CASE ~(connection.state = "connecting" /\ connection.as = Nobody)
  <2>1. connection' = connection
    BY <1>2 DEF Chat!Switches
  <2>2. connection # Chat!NoConnection => connection.as # Nobody
    BY <1>0, <1>2, ConnectionTypes DEF IdentityInv
  <2> QED BY <1>0, <2>1, <2>2 DEF IdentityInv
<1> QED BY <1>1, <1>2

\* A transition is queued: the work of the one that runs goes on as before.
LEMMA Queued ==
  ASSUME ChatInv, NEW t \in Transitions, t.at = "queued", Wellformed(t),
         queue' = Append(queue, t), requested' = t.user,
         t.kind = "disconnect" \/ intentional' = intentional,
         connection' = Chat!NoConnection <=> connection = Chat!NoConnection,
         connection'.of = connection.of, connection'.state = connection.state,
         UNCHANGED <<lastKnown, current>>
  PROVE  /\ queue' \in Seq(Transitions) /\ Len(queue') > 0
         /\ Ordered(queue, requested)' /\ HeadInv' /\ ConnectionInv' /\ Chat!ConnectionOwed'
<1>0. queue \in Seq(Transitions) /\ Ordered(queue, requested) /\ Len(queue) \in Nat
  BY DEF ChatInv, ChatTyped
<1>1. /\ queue' \in Seq(Transitions) /\ Len(queue') = Len(queue) + 1
      /\ Len(queue) > 0 => queue'[1] = queue[1]
      /\ Len(queue) = 0 => queue'[1] = t
      /\ Ordered(queue', t.user)
      /\ Disconnecting(queue) => Disconnecting(queue')
      /\ t.kind = "disconnect" => Disconnecting(queue')
  BY <1>0, Appended
<1>2. Ordered(queue, requested)'
  BY <1>1
<1>3. HeadInv'
  BY <1>0, <1>1 DEF ChatInv, HeadInv
<1>4. ConnectionInv'
  <2>1. t.kind # "disconnect" => t.user # Nobody
    BY ChatConstants DEF Wellformed, Transitions
  <2> QED BY <1>0, <1>1, <2>1 DEF ChatInv, ConnectionInv
<1>5. Chat!ConnectionOwed'
  BY <1>0, <1>1 DEF Chat!ConnectionOwed
<1> QED BY <1>0, <1>1, <1>2, <1>3, <1>4, <1>5

LEMMA SignInInv == ASSUME ChatInv, NEW u \in Users, Chat!SignIn(u) PROVE ChatInv'
<1>0. ChatTyped /\ AccountInv /\ u \in Chat!Owners /\ u # Nobody
  BY ChatConstants DEF ChatInv
<1>u. /\ user' = u
      /\ UNCHANGED <<session, imported, current, lastKnown, intentional, attempt,
                     sending, exchange, abandoned>>
  BY DEF Chat!SignIn
<1>v. /\ connection' \in Connections /\ IdentityInv'
      /\ connection' = Chat!NoConnection <=> connection = Chat!NoConnection
      /\ connection'.of = connection.of /\ connection'.state = connection.state
  BY Switched DEF Chat!SignIn
<1>1. CASE ~imported
  <2>1. UNCHANGED <<timer, requested, queue>>
    BY <1>1 DEF Chat!SignIn
  <2> QED
    BY <1>0, <1>u, <1>v, <1>1, <2>1
       DEF ChatInv, ChatTyped, HeadInv, ConnectionInv, AccountInv, Chat!SentAsSender,
           Chat!ConnectionOwed
<1>2. CASE imported
  <2> DEFINE t == Chat!Transition("connect", u, FALSE)
  <2>1. /\ timer' = IF requested = u THEN timer ELSE Nobody
        /\ requested' = u /\ queue' = Append(queue, t)
    BY <1>2 DEF Chat!SignIn, Chat!Connects
  <2>2. t \in Transitions /\ t.at = "queued" /\ t.kind = "connect" /\ t.user = u /\ Wellformed(t)
    BY <1>0 DEF Chat!Transition, Transitions, Wellformed
  <2> HIDE DEF t
  <2>3. /\ queue' \in Seq(Transitions) /\ Len(queue') > 0
        /\ Ordered(queue, requested)' /\ HeadInv' /\ ConnectionInv' /\ Chat!ConnectionOwed'
    BY <1>u, <1>v, <2>1, <2>2, Queued
  <2>4. ChatTyped'
    BY <1>0, <1>u, <1>v, <2>1, <2>3, ChatConstants DEF ChatTyped
  <2>5. AccountInv'
    BY <1>0, <1>u, <1>2, <2>1 DEF AccountInv
  <2>6. Chat!SentAsSender'
    BY <1>u DEF ChatInv, Chat!SentAsSender
  <2> QED BY <1>v, <2>3, <2>4, <2>5, <2>6 DEF ChatInv
<1> QED BY <1>1, <1>2

LEMMA ImportedInv == ASSUME ChatInv, Chat!Imported PROVE ChatInv'
<1>0. ChatTyped /\ AccountInv /\ user \in Users /\ user \in Chat!Owners
  BY ChatConstants DEF ChatInv, ChatTyped, Chat!Imported, Chat!Owners
<1>u. UNCHANGED <<user, session, current, lastKnown, intentional, connection, attempt,
                  sending, exchange, abandoned>>
  BY DEF Chat!Imported
<1>i. imported' \in BOOLEAN /\ imported'
  BY Zenon DEF Chat!Imported
<1> DEFINE t == Chat!Transition("connect", user, FALSE)
<1>1. /\ timer' = IF requested = user THEN timer ELSE Nobody
      /\ requested' = user /\ queue' = Append(queue, t)
  BY DEF Chat!Imported, Chat!Connects
<1>2. t \in Transitions /\ t.at = "queued" /\ t.kind = "connect" /\ t.user = user /\ Wellformed(t)
  BY <1>0 DEF Chat!Transition, Transitions, Wellformed
<1> HIDE DEF t
<1>3. /\ queue' \in Seq(Transitions) /\ Len(queue') > 0
      /\ Ordered(queue, requested)' /\ HeadInv' /\ ConnectionInv' /\ Chat!ConnectionOwed'
  BY <1>u, <1>1, <1>2, Queued
<1>4. ChatTyped'
  BY <1>0, <1>i, <1>u, <1>1, <1>3, ChatConstants DEF ChatTyped
<1>5. AccountInv'
  BY <1>0, <1>u, <1>i, <1>1 DEF AccountInv
<1>6. Chat!SentAsSender' /\ IdentityInv'
  BY <1>u DEF ChatInv, Chat!SentAsSender, IdentityInv
<1> QED BY <1>3, <1>4, <1>5, <1>6 DEF ChatInv

LEMMA SignOutInv == ASSUME ChatInv, Chat!SignOut PROVE ChatInv'
<1>0. ChatTyped /\ AccountInv
  BY DEF ChatInv
<1>u. /\ user' = Nobody
      /\ UNCHANGED <<session, imported, current, lastKnown, attempt,
                     sending, exchange, abandoned>>
  BY DEF Chat!SignOut
<1>v. /\ connection' \in Connections /\ IdentityInv'
      /\ connection' = Chat!NoConnection <=> connection = Chat!NoConnection
      /\ connection'.of = connection.of /\ connection'.state = connection.state
  BY Switched DEF Chat!SignOut
<1>1. CASE ~imported
  <2>1. UNCHANGED <<timer, requested, queue, intentional>>
    BY <1>1 DEF Chat!SignOut
  <2> QED
    BY <1>0, <1>u, <1>v, <1>1, <2>1, ChatConstants
       DEF ChatInv, ChatTyped, HeadInv, ConnectionInv, AccountInv, Chat!SentAsSender,
           Chat!ConnectionOwed
<1>2. CASE imported
  <2> DEFINE t == Chat!Transition("disconnect", Nobody, FALSE)
  <2>1. timer' = Nobody /\ requested' = Nobody /\ queue' = Append(queue, t)
    BY <1>2 DEF Chat!SignOut, Chat!Disconnects
  <2>i. intentional' \in BOOLEAN
    BY <1>2, Zenon DEF Chat!SignOut, Chat!Disconnects
  <2>2. /\ t \in Transitions /\ t.at = "queued" /\ t.kind = "disconnect" /\ t.user = Nobody
        /\ Wellformed(t)
    BY ChatConstants DEF Chat!Transition, Transitions, Wellformed
  <2> HIDE DEF t
  <2>3. /\ queue' \in Seq(Transitions) /\ Len(queue') > 0
        /\ Ordered(queue, requested)' /\ HeadInv' /\ ConnectionInv' /\ Chat!ConnectionOwed'
    BY <1>u, <1>v, <2>1, <2>2, Queued
  <2>4. ChatTyped'
    BY <1>0, <1>u, <1>v, <2>1, <2>i, <2>3, ChatConstants DEF ChatTyped
  <2>5. AccountInv'
    BY <1>0, <1>u, <1>2, <2>1 DEF AccountInv
  <2>6. Chat!SentAsSender'
    BY <1>u DEF ChatInv, Chat!SentAsSender
  <2> QED BY <1>v, <2>3, <2>4, <2>5, <2>6 DEF ChatInv
<1> QED BY <1>1, <1>2

\* The timer acts for the account asked for, and only while nobody signed out.
LEMMA TimerFiresInv == ASSUME ChatInv, Chat!TimerFires PROVE ChatInv'
<1>0. /\ ChatTyped /\ AccountInv /\ timer = requested /\ ~intentional
      /\ timer \in Users /\ timer \in Chat!Owners
  BY ChatConstants DEF ChatInv, ChatTyped, AccountInv, Chat!TimerFires, Chat!Owners
<1>u. UNCHANGED <<user, session, imported, current, lastKnown, intentional, connection, attempt,
                  sending, exchange, abandoned>>
  BY DEF Chat!TimerFires
<1> DEFINE t == Chat!Transition("connect", timer, TRUE)
<1>1. timer' = Nobody /\ requested' = timer /\ queue' = Append(queue, t)
  BY <1>0 DEF Chat!TimerFires
<1>2. t \in Transitions /\ t.at = "queued" /\ t.kind = "connect" /\ t.user = timer /\ Wellformed(t)
  BY <1>0 DEF Chat!Transition, Transitions, Wellformed
<1> HIDE DEF t
<1>3. /\ queue' \in Seq(Transitions) /\ Len(queue') > 0
      /\ Ordered(queue, requested)' /\ HeadInv' /\ ConnectionInv' /\ Chat!ConnectionOwed'
  BY <1>u, <1>1, <1>2, Queued
<1>4. ChatTyped'
  BY <1>0, <1>u, <1>1, <1>3, ChatConstants DEF ChatTyped
<1>5. AccountInv'
  BY <1>0, <1>u, <1>1, ChatConstants DEF AccountInv
<1>6. Chat!SentAsSender' /\ IdentityInv'
  BY <1>u DEF ChatInv, Chat!SentAsSender, IdentityInv
<1> QED BY <1>3, <1>4, <1>5, <1>6 DEF ChatInv

LEMMA HeadFacts ==
  ASSUME ChatInv, queue # << >>
  PROVE  /\ queue \in Seq(Transitions) /\ Len(queue) \in Nat /\ Len(queue) > 0
         /\ queue[1] \in Transitions /\ Wellformed(queue[1])
         /\ Len(queue) = 1 => queue[1].user = requested
<1>1. queue \in Seq(Transitions) /\ Ordered(queue, requested)
  BY DEF ChatInv, ChatTyped
<1>2. Len(queue) \in Nat /\ Len(queue) > 0 /\ queue[1] \in Transitions
  BY <1>1
<1> QED BY <1>1, <1>2 DEF Ordered

\* The first transition is over: the next one has not begun.
LEMMA Overs ==
  ASSUME ChatInv, queue # << >>, Chat!Over, UNCHANGED requested
  PROVE  /\ queue' \in Seq(Transitions) /\ Len(queue') = Len(queue) - 1 /\ Len(queue') \in Nat
         /\ Len(queue') = 0 => queue[1].user = requested
         /\ Ordered(queue, requested)' /\ HeadInv'
         /\ Disconnecting(queue) /\ (queue[1].kind = "connect" \/ queue[1].at # "queued")
              => Disconnecting(queue')
<1>0. /\ queue \in Seq(Transitions) /\ Len(queue) \in Nat /\ Len(queue) > 0
      /\ Len(queue) = 1 => queue[1].user = requested
      /\ Ordered(queue, requested) /\ queue' = Tail(queue)
  BY HeadFacts DEF ChatInv, Chat!Over
<1>1. /\ queue' \in Seq(Transitions) /\ Len(queue') = Len(queue) - 1
      /\ Len(queue') > 0 => queue'[1].at = "queued"
      /\ Ordered(queue', requested)
      /\ Disconnecting(queue) /\ (queue[1].kind = "connect" \/ queue[1].at # "queued")
              => Disconnecting(queue')
  BY <1>0, Shortened
<1>2. HeadInv'
  BY <1>1 DEF HeadInv
<1>3. Ordered(queue, requested)'
  BY <1>1
<1> QED BY <1>0, <1>1, <1>2, <1>3

\* The first transition goes on to its next await.
LEMMA Marks ==
  ASSUME ChatInv, queue # << >>, NEW x \in {"stopping", "starting"},
         x = "starting" => queue[1].kind = "connect",
         queue' = [queue EXCEPT ![1].at = x], UNCHANGED requested
  PROVE  /\ queue' \in Seq(Transitions) /\ Len(queue') > 0
         /\ queue'[1].at = x /\ queue'[1].user = queue[1].user
         /\ Ordered(queue, requested)' /\ Chat!ConnectionOwed'
<1>0. queue \in Seq(Transitions) /\ Len(queue) > 0 /\ Ordered(queue, requested)
  BY HeadFacts DEF ChatInv
<1>1. /\ queue' \in Seq(Transitions) /\ Len(queue') = Len(queue)
      /\ queue'[1].at = x /\ queue'[1].user = queue[1].user
      /\ Ordered(queue', requested)
  BY <1>0, Marked
<1>2. Chat!ConnectionOwed'
  <2>1. queue' # << >>
    BY <1>0, <1>1, EmptyQueue
  <2> QED BY <2>1 DEF Chat!ConnectionOwed
<1>3. Ordered(queue, requested)'
  BY <1>1
<1> QED BY <1>0, <1>1, <1>2, <1>3

LEMMA DetachTypes ==
  ASSUME Chat!Detach
  PROVE  /\ intentional' \in BOOLEAN /\ timer' = Nobody /\ connection' = Chat!NoConnection
         /\ current' = Nobody /\ lastKnown' = Nobody
<1>1. intentional' \in BOOLEAN
  BY Zenon DEF Chat!Detach
<1> QED BY <1>1 DEF Chat!Detach

\* A new connection is for the account asked for, and nobody means to end it.
LEMMA NewConnectionInv ==
  ASSUME ChatInv, queue # << >>, queue[1].kind = "connect", queue[1].user = requested,
         Chat!NewConnection(queue[1].user),
         UNCHANGED <<user, session, imported, requested, attempt, timer, sending, exchange>>
  PROVE  ChatInv'
<1>0. ChatTyped /\ AccountInv /\ requested \in Users /\ requested \in Chat!Owners
  BY HeadFacts, ChatConstants DEF ChatInv, Wellformed
<1>1. /\ current' = requested /\ lastKnown' = requested
      /\ connection' = [of |-> requested, as |-> Nobody, risk |-> "none", state |-> "connecting"]
      /\ queue' = [queue EXCEPT ![1].at = "starting"]
  BY DEF Chat!NewConnection
<1>2. intentional' \in BOOLEAN /\ ~intentional' /\ abandoned' \in BOOLEAN
  BY Zenon DEF Chat!NewConnection
<1>3. /\ queue' \in Seq(Transitions) /\ Len(queue') > 0
      /\ queue'[1].at = "starting" /\ queue'[1].user = requested
      /\ Ordered(queue, requested)' /\ Chat!ConnectionOwed'
  BY <1>1, Marks
<1>4. connection' \in Connections /\ connection' # Chat!NoConnection /\ connection'.of = requested
  BY <1>0, <1>1, ChatConstants DEF Connections, Connected, Chat!Risks, Chat!NoConnection
<1>5. ChatTyped'
  BY <1>0, <1>1, <1>2, <1>3, <1>4 DEF ChatTyped
<1>6. HeadInv'
  BY <1>1, <1>3 DEF HeadInv
<1>7. ConnectionInv'
  BY <1>0, <1>1, <1>2, <1>3, <1>4, ChatConstants DEF ConnectionInv
<1>8. AccountInv'
  <2>1. imported
    BY <1>0, ChatConstants DEF AccountInv
  <2> QED BY <1>0, <1>2, <2>1 DEF AccountInv
<1>9. IdentityInv'
  <2>1. requested = user
    BY <1>0, ChatConstants DEF AccountInv
  <2> QED BY <1>1, <2>1 DEF IdentityInv
<1>10. Chat!SentAsSender'
  BY DEF ChatInv, Chat!SentAsSender
<1> QED BY <1>3, <1>5, <1>6, <1>7, <1>8, <1>9, <1>10 DEF ChatInv

LEMMA ConnectBeginsInv == ASSUME ChatInv, Chat!ConnectBegins PROVE ChatInv'
<1>0. /\ ChatTyped /\ AccountInv /\ queue # << >> /\ queue[1].kind = "connect"
      /\ UNCHANGED <<user, session, imported, requested, attempt, sending, exchange>>
      /\ queue[1].user \in Users
  BY HeadFacts DEF ChatInv, Chat!ConnectBegins, Chat!AtHead, Chat!Running, Wellformed
<1>s. Chat!SentAsSender'
  BY <1>0 DEF ChatInv, Chat!SentAsSender
<1>1. CASE /\ \/ requested # queue[1].user
              \/ connection # Chat!NoConnection /\ current = queue[1].user
           /\ Chat!Over
           /\ UNCHANGED <<current, lastKnown, intentional, connection, timer, abandoned>>
  <2>1. /\ queue' \in Seq(Transitions) /\ Len(queue') = Len(queue) - 1 /\ Len(queue') \in Nat
        /\ Len(queue') = 0 => queue[1].user = requested
        /\ Ordered(queue, requested)' /\ HeadInv'
        /\ Disconnecting(queue) => Disconnecting(queue')
    BY <1>0, <1>1, Overs
  <2>2. ChatTyped'
    BY <1>0, <1>1, <2>1 DEF ChatTyped
  <2>3. ConnectionInv'
    BY <1>0, <1>1, <2>1 DEF ChatInv, ConnectionInv
  <2>6. IdentityInv'
    BY <1>0, <1>1 DEF ChatInv, IdentityInv
  <2>4. AccountInv'
    BY <1>0, <1>1, <2>1, EmptyQueue DEF AccountInv, ChatTyped
  <2>5. Chat!ConnectionOwed'
    BY <1>0, <1>1, <2>1 DEF Chat!ConnectionOwed
  <2> QED BY <1>s, <2>1, <2>2, <2>3, <2>4, <2>5, <2>6 DEF ChatInv
<1>2. CASE /\ Chat!Detach
           /\ queue' = [queue EXCEPT ![1].at = "stopping"]
           /\ UNCHANGED abandoned
  <2>1. /\ queue' \in Seq(Transitions) /\ Len(queue') > 0
        /\ queue'[1].at = "stopping"
        /\ Ordered(queue, requested)' /\ Chat!ConnectionOwed'
    BY <1>0, <1>2, Marks
  <2>2. /\ intentional' \in BOOLEAN /\ timer' = Nobody /\ connection' = Chat!NoConnection
        /\ current' = Nobody /\ lastKnown' = Nobody
    BY <1>2, DetachTypes
  <2>3. ChatTyped'
    BY <1>0, <1>2, <2>1, <2>2, ChatConstants DEF ChatTyped, Connections
  <2>4. HeadInv' /\ ConnectionInv'
    BY <2>1, <2>2 DEF HeadInv, ConnectionInv
  <2>5. AccountInv'
    <3>1. Len(queue) # 0
      BY <1>0, HeadFacts
    <3> QED BY <1>0, <2>2, <3>1 DEF AccountInv
  <2>6. IdentityInv'
    BY <2>2 DEF IdentityInv, Chat!NoConnection
  <2> QED BY <1>s, <2>1, <2>3, <2>4, <2>5, <2>6 DEF ChatInv
<1>3. CASE /\ queue[1].user = requested
           /\ Chat!NewConnection(queue[1].user) /\ UNCHANGED timer
  BY <1>0, <1>3, NewConnectionInv
<1> QED BY <1>0, <1>1, <1>2, <1>3 DEF Chat!ConnectBegins, Chat!Running

\* The end of a transition that leaves no connection: what is asked for next,
\* if the queue is empty by then, has a timer, no attempt left or no one to try.
LEMMA OverWithout ==
  ASSUME ChatInv, queue # << >>, Chat!Over, connection' = Chat!NoConnection,
         current' \in Chat!Owners, lastKnown' \in Chat!Owners, intentional' \in BOOLEAN,
         abandoned' \in BOOLEAN, attempt' \in 0..5,
         timer' # Nobody => timer' = requested /\ ~intentional',
         UNCHANGED <<user, session, imported, requested, sending, exchange>>,
         requested = Nobody \/ requested # queue[1].user \/ timer' # Nobody \/ attempt' = 5
           \/ abandoned'
  PROVE  ChatInv'
<1>0. ChatTyped /\ AccountInv /\ Len(queue) > 0
  BY HeadFacts DEF ChatInv
<1>1. /\ queue' \in Seq(Transitions) /\ Len(queue') \in Nat
      /\ Len(queue') = 0 => queue[1].user = requested
      /\ Ordered(queue, requested)' /\ HeadInv'
  BY Overs
<1>2. timer' \in Chat!Owners
  BY <1>0, ChatConstants DEF ChatTyped
<1>3. ChatTyped'
  BY <1>0, <1>1, <1>2 DEF ChatTyped, Connections
<1>4. ConnectionInv'
  BY DEF ConnectionInv
<1>5. AccountInv'
  BY <1>0 DEF AccountInv
<1>6. Chat!ConnectionOwed'
  BY <1>1 DEF Chat!ConnectionOwed, Chat!MaxAttempts
<1>7. Chat!SentAsSender' /\ IdentityInv'
  BY DEF ChatInv, Chat!SentAsSender, IdentityInv, Chat!NoConnection
<1> QED BY <1>1, <1>3, <1>4, <1>5, <1>6, <1>7 DEF ChatInv

LEMMA RejectedTypes ==
  ASSUME ChatInv, NEW asked \in Chat!Owners, Chat!Rejected(asked), UNCHANGED intentional
  PROVE  /\ Chat!Over /\ attempt' \in 0..5 /\ abandoned' \in BOOLEAN
         /\ timer' # Nobody => timer' = requested /\ ~intentional'
         /\ asked = Nobody \/ ~queue[1].timed => abandoned'
         /\ queue[1].timed /\ asked # Nobody /\ asked = requested /\ ~intentional
              => timer' # Nobody \/ attempt' = 5
<1>0. ChatTyped /\ AccountInv /\ attempt \in 0..5
  BY DEF ChatInv, ChatTyped
<1>1. Chat!Over
  BY DEF Chat!Rejected
<1>2. abandoned' \in BOOLEAN /\ (asked = Nobody \/ ~queue[1].timed => abandoned')
  BY Zenon DEF Chat!Rejected, Chat!Running
<1>3. CASE queue[1].timed
  <2> DEFINE again == ~intentional /\ attempt < 5 /\ asked # Nobody /\ requested = asked
  <2>1. /\ timer' = IF again THEN asked ELSE Nobody
        /\ attempt' = IF again THEN attempt + 1 ELSE attempt
    BY <1>3 DEF Chat!Rejected, Chat!Running, Chat!ScheduleReconnect, Chat!MaxAttempts
  <2>2. attempt' \in 0..5
    BY <1>0, <2>1
  <2> QED BY <1>0, <1>1, <1>2, <2>1, <2>2
<1>4. CASE ~queue[1].timed
  <2>1. UNCHANGED <<timer, attempt>>
    BY <1>4 DEF Chat!Rejected, Chat!Running
  <2> QED BY <1>0, <1>1, <1>2, <1>4, <2>1 DEF AccountInv
<1> QED BY <1>3, <1>4

LEMMA PreviousStoppedInv ==
  ASSUME ChatInv, NEW ok \in BOOLEAN, Chat!PreviousStopped(ok)
  PROVE  ChatInv'
<1>0. /\ ChatTyped /\ AccountInv /\ queue # << >> /\ queue[1].kind = "connect"
      /\ UNCHANGED <<user, session, imported, requested, sending, exchange>>
      /\ connection = Chat!NoConnection /\ lastKnown = Nobody
  BY HeadFacts DEF ChatInv, HeadInv, Chat!PreviousStopped, Chat!AtHead, Chat!Running
<1>t. /\ current \in Chat!Owners /\ lastKnown \in Chat!Owners /\ intentional \in BOOLEAN
      /\ abandoned \in BOOLEAN /\ attempt \in 0..5
      /\ timer # Nobody => timer = requested /\ ~intentional
  BY <1>0 DEF ChatTyped, AccountInv
<1>1. CASE /\ Chat!Rejected(lastKnown)
           /\ UNCHANGED <<current, lastKnown, intentional, connection>>
  <2>1. /\ Chat!Over /\ attempt' \in 0..5 /\ abandoned' \in BOOLEAN
        /\ timer' # Nobody => timer' = requested /\ ~intentional'
        /\ abandoned'
    BY <1>0, <1>1, <1>t, RejectedTypes
  <2> QED BY <1>0, <1>1, <1>t, <2>1, OverWithout
<1>2. CASE /\ requested # queue[1].user /\ Chat!Over
           /\ UNCHANGED <<current, lastKnown, intentional, connection, timer, attempt, abandoned>>
  BY <1>0, <1>2, <1>t, OverWithout
<1>3. CASE /\ requested = queue[1].user
           /\ Chat!NewConnection(queue[1].user) /\ UNCHANGED <<timer, attempt>>
  BY <1>0, <1>3, NewConnectionInv
<1> QED BY <1>1, <1>2, <1>3 DEF Chat!PreviousStopped, Chat!Running

LEMMA StartedInv ==
  ASSUME ChatInv, NEW ok \in BOOLEAN, Chat!Started(ok)
  PROVE  ChatInv'
<1>0. /\ ChatTyped /\ AccountInv /\ queue # << >> /\ queue[1].kind = "connect"
      /\ UNCHANGED <<user, session, imported, requested, lastKnown, intentional, sending, exchange>>
      /\ connection.of = queue[1].user /\ connection.state = "connecting"
      /\ connection \in Connections
      /\ queue[1].user \in Users /\ queue[1].at = "starting"
  BY HeadFacts DEF ChatInv, ChatTyped, HeadInv, Chat!Started, Chat!AtHead, Chat!Running, Wellformed
<1>1. /\ connection # Chat!NoConnection /\ connection.of = queue[1].user
      /\ lastKnown = queue[1].user /\ current = queue[1].user /\ lastKnown # Nobody
      /\ intentional \/ requested = Nobody => Disconnecting(queue)
  BY <1>0, ConnectionTypes, ChatConstants DEF ChatInv, ConnectionInv
<1>2. CASE ok
  <2>1. /\ Chat!Over /\ connection' = [connection EXCEPT !.state = "connected"]
        /\ attempt' = IF requested = queue[1].user THEN 0 ELSE attempt
        /\ UNCHANGED <<current, timer, abandoned>> /\ connection.as # Nobody
    BY <1>2 DEF Chat!Started, Chat!Running
  <2>2. /\ connection' # Chat!NoConnection /\ connection'.of = queue[1].user
        /\ connection' \in Connections
        /\ connection'.as = connection.as /\ connection'.risk = connection.risk
    <3>1. connection \in Connected
      BY <1>0, <1>1 DEF Connections
    <3>2. /\ connection' \in Connected /\ connection'.of = connection.of
          /\ connection'.as = connection.as /\ connection'.risk = connection.risk
          /\ connection'.state = "connected"
      BY <2>1, <3>1 DEF Connected
    <3> QED BY <1>0, <3>2 DEF Connections, Chat!NoConnection
  <2>3. /\ queue' \in Seq(Transitions) /\ Len(queue') \in Nat
        /\ Len(queue') = 0 => queue[1].user = requested
        /\ Ordered(queue, requested)' /\ HeadInv'
        /\ Disconnecting(queue) => Disconnecting(queue')
    BY <1>0, <2>1, Overs
  <2>4. ChatTyped'
    <3>1. attempt' \in 0..5
      BY <1>0, <2>1 DEF ChatTyped
    <3> QED BY <1>0, <2>1, <2>2, <2>3, <3>1 DEF ChatTyped
  <2>5. ConnectionInv'
    BY <1>0, <1>1, <2>1, <2>2, <2>3 DEF ConnectionInv
  <2>6. AccountInv'
    <3>1. Len(queue) # 0
      BY <1>0, HeadFacts
    <3> QED BY <1>0, <2>1, <3>1 DEF AccountInv
  <2>7. Chat!ConnectionOwed'
    BY <2>2 DEF Chat!ConnectionOwed
  <2>8. Chat!SentAsSender'
    BY <1>0 DEF ChatInv, Chat!SentAsSender
  <2>9. IdentityInv'
    BY <1>0, <1>1, <2>1, <2>2 DEF ChatInv, IdentityInv
  <2> QED BY <2>3, <2>4, <2>5, <2>6, <2>7, <2>8, <2>9 DEF ChatInv
<1>3. CASE ~ok
  <2>1. connection' = Chat!NoConnection /\ current' = Nobody /\ Chat!Rejected(lastKnown)
    BY <1>3 DEF Chat!Started
  <2>2. lastKnown \in Chat!Owners /\ lastKnown' \in Chat!Owners /\ intentional' \in BOOLEAN
    BY <1>0 DEF ChatTyped
  <2>3. /\ Chat!Over /\ attempt' \in 0..5 /\ abandoned' \in BOOLEAN
        /\ timer' # Nobody => timer' = requested /\ ~intentional'
        /\ ~queue[1].timed => abandoned'
        /\ queue[1].timed /\ lastKnown = requested /\ ~intentional
              => timer' # Nobody \/ attempt' = 5
    BY <1>0, <1>1, <2>1, <2>2, RejectedTypes
  <2>4. CASE Disconnecting(queue)
    \* Somebody has signed out since: the queue does not end here.
    <3>1. /\ queue' \in Seq(Transitions) /\ Len(queue') \in Nat /\ Len(queue') # 0
          /\ Ordered(queue, requested)' /\ HeadInv'
      BY <1>0, <2>3, <2>4, Overs DEF Disconnecting
    <3>2. timer' \in Chat!Owners
      BY <1>0, <2>3, ChatConstants DEF ChatTyped
    <3>3. ChatTyped'
      BY <1>0, <2>1, <2>2, <2>3, <3>1, <3>2, ChatConstants DEF ChatTyped, Connections
    <3>4. ConnectionInv' /\ Chat!ConnectionOwed'
      BY <2>1, <3>1, EmptyQueue DEF ConnectionInv, Chat!ConnectionOwed
    <3>5. AccountInv'
      <4>1. Len(queue) # 0
        BY <1>0, HeadFacts
      <4> QED BY <1>0, <2>3, <4>1 DEF AccountInv
    <3>6. Chat!SentAsSender' /\ IdentityInv'
      BY <1>0, <2>1 DEF ChatInv, Chat!SentAsSender, IdentityInv, Chat!NoConnection
    <3> QED BY <3>1, <3>3, <3>4, <3>5, <3>6 DEF ChatInv
  <2>5. CASE ~Disconnecting(queue)
    <3>1. requested # queue[1].user \/ timer' # Nobody \/ attempt' = 5 \/ abandoned'
      BY <1>1, <2>3, <2>5
    <3> QED BY <1>0, <2>1, <2>2, <2>3, <3>1, ChatConstants, OverWithout
  <2> QED BY <2>4, <2>5
<1> QED BY <1>2, <1>3

LEMMA DisconnectInv == ASSUME ChatInv, Chat!DisconnectBegins \/ Chat!Disconnected PROVE ChatInv'
<1>0. /\ ChatTyped /\ AccountInv /\ queue # << >> /\ queue[1].kind = "disconnect"
      /\ UNCHANGED <<user, session, imported, requested, attempt, sending, exchange, abandoned>>
      /\ queue[1].user = Nobody
  BY HeadFacts DEF ChatInv, Chat!DisconnectBegins, Chat!Disconnected, Chat!AtHead, Chat!Running,
                   Wellformed
<1>t. /\ abandoned' \in BOOLEAN /\ attempt' \in 0..5
      /\ requested = Nobody \/ requested # queue[1].user
  BY <1>0 DEF ChatTyped
<1>1. CASE Chat!DisconnectBegins
  <2>1. /\ intentional' \in BOOLEAN /\ timer' = Nobody /\ connection' = Chat!NoConnection
        /\ current' = Nobody /\ lastKnown' = Nobody
    BY <1>1, DetachTypes DEF Chat!DisconnectBegins
  <2>2. CASE Chat!Over
    BY <1>0, <1>t, <2>1, <2>2, ChatConstants, OverWithout
  <2>3. CASE queue' = [queue EXCEPT ![1].at = "stopping"]
    <3>1. /\ queue' \in Seq(Transitions) /\ Len(queue') > 0
          /\ queue'[1].at = "stopping"
          /\ Ordered(queue, requested)' /\ Chat!ConnectionOwed'
      BY <1>0, <2>3, Marks
    <3>2. ChatTyped'
      BY <1>0, <2>1, <3>1, ChatConstants DEF ChatTyped, Connections
    <3>3. HeadInv' /\ ConnectionInv'
      BY <2>1, <3>1 DEF HeadInv, ConnectionInv
    <3>4. AccountInv'
      <4>1. Len(queue) # 0
        BY <1>0, HeadFacts
      <4> QED BY <1>0, <2>1, <4>1 DEF AccountInv
    <3>5. Chat!SentAsSender' /\ IdentityInv'
      BY <1>0, <2>1 DEF ChatInv, Chat!SentAsSender, IdentityInv, Chat!NoConnection
    <3> QED BY <3>1, <3>2, <3>3, <3>4, <3>5 DEF ChatInv
  <2> QED BY <1>1, <2>2, <2>3 DEF Chat!DisconnectBegins
<1>2. CASE Chat!Disconnected
  <2>1. /\ Chat!Over /\ UNCHANGED <<current, lastKnown, intentional, connection, timer>>
        /\ connection = Chat!NoConnection
    BY <1>0, <1>2, HeadFacts DEF ChatInv, HeadInv, Chat!Disconnected, Chat!AtHead, Chat!Running
  <2>2. /\ current' \in Chat!Owners /\ lastKnown' \in Chat!Owners /\ intentional' \in BOOLEAN
        /\ timer' # Nobody => timer' = requested /\ ~intentional'
    BY <1>0, <2>1 DEF ChatTyped, AccountInv
  <2> QED BY <1>0, <1>t, <2>1, <2>2, OverWithout
<1> QED BY <1>1, <1>2

\* A connection that works by itself: nothing is queued, and it is of the
\* account asked for.
LEMMA Working ==
  ASSUME ChatInv, Chat!Quiet, connection.state \in {"connected", "reconnecting"}
  PROVE  /\ Len(queue) = 0 /\ connection # Chat!NoConnection /\ connection \in Connections
         /\ connection.of \in Users /\ connection.of = requested /\ lastKnown = requested
         /\ requested = user /\ ~intentional
<1>0. ChatTyped /\ AccountInv /\ connection \in Connections /\ queue \in Seq(Transitions)
  BY DEF ChatInv, ChatTyped
<1>1. connection # Chat!NoConnection /\ connection.of \in Users
  BY <1>0, ConnectionTypes
<1>2. queue = << >>
  <2> SUFFICES ASSUME queue # << >> PROVE FALSE
    OBVIOUS
  <2>1. queue[1] \in Transitions /\ Len(queue) > 0 /\ queue[1].at # "queued"
    BY HeadFacts DEF Chat!Quiet, Chat!Running
  <2>2. queue[1].at \in {"stopping", "starting"}
    BY <2>1 DEF Transitions
  <2> QED BY <1>1, <2>1, <2>2 DEF ChatInv, HeadInv
<1>3. Len(queue) = 0
  BY <1>0, <1>2, EmptyQueue
<1>4. ~Disconnecting(queue)
  BY <1>3 DEF Disconnecting
<1>5. lastKnown = connection.of /\ connection.of = requested /\ ~intentional /\ requested # Nobody
  BY <1>1, <1>3, <1>4 DEF ChatInv, ConnectionInv
<1> QED BY <1>0, <1>1, <1>3, <1>5 DEF AccountInv

\* The cookie changes behind the page's back.
LEMMA SessionChangesInv ==
  ASSUME ChatInv, NEW u \in Chat!Owners, Chat!SessionChanges(u) PROVE ChatInv'
BY DEF ChatInv, ChatTyped, HeadInv, ConnectionInv, AccountInv, IdentityInv, Chat!SentAsSender,
       Chat!ConnectionOwed, Chat!SessionChanges

\* A connection that keeps its account keeps everything but its identity.
LEMMA ConnectionKept ==
  ASSUME ChatInv, connection' \in Connected, connection \in Connected,
         connection'.of = connection.of, IdentityInv',
         connection.state = "connecting" => connection'.state = "connecting",
         UNCHANGED <<user, session, imported, requested, current, lastKnown, intentional, attempt,
                     timer, queue, sending, exchange, abandoned>>
  PROVE  ChatInv'
<1>1. /\ connection' # Chat!NoConnection /\ connection' \in Connections
      /\ connection # Chat!NoConnection
  BY DEF Connections, Connected, Chat!NoConnection
<1>2. ChatTyped'
  BY <1>1 DEF ChatInv, ChatTyped
<1>3. HeadInv' /\ ConnectionInv' /\ AccountInv'
  BY <1>1 DEF ChatInv, HeadInv, ConnectionInv, AccountInv
<1>4. Chat!SentAsSender' /\ Chat!ConnectionOwed' /\ Ordered(queue, requested)'
  BY <1>1 DEF ChatInv, Chat!SentAsSender, Chat!ConnectionOwed
<1> QED BY <1>2, <1>3, <1>4 DEF ChatInv

LEMMA NegotiatedInv == ASSUME ChatInv, Chat!Negotiated PROVE ChatInv'
<1>0. /\ connection \in Connections /\ connection.state = "connecting"
      /\ session \in Chat!Owners /\ connection.as = Nobody /\ session # Nobody /\ IdentityInv
  BY HeadFacts DEF ChatInv, ChatTyped, HeadInv, Chat!Negotiated, Chat!AtHead, Chat!Running
<1>1. connection \in Connected /\ connection # Chat!NoConnection
  BY <1>0 DEF Connections, Chat!NoConnection
<1> DEFINE k == IF session = user THEN connection.risk ELSE "cookie"
<1>2. connection' = [connection EXCEPT !.as = session, !.risk = k] /\ UNCHANGED user
  BY DEF Chat!Negotiated
<1>k. k \in Chat!Risks /\ (k = "none" => session = user /\ connection.risk = "none")
  BY <1>1 DEF Connected, Chat!Risks
<1> HIDE DEF k
<1>3. /\ connection' \in Connected /\ connection'.of = connection.of
      /\ connection'.state = "connecting" /\ connection'.as = session /\ connection'.risk = k
  BY <1>0, <1>1, <1>2, <1>k DEF Connected
<1>4. IdentityInv'
  <2>1. connection.of # Nobody
    BY <1>1, ChatConstants DEF Connected
  <2> QED BY <1>0, <1>1, <1>2, <1>3, <1>k, <2>1 DEF IdentityInv
<1> QED BY <1>1, <1>3, <1>4, ConnectionKept DEF Chat!Negotiated

LEMMA InterruptedInv == ASSUME ChatInv, Chat!Interrupted \/ Chat!Reconnected PROVE ChatInv'
<1>0. /\ connection \in Connected /\ connection.of = user /\ session \in Chat!Owners
      /\ connection.state \in {"connected", "reconnecting"} /\ IdentityInv
  BY Working DEF Chat!Interrupted, Chat!Reconnected, Connections, ChatInv, ChatTyped
<1>u. UNCHANGED <<user, session, imported, requested, current, lastKnown, intentional, attempt,
                  timer, queue, sending, exchange, abandoned>>
  BY DEF Chat!Interrupted, Chat!Reconnected
<1>1. CASE Chat!Interrupted
  <2>1. connection' = [connection EXCEPT !.state = "reconnecting"]
    BY <1>1 DEF Chat!Interrupted
  <2>2. /\ connection' \in Connected /\ connection'.of = connection.of
        /\ connection'.as = connection.as /\ connection'.risk = connection.risk
    BY <1>0, <2>1 DEF Connected
  <2>3. IdentityInv'
    BY <1>0, <1>u, <2>2 DEF IdentityInv, Chat!NoConnection
  <2> QED BY <1>0, <1>u, <2>2, <2>3, ConnectionKept
<1>2. CASE Chat!Reconnected
  <2> DEFINE k == Chat!CookieRisk
  <2>1. /\ connection' = [connection EXCEPT !.state = "connected", !.as = session, !.risk = k]
        /\ session # Nobody
    BY <1>2 DEF Chat!Reconnected
  <2>k. k \in Chat!Risks /\ (k = "none" => session = user)
    BY DEF Chat!CookieRisk, Chat!Risks
  <2> HIDE DEF k
  <2>2. /\ connection' \in Connected /\ connection'.of = connection.of
        /\ connection'.as = session /\ connection'.risk = k
    BY <1>0, <2>1, <2>k DEF Connected
  <2>3. IdentityInv'
    BY <1>0, <2>1, <2>2, <2>k DEF IdentityInv
  <2> QED BY <1>0, <1>u, <2>2, <2>3, ConnectionKept
<1> QED BY <1>1, <1>2

LEMMA ClosedInv == ASSUME ChatInv, Chat!Closed PROVE ChatInv'
<1>0. /\ Len(queue) = 0 /\ lastKnown = requested /\ requested \in Users /\ ~intentional
      /\ ChatTyped
  BY Working DEF Chat!Closed, ChatInv
<1>1. /\ connection' = Chat!NoConnection /\ current' = Nobody
      /\ Chat!ScheduleReconnect(lastKnown)
      /\ UNCHANGED <<user, session, imported, requested, lastKnown, intentional, queue, sending,
                     exchange, abandoned>>
  BY <1>0 DEF Chat!Closed
<1>2. /\ timer' = IF attempt < 5 THEN requested ELSE Nobody
      /\ attempt' = IF attempt < 5 THEN attempt + 1 ELSE attempt
  BY <1>0, <1>1, ChatConstants DEF Chat!ScheduleReconnect, Chat!MaxAttempts
<1>3. attempt' \in 0..5 /\ (timer' # Nobody \/ attempt' = 5) /\ timer' \in {Nobody, requested}
  BY <1>0, <1>2, ChatConstants DEF ChatTyped
<1>4. ChatTyped'
  BY <1>0, <1>1, <1>3, ChatConstants DEF ChatTyped, Connections
<1>5. HeadInv' /\ ConnectionInv'
  BY <1>0, <1>1 DEF HeadInv, ConnectionInv
<1>6. AccountInv'
  BY <1>0, <1>1, <1>3 DEF ChatInv, AccountInv
<1>7. Chat!ConnectionOwed'
  BY <1>3 DEF Chat!ConnectionOwed, Chat!MaxAttempts
<1>8. Chat!SentAsSender' /\ Ordered(queue, requested)' /\ IdentityInv'
  BY <1>1 DEF ChatInv, Chat!SentAsSender, IdentityInv, Chat!NoConnection
<1> QED BY <1>4, <1>5, <1>6, <1>7, <1>8 DEF ChatInv

\* Messages: the account asked for is the one the page shows, so what goes out
\* or comes in is on its behalf; a cookie of the same account makes it the
\* account the server knows.
LEMMA MessagesInv ==
  ASSUME ChatInv, Chat!Pushed \/ Chat!Send \/ Chat!Invoked \/ Chat!InvokeFails
  PROVE  ChatInv'
<1> DEFINE Exchanges == [for : Chat!Owners, page : Chat!Owners, server : Chat!Owners,
                         risk : Chat!Risks]
           Own(e) == /\ e \in Exchanges /\ e.for = e.page
                     /\ e.risk = "none" => e.server = e.for
<1>0. /\ ChatTyped /\ AccountInv /\ Own(exchange) /\ IdentityInv
      /\ connection \in Connections /\ session \in Chat!Owners /\ user \in Chat!Owners
  BY DEF ChatInv, ChatTyped, Chat!SentAsSender
<1>u. UNCHANGED <<user, session, imported, requested, current, lastKnown, intentional, connection,
                  attempt, timer, queue, abandoned>>
  BY DEF Chat!Pushed, Chat!Send, Chat!Invoked, Chat!InvokeFails
<1>a. requested # Nobody => requested = user
  BY <1>0 DEF AccountInv
<1>p. ASSUME Chat!Posts(user) PROVE Own(exchange')
  <2>1. CASE session = Nobody
    BY <1>0, <1>p, <2>1 DEF Chat!Posts
  <2>2. CASE session # Nobody
    BY <1>0, <1>p, <2>2 DEF Chat!Posts, Chat!Exchanged, Chat!CookieRisk, Chat!Risks
  <2> QED BY <2>1, <2>2
<1>h. ASSUME Chat!Quiet, connection.state = "connected",
             exchange' = Chat!Exchanged(user, connection.as, connection.risk)
      PROVE  Own(exchange')
  <2>1. connection \in Connected /\ connection.of = user /\ connection # Chat!NoConnection
    BY <1>h, Working DEF Connections
  <2>2. connection.risk = "none" => connection.as = user
    BY <1>0, <1>h, <2>1 DEF IdentityInv
  <2> QED BY <1>0, <1>h, <2>1, <2>2 DEF Chat!Exchanged, Connected
<1>1. sending' \in Chat!Owners /\ Own(exchange')
  <2>1. CASE Chat!Pushed
    <3>1. connection.of = user
      BY <2>1, Working DEF Chat!Pushed
    <3> QED BY <1>0, <1>h, <2>1, <3>1 DEF Chat!Pushed, ChatTyped
  <2>2. CASE Chat!Send
    <3>1. current = user
      BY <1>a, <2>2 DEF Chat!Send, Chat!CanSend
    <3> QED BY <1>0, <1>h, <1>p, <2>2, <3>1 DEF Chat!Send, ChatTyped
  <2>3. CASE Chat!Invoked
    BY <1>0, <2>3, ChatConstants DEF Chat!Invoked
  <2>4. CASE Chat!InvokeFails
    <3>1. Chat!SameAccount => sending = user
      BY <1>a, <2>4 DEF Chat!SameAccount, Chat!InvokeFails
    <3>2. sending' = Nobody /\ (Own(exchange') \/ exchange' = exchange)
      BY <1>p, <2>4, <3>1 DEF Chat!InvokeFails
    <3> QED BY <1>0, <3>2, ChatConstants
  <2> QED BY <2>1, <2>2, <2>3, <2>4
<1>2. ChatTyped'
  BY <1>0, <1>u, <1>1 DEF ChatTyped
<1>3. HeadInv' /\ ConnectionInv' /\ AccountInv' /\ IdentityInv' /\ Chat!ConnectionOwed'
      /\ Ordered(queue, requested)'
  BY <1>u DEF ChatInv, HeadInv, ConnectionInv, AccountInv, IdentityInv, Chat!ConnectionOwed
<1> QED BY <1>1, <1>2, <1>3 DEF ChatInv, Chat!SentAsSender

LEMMA ChatNext == ASSUME ChatInv, Chat!Next PROVE ChatInv'
BY SignInInv, SessionChangesInv, ImportedInv, SignOutInv, ConnectBeginsInv, DisconnectInv,
   PreviousStoppedInv, NegotiatedInv, StartedInv, InterruptedInv, ClosedInv, TimerFiresInv,
   MessagesInv
   DEF Chat!Next

-----------------------------------------------------------------------------
(* The favorites: the proofs for any set of posts, at the two the run uses.  *)

One == INSTANCE FavoritesProofs WITH Posts <- {"p"}, MaxMutations <- 2
Two == INSTANCE FavoritesProofs WITH Posts <- {"p", "q"}, MaxMutations <- 1

LEMMA OneNext == ASSUME One!Inv, Favorites!Next PROVE One!Inv'
<1>1. One!Next
  BY DEF
    Favorites!Next, Favorites!Load, Favorites!Read, Favorites!Loaded,
    Favorites!LoadFails, Favorites!ToggleLocally, Favorites!Mutate, Favorites!Served,
    Favorites!Confirmed, Favorites!Failed, Favorites!Settled, Favorites!SetData,
    Favorites!Sent, Favorites!Slots, Favorites!NoFetch, Favorites!Asked,
    Favorites!NoMutation, Favorites!With, Favorites!persistLocalFavoriteIds,
    Favorites!favoriteIds, Favorites!recoverAuthFavorites, One!Next, One!Load,
    One!Read, One!Loaded, One!LoadFails, One!ToggleLocally, One!Mutate, One!Served,
    One!Confirmed, One!Failed, One!Settled, One!SetData, One!Sent, One!Slots,
    One!NoFetch, One!Asked, One!NoMutation, One!With, One!persistLocalFavoriteIds,
    One!favoriteIds, One!recoverAuthFavorites
<1> QED BY <1>1, One!InvPreserved

LEMMA TwoNext == ASSUME Two!Inv, FavoritesOfTwo!Next PROVE Two!Inv'
<1>1. Two!Next
  BY DEF
    FavoritesOfTwo!Next, FavoritesOfTwo!Load, FavoritesOfTwo!Read,
    FavoritesOfTwo!Loaded, FavoritesOfTwo!LoadFails, FavoritesOfTwo!ToggleLocally,
    FavoritesOfTwo!Mutate, FavoritesOfTwo!Served, FavoritesOfTwo!Confirmed,
    FavoritesOfTwo!Failed, FavoritesOfTwo!Settled, FavoritesOfTwo!SetData,
    FavoritesOfTwo!Sent, FavoritesOfTwo!Slots, FavoritesOfTwo!NoFetch,
    FavoritesOfTwo!Asked, FavoritesOfTwo!NoMutation, FavoritesOfTwo!With,
    FavoritesOfTwo!persistLocalFavoriteIds, FavoritesOfTwo!favoriteIds,
    FavoritesOfTwo!recoverAuthFavorites, Two!Next, Two!Load, Two!Read, Two!Loaded,
    Two!LoadFails, Two!ToggleLocally, Two!Mutate, Two!Served, Two!Confirmed,
    Two!Failed, Two!Settled, Two!SetData, Two!Sent, Two!Slots, Two!NoFetch, Two!Asked,
    Two!NoMutation, Two!With, Two!persistLocalFavoriteIds, Two!favoriteIds,
    Two!recoverAuthFavorites
<1> QED BY <1>1, Two!InvPreserved

LEMMA FavoritesStay ==
  ASSUME UNCHANGED favoritesVars
  PROVE  (One!Inv => One!Inv') /\ (Two!Inv => Two!Inv')
BY One!InvPreserved, Two!InvPreserved DEF favoritesVars, One!vars, Two!vars

\* The two instances of the store say the same as the instances of its proofs.
LEMMA FavoritesSame ==
  /\ One!TypeOK => Favorites!TypeOK
  /\ Two!TypeOK => FavoritesOfTwo!TypeOK
  /\ One!Reconciled => Favorites!Reconciled
  /\ Two!Reconciled => FavoritesOfTwo!Reconciled
  /\ Favorites!Init => One!Init
  /\ FavoritesOfTwo!Init => Two!Init
BY DEF One!TypeOK, Two!TypeOK, Favorites!TypeOK, FavoritesOfTwo!TypeOK,
       One!Reconciled, Two!Reconciled, Favorites!Reconciled, FavoritesOfTwo!Reconciled,
       One!Init, Two!Init, Favorites!Init, FavoritesOfTwo!Init,
       One!NoMutation, Two!NoMutation, Favorites!NoMutation, FavoritesOfTwo!NoMutation,
       One!NoFetch, Two!NoFetch, Favorites!NoFetch, FavoritesOfTwo!NoFetch,
       One!Asked, Two!Asked, Favorites!Asked, FavoritesOfTwo!Asked,
       One!Slots, Two!Slots, Favorites!Slots, FavoritesOfTwo!Slots

-----------------------------------------------------------------------------
(* The stores together.  The account and the timer are shared names, so the  *)
(* types of every store hold whichever moves; the rest of a store's          *)
(* invariant is about the account it has followed itself.                    *)

StoresInv ==
  /\ ChatTyped /\ ProfileTyped /\ Count!TypeOK
  /\ part = "chat" => ChatInv
  /\ part = "profile" => ProfileInv
  /\ part = "count" => CountInv
  /\ IF part = "two favorites" THEN Two!Inv ELSE One!Inv

LEMMA StoresInitially == ASSUME Init PROVE StoresInv
<1>1. Chat!Init /\ Profile!Init /\ Count!Init
  BY DEF Init
<1>2. ChatInv
  <2>1. imported \in BOOLEAN /\ intentional \in BOOLEAN /\ abandoned \in BOOLEAN /\ ~imported
    BY <1>1, Zenon DEF Chat!Init
  <2>2. ChatTyped
    BY <1>1, <2>1, ChatConstants
       DEF Chat!Init, ChatTyped, Connections, Chat!NoExchange, Chat!Risks
  <2>3. Len(queue) = 0 /\ connection = Chat!NoConnection /\ timer = Nobody /\ requested = Nobody
    BY <1>1 DEF Chat!Init
  <2>4. Ordered(queue, requested) /\ HeadInv /\ ConnectionInv /\ AccountInv
    BY <2>1, <2>3 DEF Ordered, HeadInv, ConnectionInv, AccountInv
  <2>5. Chat!SentAsSender /\ Chat!ConnectionOwed /\ IdentityInv
    BY <1>1, <2>3 DEF Chat!Init, Chat!SentAsSender, Chat!NoExchange, Chat!ConnectionOwed,
                      IdentityInv, Chat!NoConnection
  <2> QED BY <2>2, <2>4, <2>5 DEF ChatInv
<1>3. ProfileInv
  <2>1. /\ loading \in BOOLEAN /\ failed \in BOOLEAN /\ misled \in BOOLEAN /\ ~loading
        /\ form.open \in BOOLEAN
    BY <1>1, Zenon DEF Profile!Init, Profile!NoForm
  <2>2. form \in [open : BOOLEAN, expected : Profile!Owners, bio : Profile!Owners]
    BY <1>1 DEF Profile!Init, Profile!NoForm, Profile!Owners
  <2>3. /\ profile \in [id : Profile!Owners, of : Profile!Owners, bio : Profile!Owners]
        /\ profile.id = Nobody /\ profile.of = Nobody
    BY <1>1 DEF Profile!Init, Profile!createProfileForAuthUser, Profile!Owners
  <2>4. ProfileTyped
    BY <1>1, <2>1, <2>2, <2>3 DEF Profile!Init, ProfileTyped, Profile!Owners
  <2>5. /\ owner = user /\ user = Nobody /\ timer = Nobody /\ received = {}
    BY <1>1 DEF Profile!Init
  <2> QED BY <2>1, <2>3, <2>4, <2>5 DEF ProfileInv, Profile!LoadingOwed
<1>4. CountInv
  <2>1. {suspended, inChat, cooling} \subseteq BOOLEAN
    BY <1>1, Zenon DEF Count!Init
  <2> QED BY <1>1, <2>1 DEF Count!Init, CountInv, Count!TypeOK, Count!Owners,
                         Count!NumberOwed, Count!Active
<1>5. IF part = "two favorites" THEN Two!Inv ELSE One!Inv
  BY FavoritesSame, One!InvInitially, Two!InvInitially DEF Init
<1> QED BY <1>2, <1>3, <1>4, <1>5 DEF StoresInv, ChatInv, ProfileInv, CountInv

\* A store that does not move keeps its types when the account changes.
LEMMA TypesStay ==
  ASSUME user' \in Chat!Owners, timer' \in Chat!Owners
  PROVE  /\ ChatTyped /\ UNCHANGED chatVars => ChatTyped'
         /\ ProfileTyped /\ UNCHANGED profileVars => ProfileTyped'
         /\ Count!TypeOK /\ UNCHANGED countVars => Count!TypeOK'
<1>1. Chat!Owners = Profile!Owners /\ Chat!Owners = Count!Owners
  BY DEF Chat!Owners, Profile!Owners, Count!Owners
<1>2. ChatTyped /\ UNCHANGED chatVars => ChatTyped'
  BY DEF ChatTyped, chatVars
<1>3. ProfileTyped /\ UNCHANGED profileVars => ProfileTyped'
  BY <1>1 DEF ProfileTyped, profileVars
<1>4. ASSUME Count!TypeOK, UNCHANGED countVars PROVE Count!TypeOK'
  <2>1. /\ suspended' = suspended /\ inChat' = inChat /\ cooling' = cooling
        /\ loadedOwner' = loadedOwner /\ loads' = loads
    BY <1>4 DEF countVars
  <2>2. {suspended', inChat', cooling'} \subseteq BOOLEAN
    BY <1>4, <2>1, Zenon DEF Count!TypeOK
  <2>3. {user', loadedOwner'} \subseteq Count!Owners
    BY <1>1, <1>4, <2>1 DEF Count!TypeOK
  <2>4. loads' \subseteq [by : {"poll"} \cup Count!Others, for : Users, live : BOOLEAN]
    BY <1>4, <2>1 DEF Count!TypeOK
  <2> QED BY <2>2, <2>3, <2>4 DEF Count!TypeOK
<1> QED BY <1>2, <1>3, <1>4

LEMMA StoresPreserved == ASSUME StoresInv, [Next]_vars PROVE StoresInv'
<1>0. Chat!Owners = Profile!Owners /\ Chat!Owners = Count!Owners
  BY DEF Chat!Owners, Profile!Owners, Count!Owners
<1>1. CASE ChatMoves
  <2>1. ChatInv'
    BY <1>1, ChatNext DEF ChatMoves, StoresInv
  <2>2. ChatTyped' /\ user' \in Chat!Owners /\ timer' \in Chat!Owners
    BY <2>1 DEF ChatInv, ChatTyped
  <2>3. ProfileTyped' /\ Count!TypeOK'
    BY <1>1, <2>2, TypesStay DEF ChatMoves, StoresInv
  <2>4. part = "chat" /\ part' = "chat" /\ One!Inv'
    BY <1>1, FavoritesStay DEF ChatMoves, StoresInv
  <2> QED BY <2>1, <2>2, <2>3, <2>4 DEF StoresInv
<1>2. CASE ProfileMoves
  <2>1. ProfileInv'
    BY <1>2, ProfileNext DEF ProfileMoves, StoresInv
  <2>2. ProfileTyped' /\ user' \in Chat!Owners /\ timer' \in Chat!Owners
    BY <1>0, <2>1 DEF ProfileInv, ProfileTyped
  <2>3. ChatTyped' /\ Count!TypeOK'
    BY <1>2, <2>2, TypesStay DEF ProfileMoves, StoresInv
  <2>4. part = "profile" /\ part' = "profile" /\ One!Inv'
    BY <1>2, FavoritesStay DEF ProfileMoves, StoresInv
  <2> QED BY <2>1, <2>2, <2>3, <2>4 DEF StoresInv
<1>3. CASE CountMoves
  <2>1. CountInv'
    BY <1>3, CountNext DEF CountMoves, StoresInv
  <2>2. Count!TypeOK' /\ user' \in Chat!Owners /\ timer' \in Chat!Owners
    BY <1>0, <1>3, <2>1 DEF CountInv, Count!TypeOK, CountMoves, StoresInv, ChatTyped
  <2>3. ChatTyped' /\ ProfileTyped'
    BY <1>3, <2>2, TypesStay DEF CountMoves, StoresInv
  <2>4. part = "count" /\ part' = "count" /\ One!Inv'
    BY <1>3, FavoritesStay DEF CountMoves, StoresInv
  <2> QED BY <2>1, <2>2, <2>3, <2>4 DEF StoresInv
<1>4. CASE FavoritesMove
  <2>1. /\ UNCHANGED <<part, user, timer, chatVars, profileVars, countVars>>
        /\ part \in {"favorites", "two favorites"}
    BY <1>4 DEF FavoritesMove
  <2>2. user' \in Chat!Owners /\ timer' \in Chat!Owners
    BY <2>1 DEF StoresInv, ChatTyped
  <2>3. ChatTyped' /\ ProfileTyped' /\ Count!TypeOK'
    BY <2>1, <2>2, TypesStay DEF StoresInv
  <2>4. IF part' = "two favorites" THEN Two!Inv' ELSE One!Inv'
    BY <1>4, <2>1, OneNext, TwoNext DEF FavoritesMove, StoresInv
  <2> QED BY <2>1, <2>3, <2>4 DEF StoresInv
<1>5. CASE UNCHANGED vars
  <2>1. UNCHANGED <<part, user, timer>> /\ UNCHANGED chatVars /\ UNCHANGED profileVars
        /\ UNCHANGED favoritesVars /\ UNCHANGED countVars
    BY <1>5 DEF vars
  <2>2. user' \in Chat!Owners /\ timer' \in Chat!Owners
    BY <2>1 DEF StoresInv, ChatTyped
  <2>3. ChatTyped' /\ ProfileTyped' /\ Count!TypeOK'
    BY <2>1, <2>2, TypesStay DEF StoresInv
  <2>4. ChatInv => ChatInv'
    BY <2>1, <2>3 DEF chatVars, ChatInv, HeadInv, ConnectionInv, AccountInv, IdentityInv,
       Chat!SentAsSender, Chat!ConnectionOwed
  <2>5. ProfileInv => ProfileInv'
    BY <2>1, <2>3 DEF profileVars, ProfileInv, Profile!LoadingOwed
  <2>6. CountInv => CountInv'
    BY <2>1, <2>3 DEF countVars, CountInv, Count!NumberOwed, Count!Active
  <2>7. IF part' = "two favorites" THEN Two!Inv' ELSE One!Inv'
    BY <2>1, FavoritesStay DEF StoresInv
  <2> QED BY <2>1, <2>3, <2>4, <2>5, <2>6, <2>7 DEF StoresInv
<1> QED BY <1>1, <1>2, <1>3, <1>4, <1>5 DEF Next

LEMMA StoresAlways == Spec => []StoresInv
BY StoresInitially, StoresPreserved, PTL DEF Spec

\* Retries, reconnect attempts, the queue and the local lists keep to their
\* types and bounds, for any set of accounts.
THEOREM TypeCorrect == Spec => []TypeOK
<1>1. StoresInv => TypeOK
  <2> SUFFICES ASSUME StoresInv PROVE TypeOK
    OBVIOUS
  <2>1. Chat!TypeOK
    <3>1. {imported, intentional, abandoned} \subseteq BOOLEAN
      BY DEF StoresInv, ChatTyped
    <3>2. {user, session, requested, current, lastKnown, timer, sending} \subseteq Chat!Owners
      BY DEF StoresInv, ChatTyped
    <3> QED BY <3>1, <3>2 DEF StoresInv, ChatTyped, Connections, Connected, Transitions, Chat!TypeOK,
               Chat!MaxAttempts
  <2>2. Profile!TypeOK
    <3>1. {loading, failed, misled} \subseteq BOOLEAN
      BY DEF StoresInv, ProfileTyped
    <3>2. {user, owner, fetched, timer, closure} \subseteq Profile!Owners
      BY DEF StoresInv, ProfileTyped
    <3> QED BY <3>1, <3>2 DEF StoresInv, ProfileTyped, Profile!TypeOK, Profile!MAX_FETCH_RETRIES
  <2>3. IF part = "two favorites" THEN FavoritesOfTwo!TypeOK ELSE Favorites!TypeOK
    BY One!InvConsequences, Two!InvConsequences, FavoritesSame DEF StoresInv
  <2> QED BY <2>1, <2>2, <2>3 DEF StoresInv, TypeOK
<1> QED BY <1>1, StoresAlways, PTL

\* However the account changes while answers, timers and forms are under way,
\* the name, phone, city and avatar shown are the signed-in user's own, and the
\* bio too once the own profile has been received.
THEOREM OwnDataAlways == Spec => []OwnDataOnly
<1>1. ProfileInv => Profile!OwnProfile
  BY NobodyIsNoUser DEF ProfileInv, ProfileTyped, Profile!OwnProfile,
         Profile!scopedUserProfile, Profile!createProfileForAuthUser, Profile!Owners
<1>2. StoresInv => OwnDataOnly
  BY <1>1 DEF StoresInv, OwnDataOnly
<1> QED BY <1>2, StoresAlways, PTL

\* Whatever connects, disconnects and sends are queued or under way: what is
\* sent or delivered is for the account the page shows, the server takes it for
\* the same one unless the cookie turned first or the account changed during
\* the handshake, and a sign-out that has run its course leaves neither a
\* connection nor a timer.
THEOREM ChatAccountAlways == Spec => []ChatAccountBound
<1>1. StoresInv => ChatAccountBound
  <2> SUFFICES ASSUME ChatInv PROVE Chat!SentAsSender /\ Chat!LoggedOutQuiet
    BY DEF StoresInv, ChatAccountBound
  <2>1. ASSUME requested = Nobody, queue = << >> PROVE connection = Chat!NoConnection
    <3>1. Len(queue) = 0
      BY <2>1
    <3>2. ~Disconnecting(queue)
      BY <3>1 DEF Disconnecting
    <3> QED BY <2>1, <3>2 DEF ChatInv, ConnectionInv
  <2>2. ASSUME requested = Nobody PROVE timer = Nobody
    BY <2>2 DEF ChatInv, AccountInv
  <2> QED BY <2>1, <2>2 DEF ChatInv, Chat!LoggedOutQuiet
<1> QED BY <1>1, StoresAlways, PTL

\* A chat that is asked for, a profile that is loading and the number at the
\* bell are never left without something that will go on with them.
THEOREM WaitsOwedAlways == Spec => []WaitsAreOwed
<1>1. StoresInv => WaitsAreOwed
  BY DEF StoresInv, ChatInv, ProfileInv, CountInv, WaitsAreOwed
<1> QED BY <1>1, StoresAlways, PTL

\* The favorites come back to the server's list, for one post changed twice
\* and for two posts; FavoritesProofs has it for any posts.
THEOREM FavoritesAlways == Spec => []FavoritesReconciled
<1>1. StoresInv => FavoritesReconciled
  BY One!InvConsequences, Two!InvConsequences, FavoritesSame DEF StoresInv, FavoritesReconciled
<1> QED BY <1>1, StoresAlways, PTL
=============================================================================
