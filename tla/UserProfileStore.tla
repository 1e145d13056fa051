-------------------------- MODULE UserProfileStore --------------------------
(***************************************************************************)
(* The profile of the signed-in user (features/auth/hooks/                 *)
(* useUserProfile.ts, features/auth/profileState.ts).  The routes show     *)
(* nothing but a spinner while it is loading.  React renders and runs the  *)
(* effects of a change of the account before it handles another event.     *)
(***************************************************************************)
EXTENDS Naturals

CONSTANTS Users, Nobody

VARIABLES
  user,      \* the account that is rendered (renderedAuthUserIdRef)
  owner,     \* profileOwnerIdRef
  fetched,   \* fetchedForUserRef
  profile,   \* userProfile: its id, and whose contact data and bio it holds
  loading,   \* isLoading
  failed,    \* profileError is set
  retries,   \* fetchRetryCountRef
  timer,     \* the account whose fetch the retry timer will repeat
  requests,  \* the requests of getUser in flight; `current': of the latest run
  form,      \* the owner that the sign-in under way has captured, if any
  closure,   \* the account for which a saved form will call refreshProfile
  received,  \* history: the accounts whose profile was taken since the last sign-in or out
  misled     \* history: what LoadingOwed leaves out has happened

vars == <<user, owner, fetched, profile, loading, failed, retries, timer, requests,
          form, closure, received, misled>>

Owners == Users \cup {Nobody}
MAX_FETCH_RETRIES == 3
NoForm == [open |-> FALSE, expected |-> Nobody, bio |-> Nobody]

\* createProfileForAuthUser: the fields beyond the account's own are empty.
createProfileForAuthUser(u) == [id |-> u, of |-> Nobody, bio |-> Nobody]

\* The run id is raised: the requests in flight are not of the latest run.
Outdated(rs) == {[r EXCEPT !.current = FALSE] : r \in rs}

-----------------------------------------------------------------------------
(* fetchProfileData                                                        *)

\* Its synchronous part, run for account u (of the closure) after the request
\* set has become rs and the account last fetched f.
Fetch(u, f, rs) ==
  /\ timer' = Nobody
  /\ loading' = (u # Nobody /\ f # u)
  /\ fetched' = IF u = Nobody THEN Nobody ELSE f
  /\ requests' = Outdated(rs) \cup
       (IF u # Nobody /\ f # u THEN {[of |-> u, current |-> TRUE]} ELSE {})

\* Bug: an answer is taken whoever it was asked for.
isOwnedProfileRequestCurrent_any(r) == r.of \in Users

isOwnedProfileRequestCurrent(r) == r.current /\ r.of = owner

\* Bug: it never gives up.
ScheduleRetry_forever(u, n) ==
  retries' = n /\ timer' = u /\ UNCHANGED <<fetched, failed, loading>>

\* scheduleRetry, after n failures: the spinner stays until the last one.
ScheduleRetry(u, n) ==
  IF n >= MAX_FETCH_RETRIES
  THEN /\ retries' = 0 /\ fetched' = u /\ failed' = TRUE /\ loading' = FALSE
       /\ UNCHANGED timer
  ELSE /\ retries' = n /\ timer' = u
       /\ UNCHANGED <<fetched, failed, loading>>

\* getUser answers: the user, nobody (a confirmed 404), or a failure.
Answered(r, answer) ==
  /\ requests' = requests \ {r}
  /\ CASE ~isOwnedProfileRequestCurrent(r) ->
            UNCHANGED <<profile, retries, fetched, failed, loading, timer>>
       [] isOwnedProfileRequestCurrent(r) /\ answer = "failure" ->
            ScheduleRetry(r.of, retries + 1) /\ UNCHANGED profile
       [] OTHER ->
            /\ profile' = IF answer = "user" THEN [id |-> r.of, of |-> r.of, bio |-> r.of]
                                             ELSE profile
            /\ fetched' = r.of /\ retries' = 0
            /\ failed' = FALSE /\ loading' = FALSE
            /\ UNCHANGED timer
  /\ received' = IF isOwnedProfileRequestCurrent(r) /\ answer = "user"
                 THEN received \cup {r.of} ELSE received
  /\ UNCHANGED <<user, owner, form, closure, misled>>

RetryFires ==
  /\ timer # Nobody
  /\ Fetch(timer, fetched, requests)
  /\ UNCHANGED <<user, owner, profile, failed, retries, form, closure, received, misled>>

-----------------------------------------------------------------------------
(* Changes of the account                                                  *)

\* The identity effect and then the effect that fetches, once account u # user
\* is rendered, with owner o and profile p.  The owner is either that of the
\* last render, and the effect starts from scratch, or u itself, adopted by
\* setUserProfile, which has reset the same refs.
Rendered(u, o, p) ==
  /\ user' = u /\ owner' = u
  /\ profile' = IF u = Nobody \/ o # u THEN createProfileForAuthUser(u) ELSE [p EXCEPT !.id = u]
  /\ failed' = FALSE /\ retries' = 0
  /\ Fetch(u, Nobody, requests)
  /\ received' = {} /\ misled' = FALSE

\* Signed in or out elsewhere: a check of the session, a logout, another tab.
AccountChanges(u) ==
  /\ u # user
  /\ Rendered(u, owner, profile)
  /\ UNCHANGED <<form, closure>>

Shown == ~loading /\ (user = Nobody \/ fetched = user)

\* A sign-in is submitted; its callback holds on to the profile it was
\* rendered with.
LoginSubmitted ==
  /\ Shown /\ ~form.open
  /\ form' = [open |-> TRUE, expected |-> user,
              bio |-> IF profile.id = user THEN profile.bio ELSE Nobody]
  /\ UNCHANGED <<user, owner, fetched, profile, loading, failed, retries, timer,
                 requests, closure, received, misled>>

LoginFails ==
  /\ form.open /\ form' = NoForm
  /\ UNCHANGED <<user, owner, fetched, profile, loading, failed, retries, timer,
                 requests, closure, received, misled>>

canAdoptProfileForAuthTransition(next) ==
  next # Nobody /\ owner = form.expected /\ user = form.expected

\* applyLoginUserDataToProfile: fields of another account are cleared, but for
\* the bio, which the spread of the old profile carries over.
applyLoginUserDataToProfile(u) == [id |-> u, of |-> u, bio |-> form.bio]

\* The sign-in of account u ends: setSession, and onLogin with the transition
\* of the owner, rendered together.  If u is the account that is signed in,
\* no effect fetches again.
LoginDone(u) ==
  LET p == applyLoginUserDataToProfile(u)
      adopts == canAdoptProfileForAuthTransition(u)
  IN  /\ form.open /\ form' = NoForm
      /\ \/ /\ adopts /\ u # user
            /\ Rendered(u, u, p)
         \/ /\ ~adopts /\ u # user
            /\ Rendered(u, owner, profile)
         \/ /\ adopts /\ u = user
            /\ profile' = p /\ owner' = u /\ fetched' = Nobody /\ retries' = 0
            /\ timer' = Nobody /\ failed' = FALSE /\ loading' = TRUE
            /\ requests' = Outdated(requests)
            /\ received' = {} /\ misled' = TRUE
            /\ UNCHANGED user
         \/ /\ ~adopts /\ u = user
            /\ UNCHANGED <<user, owner, profile, fetched, retries, timer, failed,
                           loading, requests, received, misled>>
      /\ UNCHANGED closure

-----------------------------------------------------------------------------
(* Changes of the profile                                                  *)

\* A form of the profile is submitted by the signed-in user.
FormSubmitted ==
  /\ Shown /\ user # Nobody /\ closure = Nobody
  /\ closure' = user
  /\ UNCHANGED <<user, owner, fetched, profile, loading, failed, retries, timer,
                 requests, form, received, misled>>

isCurrentProfileOwner(u) == u # Nobody /\ user = u /\ owner = u

\* useProfileSaveAction: the saved profile is shown to its owner only.
Saved ==
  /\ closure # Nobody /\ closure' = Nobody
  /\ IF isCurrentProfileOwner(closure)
     THEN profile' = [id |-> closure, of |-> closure, bio |-> closure] /\ failed' = FALSE
     ELSE UNCHANGED <<profile, failed>>
  /\ UNCHANGED <<user, owner, fetched, loading, retries, timer, requests, form, received, misled>>

\* CompleteProfilePage: refreshProfile of the render the form was submitted
\* in, which fetches for the account of that render.
Refreshed ==
  /\ closure # Nobody /\ closure' = Nobody
  /\ retries' = 0 /\ failed' = FALSE
  /\ Fetch(closure, Nobody, requests)
  /\ misled' = (closure # owner)
  /\ UNCHANGED <<user, owner, profile, form, received>>

-----------------------------------------------------------------------------
Init ==
  /\ user = Nobody /\ owner = Nobody /\ fetched = Nobody
  /\ profile = createProfileForAuthUser(Nobody)
  /\ loading = FALSE /\ failed = FALSE /\ retries = 0 /\ timer = Nobody
  /\ requests = {} /\ form = NoForm /\ closure = Nobody /\ received = {} /\ misled = FALSE

Next ==
  \/ \E r \in requests, answer \in {"user", "missing", "failure"} : Answered(r, answer)
  \/ RetryFires
  \/ \E u \in Owners : AccountChanges(u)
  \/ LoginSubmitted \/ LoginFails
  \/ \E u \in Users : LoginDone(u)
  \/ FormSubmitted \/ Saved \/ Refreshed

Spec == Init /\ [][Next]_vars

-----------------------------------------------------------------------------
(* Properties                                                              *)

TypeOK ==
  /\ {user, owner, fetched, timer, closure} \subseteq Owners
  /\ profile \in [id : Owners, of : Owners, bio : Owners]
  /\ {loading, failed, misled} \subseteq BOOLEAN
  /\ received \subseteq Users
  /\ retries \in 0..MAX_FETCH_RETRIES
  /\ requests \subseteq [of : Users, current : BOOLEAN]
  /\ form \in [open : BOOLEAN, expected : Owners, bio : Owners]

\* The profile as the hook hands it out: that of the signed-in account, or an
\* empty one.
scopedUserProfile ==
  IF user # Nobody /\ owner = user /\ profile.id = user
  THEN profile ELSE createProfileForAuthUser(user)

\* Name, phone, city and avatar that are shown are the signed-in user's own.
\* The bio is too once the own profile has been received, and from then on the
\* profile stays complete, whatever was under way when the account changed;
\* before that it may be what the sign-in carried over.
OwnProfile ==
  /\ scopedUserProfile.of \in {Nobody, user}
  /\ user \in received => scopedUserProfile = [id |-> user, of |-> user, bio |-> user]

\* The spinner that hides every route is owed to a request that will be
\* applied or to the retry timer.  Two sequences break that (misled): a
\* sign-in as the account that is signed in already, and refreshProfile called
\* for an account that has left meanwhile.
LoadingOwed ==
  (loading \/ (user # Nobody /\ fetched # user)) /\ ~misled
    => timer # Nobody \/ \E r \in requests : r.current /\ r.of = owner

=============================================================================
