------------------------------ MODULE ApiClient ------------------------------
(***************************************************************************)
(* apiRequest of the web client (services/api/client.ts): the one helper   *)
(* through which every call to the API goes.  A call resolves its CSRF     *)
(* token, is sent, is repeated once after a transient 5xx (safe methods    *)
(* only), once after a token refresh that a 401 asked for, and once after  *)
(* a forced CSRF refresh that a 403 asked for.  A timer and the caller may *)
(* cut it short at any time; the token refresh is shared by every call     *)
(* that waits for it and is cut by neither.                                *)
(***************************************************************************)
EXTENDS Naturals, FiniteSets

CONSTANTS Requests,     \* calls of apiRequest
          KindsOf       \* per call, the kinds of endpoint it may be for

VARIABLES
  req,       \* what each call is doing
  wire,      \* the attempts that the server has not handled yet
  refresh,   \* refreshPromise: the refresh under way, if any
  cookie,    \* the JWT cookie: none (or past refreshing), live or stale
  xsrf,      \* the readable XSRF-TOKEN cookie: none, good or bad
  storage,   \* localStorage: what it says about a session
  applied,   \* per unsafe call, how often the server carried it out
  refused    \* history: refreshes refused since the hint was last raised, not
             \* counting those while keys of an old version were left

vars == <<req, wire, refresh, cookie, xsrf, storage, applied, refused>>

-----------------------------------------------------------------------------
(* Endpoints, told apart by what the client does with them.                *)

\* read/write: an ordinary GET/POST; me, signin, signout: /auth/me, /auth/login
\* and /auth/logout; code: the anonymous code endpoints (2fa, forgot-password).
Kinds == {"read", "write", "me", "signin", "signout", "code"}

ASSUME ClientConstants == /\ IsFiniteSet(Requests)
                          /\ KindsOf \in [Requests -> SUBSET Kinds]

isUnsafeMethod(k) == k \in {"write", "signin", "signout", "code"}

AUTH_ENDPOINTS_NO_RETRY == {"me", "signin", "signout", "code"}

shouldPrimeCsrfForEndpoint(k) == k \notin {"signin", "code"}

isRetryableTransientStatus(s) == s = "busy"

\* AUTH_SESSION_HINT_KEY or a key that an old version left (AUTH_LEGACY_KEYS),
\* unless the last thing the user did was to log out (AUTH_LOGOUT_KEY).
hasLikelyAuthenticatedSession ==
  ~storage.loggedOut /\ (storage.hint \/ storage.legacy)

\* Bug: a refresh is asked for whether or not a session is likely.
shouldAttemptRefresh_always(k) == k \notin AUTH_ENDPOINTS_NO_RETRY

\* The hint is what stops the loop of 401 and refresh.
shouldAttemptRefresh(k) == hasLikelyAuthenticatedSession /\ k \notin AUTH_ENDPOINTS_NO_RETRY

\* A 403 of an unsafe call may be a stale token; of a sign-in it is not.
mayBeStaleCsrf(k) == isUnsafeMethod(k) /\ k # "signin"

-----------------------------------------------------------------------------
(* The state of one call.                                                  *)

Stages == {"first", "again", "renewed", "forced"}
Statuses == {"ok", "bad", "unauth", "forbidden", "busy"}
Errors == {"ABORTED", "TIMEOUT", "CONNECTION_REFUSED", "NETWORK_ERROR"}

Idle == [pc |-> "idle", kind |-> "read", stage |-> "first", token |-> "none",
         cut |-> {}, reason |-> "none", status |-> "ok", tries |-> 0]

\* Bug: the raw error's name leaks out as the code.
CutResult_raw(c) == "AbortError"

\* The catch block.  The timer aborts with a string, which is no Error and
\* ends as NETWORK_ERROR; the caller aborts with an AbortError, which counts as
\* the caller's unless the timer has fired as well.
CutResult(c) == CASE c.reason = "timeout"                          -> "NETWORK_ERROR"
                  [] c.reason # "timeout" /\ "timeout" \in c.cut    -> "TIMEOUT"
                  [] c.reason # "timeout" /\ "timeout" \notin c.cut -> "ABORTED"

Done(c, result) == [c EXCEPT !.pc = "done", !.status = result,
                             !.stage = "first", !.token = "none", !.cut = {},
                             !.reason = "none", !.tries = 0]

\* Bug: the signal is not passed on to a fetch that follows an await.
Fetch_withoutSignal(c, stage, token) ==
  [c EXCEPT !.pc = "fetch", !.stage = stage, !.token = token, !.tries = @ + 1]

\* fetch(): refused on the spot when the signal is already aborted.
Fetch(c, stage, token) ==
  IF c.cut # {}
  THEN Done(c, CutResult(c))
  ELSE [c EXCEPT !.pc = "fetch", !.stage = stage, !.token = token,
                 !.tries = @ + 1]

\* resolveCsrfToken without force: the cookie's token, or one after priming.
ResolveThenFetch(c, stage) ==
  IF isUnsafeMethod(c.kind) /\ xsrf = "none" /\ shouldPrimeCsrfForEndpoint(c.kind)
  THEN [c EXCEPT !.pc = "prime", !.stage = stage]
  ELSE Fetch(c, stage, IF isUnsafeMethod(c.kind) THEN xsrf ELSE "none")

Sent(r, c) == IF c.pc = "fetch"
              THEN {[r |-> r, try |-> c.tries, token |-> c.token]} ELSE {}

\* Put call r into state c; when that sent an attempt, it goes on the wire.
Becomes(r, c) == /\ req' = [req EXCEPT ![r] = c]
                 /\ wire' = wire \cup Sent(r, c)

InFlight(r) == req[r].pc \notin {"idle", "done"}

-----------------------------------------------------------------------------
Init ==
  /\ req = [r \in Requests |-> Idle]
  /\ wire = {}
  /\ refresh = "none"
  /\ cookie \in {"none", "live"}
  /\ xsrf = (IF cookie = "live" THEN "good" ELSE "none")
  /\ storage \in [hint : BOOLEAN, legacy : BOOLEAN, loggedOut : {FALSE}]
  /\ applied = [r \in Requests |-> 0]
  /\ refused = 0

\* A component calls apiRequest.
Start(r, k) ==
  /\ req[r].pc = "idle"
  /\ Becomes(r, ResolveThenFetch([Idle EXCEPT !.kind = k], "first"))
  /\ UNCHANGED <<refresh, cookie, xsrf, storage, applied, refused>>

\* The priming GET /auth/me is answered (the server sets the token of the
\* current identity) or fails, which the client ignores.
Primed(r) ==
  /\ req[r].pc = "prime"
  /\ xsrf' \in {xsrf, "good"}
  /\ LET c == req[r] IN
     \/ /\ c.stage = "first" /\ "caller" \in c.cut
        /\ Becomes(r, Done(c, "ABORTED"))
     \/ /\ ~(c.stage = "first" /\ "caller" \in c.cut)
        /\ ~(c.stage = "forced" /\ xsrf' = "none")
        /\ Becomes(r, Fetch(c, c.stage, xsrf'))
     \/ /\ c.stage = "forced" /\ xsrf' = "none"
        /\ Becomes(r, Done(c, "forbidden"))
  /\ UNCHANGED <<refresh, cookie, storage, applied, refused>>

\* The statuses the API may answer an attempt with.
Verdicts(k, token) ==
  IF k \in {"write", "signout"} /\ cookie # "none" /\ token # "good"
  THEN {"forbidden", "unauth"}
  ELSE IF k \in {"write", "me"} /\ cookie # "live" THEN {"unauth", "busy"}
  ELSE Statuses

\* The server handles an attempt, whether or not its caller still waits.  A
\* gateway may answer 5xx for a request that the API did carry out.
Serve(m) ==
  LET c == req[m.r] IN
  /\ m \in wire
  /\ wire' = wire \ {m}
  /\ \E s \in Verdicts(c.kind, m.token) :
       /\ \/ /\ s = "ok" \/ (s = "busy" /\ "ok" \in Verdicts(c.kind, m.token))
             /\ applied' = [applied EXCEPT ![m.r] = IF isUnsafeMethod(c.kind) THEN @ + 1 ELSE @]
          \/ s # "ok" /\ UNCHANGED applied
       /\ req' = IF c.pc = "fetch" /\ c.tries = m.try
                 THEN [req EXCEPT ![m.r].pc = "reply", ![m.r].status = s]
                 ELSE req
  /\ UNCHANGED <<refresh, cookie, xsrf, storage, refused>>

\* The connection fails before or after the server handled the attempt; the
\* words of the browser's error decide about the code.
ConnectionLost(r) ==
  /\ req[r].pc \in {"fetch", "reply"}
  /\ \E code \in {"CONNECTION_REFUSED", "NETWORK_ERROR"} : Becomes(r, Done(req[r], code))
  /\ UNCHANGED <<refresh, cookie, xsrf, storage, applied, refused>>

\* What a response leads to: the pause before a repetition, the wait for a
\* refresh, a forced CSRF refresh, or the end of the call.
NextOfIf(c, repeatable, renewable) ==
  CASE repeatable /\ isRetryableTransientStatus(c.status)
         -> [c EXCEPT !.pc = "pause"]
    [] renewable /\ c.status = "unauth" /\ shouldAttemptRefresh(c.kind)
         -> [c EXCEPT !.pc = "renew"]
    [] /\ c.stage # "forced" /\ c.status = "forbidden" /\ mayBeStaleCsrf(c.kind)
         -> [c EXCEPT !.pc = "prime", !.stage = "forced"]
    [] OTHER -> Done(c, c.status)

\* Bug: a 5xx answer to a write is repeated as well.
NextOf_repeatsWrites(c) ==
  NextOfIf(c, c.stage = "first", c.stage \in {"first", "again"})

NextOf(c) == NextOfIf(c, c.stage = "first" /\ ~isUnsafeMethod(c.kind),
                         c.stage \in {"first", "again"})

\* The response arrives and the call goes on to its next step.
Receive(r) ==
  /\ req[r].pc = "reply"
  /\ Becomes(r, NextOf(req[r]))
  /\ refresh' = IF req'[r].pc = "renew" /\ refresh = "none"
                THEN IF xsrf = "none" THEN "prime" ELSE "sent" ELSE refresh
  /\ UNCHANGED <<cookie, xsrf, storage, applied, refused>>

\* The 250 ms before the one repetition of a safe call have passed.
Repeat(r) ==
  /\ req[r].pc = "pause"
  /\ Becomes(r, Fetch(req[r], "again", "none"))
  /\ UNCHANGED <<refresh, cookie, xsrf, storage, applied, refused>>

-----------------------------------------------------------------------------
(* attemptTokenRefresh: one refresh at a time for all calls that wait.     *)

RefreshPrimed ==
  /\ refresh = "prime"
  /\ xsrf' \in {xsrf, "good"}
  /\ refresh' = "sent"
  /\ UNCHANGED <<req, wire, cookie, storage, applied, refused>>

\* Every waiting call goes on: repeated when the refresh succeeded, else with
\* the 401 it had (which is not a 403, so nothing else is tried).
Resume(refreshed) ==
  LET after(c) == IF refreshed THEN ResolveThenFetch(c, "renewed")
                               ELSE Done(c, "unauth")
      waiting == {r \in Requests : req[r].pc = "renew"}
  IN /\ req' = [r \in Requests |->
                  IF r \in waiting THEN after(req[r]) ELSE req[r]]
     /\ wire' = wire \cup UNION {Sent(r, req'[r]) : r \in waiting}

RefreshOk ==
  /\ refresh = "sent"
  /\ cookie \in {"live", "stale"} /\ xsrf = "good"
  /\ cookie' = "live"
  /\ refresh' = "none"
  /\ Resume(TRUE)
  /\ UNCHANGED <<xsrf, storage, applied, refused>>

\* Any status but 2xx: the hint is removed, whatever the status was; keys of an
\* old version stay.
RefreshRefused ==
  /\ refresh = "sent"
  /\ storage' = [storage EXCEPT !.hint = FALSE]
  /\ refused' = IF storage.legacy THEN refused ELSE refused + 1
  /\ refresh' = "none"
  /\ Resume(FALSE)
  /\ UNCHANGED <<cookie, xsrf, applied>>

\* The refresh could not be sent or answered: the hint stays.
RefreshLost ==
  /\ refresh = "sent"
  /\ refresh' = "none"
  /\ Resume(FALSE)
  /\ UNCHANGED <<cookie, xsrf, storage, applied, refused>>

-----------------------------------------------------------------------------
(* The abort controller: a timer of its own and the caller's signal.       *)

Cut(r, by) ==
  /\ InFlight(r) /\ by \notin req[r].cut
  /\ LET c == [req[r] EXCEPT !.cut = @ \cup {by},
                             !.reason = IF @ = "none" THEN by ELSE @] IN
     req' = [req EXCEPT ![r] = IF c.pc \in {"fetch", "reply"}
                               THEN Done(c, CutResult(c)) ELSE c]
  /\ UNCHANGED <<wire, refresh, cookie, xsrf, storage, applied, refused>>

Timeout(r) == Cut(r, "timeout")
CallerAborts(r) == Cut(r, "caller")

-----------------------------------------------------------------------------
(* The session outside this module: the cookies, which the server sets and  *)
(* removes, and what the provider notes about them in localStorage, each at  *)
(* its own moment (WebAuth has the provider's side in detail).               *)

CookieSet ==
  /\ cookie' = "live"
  /\ xsrf' \in {xsrf, "bad"}
  /\ UNCHANGED <<req, wire, refresh, storage, applied, refused>>

CookieRemoved ==
  /\ cookie' = "none" /\ xsrf' = "none"
  /\ UNCHANGED <<req, wire, refresh, storage, applied, refused>>

\* persistAuthenticatedSession after a sign-in.
SignIn ==
  /\ storage' = [storage EXCEPT !.hint = TRUE, !.loggedOut = FALSE]
  /\ refused' = 0
  /\ UNCHANGED <<req, wire, refresh, cookie, xsrf, applied>>

\* checkAuth applies an answer of /auth/me, which the session need not outlive.
\* (After a logout the hint would not count before the next sign-in.)
CheckConfirms ==
  /\ ~storage.loggedOut
  /\ storage' = [storage EXCEPT !.hint = TRUE]
  /\ refused' = 0
  /\ UNCHANGED <<req, wire, refresh, cookie, xsrf, applied>>

\* clearAuthStorage.
clearAuthStorage(out) ==
  /\ storage' = [hint |-> FALSE, legacy |-> FALSE, loggedOut |-> out]
  /\ UNCHANGED <<req, wire, refresh, cookie, xsrf, applied, refused>>

CheckRefused == clearAuthStorage(storage.loggedOut)

SignOut == clearAuthStorage(TRUE)

Expire ==
  /\ cookie' = CASE cookie = "live" -> "stale" [] OTHER -> "none"
  /\ cookie' # cookie
  /\ UNCHANGED <<req, wire, refresh, xsrf, storage, applied, refused>>

-----------------------------------------------------------------------------
Next ==
  \/ \E r \in Requests :
       \/ \E k \in KindsOf[r] : Start(r, k)
       \/ Primed(r) \/ ConnectionLost(r) \/ Receive(r) \/ Repeat(r)
       \/ Timeout(r) \/ CallerAborts(r)
  \/ \E m \in wire : Serve(m)
  \/ RefreshPrimed \/ RefreshOk \/ RefreshRefused \/ RefreshLost
  \/ CookieSet \/ CookieRemoved \/ Expire
  \/ SignIn \/ CheckConfirms \/ CheckRefused \/ SignOut

\* The browser runs what is due, timers fire, and a fetch without a timeout
\* (priming, refresh) is answered or fails.  Nothing is assumed of the
\* answers to the calls themselves: their timer is enough.
Fairness ==
  /\ \A r \in Requests : /\ WF_vars(Primed(r)) /\ WF_vars(Receive(r))
                         /\ WF_vars(Repeat(r)) /\ WF_vars(Timeout(r))
  /\ WF_vars(RefreshPrimed)
  /\ WF_vars(RefreshOk \/ RefreshRefused \/ RefreshLost)

Spec == Init /\ [][Next]_vars /\ Fairness

-----------------------------------------------------------------------------
(* Properties                                                              *)

CallType == [pc : {"idle", "prime", "fetch", "reply", "pause", "renew", "done"},
             kind : Kinds, stage : Stages, token : {"none", "good", "bad"},
             cut : SUBSET {"timeout", "caller"},      \* who has cut the call ...
             reason : {"none", "timeout", "caller"},  \* ... and who did so first
             status : Statuses \cup Errors, tries : Nat]

\* Every variable stays in its type.
TypeOK ==
  /\ req \in [Requests -> CallType]
  /\ wire \subseteq [r : Requests, try : Nat, token : {"none", "good", "bad"}]
  /\ refresh \in {"none", "prime", "sent"}
  /\ cookie \in {"none", "live", "stale"}
  /\ xsrf \in {"none", "good", "bad"}
  /\ storage \in [hint : BOOLEAN, legacy : BOOLEAN, loggedOut : BOOLEAN]
  /\ applied \in [Requests -> Nat]
  /\ refused \in Nat

\* However often apiRequest repeats a call (transient 5xx, refresh, CSRF), the
\* server carries an unsafe one out at most once: what is repeated had been
\* refused with 401 or 403, or is safe.
AppliedOnce ==
  \A r \in Requests : isUnsafeMethod(req[r].kind) => applied[r] <= 1

\* The result of an unsafe call tells the truth: success means carried out,
\* a 400, 401 or 403 means that no attempt of it was (only a 5xx, a timeout,
\* an abort or a lost connection leaves that open).
OutcomeHonest ==
  \A r \in Requests :
    req[r].pc = "done" /\ isUnsafeMethod(req[r].kind) =>
      /\ req[r].status = "ok" => applied[r] = 1
      /\ req[r].status \in {"bad", "unauth", "forbidden"} => applied[r] = 0

\* The refresh loop is broken once no keys of an old version are left (while
\* they are, every 401 asks for a refresh again): after the hint was raised, by
\* a sign-in or by a check that found a session, at most one refresh is refused
\* until it is raised again, however many calls meet a 401 and in whatever order.
RefusalBudget == refused <= 1

\* Every call ends: with the answer, the timeout or the abort, even when the
\* server never answers it.
Settles == \A r \in Requests : InFlight(r) ~> req[r].pc = "done"

=============================================================================
