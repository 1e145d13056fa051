# TijarahJO in TLA+

TLA+ models of TijarahJO, a classifieds marketplace: an ASP.NET Core API
(`apps/api`), a SQL Server database and a React client (`apps/web`). The models
are translated from the source. They are model-checked with TLC on small
instances and, where a theorem is stated, proved with TLAPS for every value of
the constants. `PROJECT.json` maps each definition to the lines it models and
lists runs, mutants, hazards, findings and theorems.

## The system

The API keeps almost no state of its own. A request is an `async` handler that
awaits one database call after another, in a context of its own and without a
transaction around the whole. Many requests run at once, on several servers if
need be. What they share are rows of the database, plus a few in-process
caches. So what is hard in this program is what happens *between two awaits*: a
row that was read is stale when it is written, one step of several fails, the
client goes away, a background purge removes the row.

The web client (`apps/web`) is the larger half of the code. It runs in one
thread, but every `await` of a request is a point where the user clicks again,
turns the page, signs out, or another tab does; answers come late, out of order,
lost or not in the expected shape. What the client must get right is which of
them it still may apply, what it tells the user, and that nothing it waits for
is forgotten.

### Inventory

| Component | State | Operations | What makes it correct |
|---|---|---|---|
| Challenge store (`VerificationChallengeDataAccessAdapter`) | one row per (user, type): opaque state and expiry | get, conditional replace, conditional delete, purge | a conditional write succeeds only on the state it expects |
| Login and lockout (`AuthCommandService.LoginAsync`, `AccountLockoutService`) | the `LoginLockout` row, the user's hash and standing | gate, verify, record failure, rehash, clear | no failure lost, the threshold locks, locks hold, every login answered |
| Password reset (`PasswordResetService`) | the `PasswordReset` row, the mailbox | request, verify, confirm | one live code, bounded guesses, one redemption, cooldown |
| Sessions (`AuthController`, `TokenBlacklistMiddleware`, `DatabaseTokenBlacklistService`) | tokens, `BlacklistedTokens`, `Users.LastInvalidatedAt` | login, refresh, logout, use, purge | logged-out and invalidated tokens stay out, only users in good standing are served |
| Account writers (`UserDataAccessAdapter`, `AdminDataAccessAdapter`) | `Users` | edit, suspend, ban, bulk change, delete | changes revoke sessions and do not undo each other |
| Two-factor codes, e-mail verification | further challenge types, flags of the user | store, send, verify, resend | as password reset |
| Sign-up and Google sign-in | `Users`, external identities | create, link | one account per e-mail, user name and phone |
| Posts, images, favorites, comments, reviews, reports | marketplace rows with `IsDeleted` and a status | create, edit, moderate, delete | a block is not undone by a stale edit, nothing hangs on a deleted post |
| Chat, presence, notifications | conversations, messages, connection sets | send, read, connect, disconnect | one conversation per pair, nothing read unseen, a connected user is online |
| Roles, permissions, settings, caches | role rows, memory cache, Redis | read through, invalidate | a cache does not serve what a completed write replaced |
| Data hygiene and jobs | findings, a bounded channel | scan, approve, purge, run | a finding is executed once |
| Web: HTTP client (`services/api/client.ts`) | session hint, CSRF token, the shared refresh | one call with priming, retry, refresh, timeout, abort | a write is made once, its result is true, every call ends |
| Web: authentication provider (`contexts/useAuthProviderController.ts`) | React state per tab, `localStorage`, the cookie | check, sign in, log out, enter as guest, react to other tabs | a logout sticks and reaches every tab, loading ends |
| Web: service functions (`services/api/*`) | none; two lookup caches | one or several requests, then parsing | failure is not taken for success |
| Web: screens (`features/*`) | rows shown, busy flags, stage of a dialog | loaders, handlers | no false success, no double submission, no rows of another query, no flag for ever |
| Web: chat connection, profile, favorites, unread count | connection and queue of transitions; owner and retries; optimistic cache; polled number | connect, send, reconnect; fetch, adopt; add, remove; poll | no late answer of another account is applied, messages go out for the account shown, nothing waits in vain, a failed change is reconciled |

Components interact in three ways: calls (a controller calls a command service,
which calls adapters), shared rows (login, reset, moderation and the purge all
touch the same user and challenge rows) and messages (e-mail, SignalR pushes).
The read models, the compare services (external APIs) and the HTTP pipeline
keep no state to model.

## Modules

| Module | Models |
|---|---|
| `ChallengeStore` | The adapter's conditional operations on one row, as operators on a stored state; the query filter that hides a deleted user's rows; the purge's condition. |
| `LoginLockout` | Concurrent logins to one account, with everything that races them. |
| `LoginLockoutProofs` | Theorems about `LoginLockout`. |
| `OneTimeCode` | Abstract specification: what a code challenge promises. |
| `PasswordReset` | Concurrent reset requests, verifications and confirmations of one account. Implements `OneTimeCode`. |
| `PasswordResetProofs` | Theorems about `PasswordReset`, the refinement included. |
| `Sessions` | Tokens of one account: login, refresh, use, logout, the blacklist and the writers of the account. |
| `SessionsProofs` | Theorems about `Sessions`. |
| `MCLoginLockout`, `MCPasswordReset`, `MCSessions` | Symmetry sets for TLC; the `.cfg` files give the constants. |
| `ApiClient`, `MCApiClient` | `apiRequest`: concurrent calls of one page that share a token refresh. |
| `ApiClientProofs` | Theorems about `ApiClient`. |
| `WebAuth`, `MCWebAuth` | The authentication provider in several tabs of one browser. |
| `WebAuthProofs` | Theorems about `WebAuth`. |
| `ApiServices` | The functions of `services/api`: what each makes of every kind of answer. |
| `ScreenForms` | The terms in which screens are described: loaders, handlers, ends, controls. |
| `SharedScreens`, `AdminScreens`, `AuthScreens`, `ChatScreens`, `PostScreens`, `ProfileScreens`, `MarketScreens`, `AllScreens` | The screens, one definition per loader, handler and component. |
| `Screens`, `MCScreens` | The state machine that runs any of these screens, and what it assumes of them; `MCScreens` gives it all of them. |
| `ScreensProofs` | Theorems about `Screens`. |
| `ChatClient`, `UserProfileStore`, `FavoritesStore`, `NotificationCount` | The chat connection service, the profile hook, the favorites hook, the notification polling hook. |
| `MCClientStores` | The four stores, one explored at a time. |
| `FavoritesProofs`, `ClientStoresProofs` | Theorems about `FavoritesStore`, and about `MCClientStores` with the stores it composes. |

**How handlers become actions.** Each call is a process with a program counter
`pc`, an answer `reply` and its handler's locals. One action stands for the
code from one awaited call to the next. Where the code reads the clock between
two database calls, that is a step of its own (`GateDecide`, `RecordCompute`,
`RequestDecide`, `Decide`, `LoginDecide`, `SessionDecide`, `WriterStamp`). Single SQL statements
(`ExecuteUpdate`, `ExecuteDelete`, an insert under a unique index) are atomic.
A request may be cut off at any await (`Abort`), and nothing is undone. A crash
of the server looks the same from the database: every handler under way is cut
off, at whatever await it has reached.

**Data.** A password is a number that grows with each change; a hash is the
password it accepts plus whether it is due for an upgrade. A reset code is
named after the request that made it, a token after the call that issued it.
`LockoutState.FirstFailedAtUtc` only distinguishes one counter from another and
is the request that opened the counter. Time is a counter of ticks. Corrupt
state JSON is one model value, and handlers treat it as the code does.

**LoginLockout.** `Start` loads the user; `GateRead`, `GateDecide` and
`GateDelete` are `IsLockedOutAsync`; `Verify` is the hash comparison and the
standing checks; `RecordRead`, `RecordCompute` and `RecordSave` are
`RecordFailedAttemptAsync`; `Rehash`, `ClearLockout` and `ResolveRole` follow a
success. `Retry` is the bounded loop with `FailClosed`. `ChangePassword`,
`ChangeStanding`, `Purge` and `Tick` are the environment. `recorded` and `saw`
are history: the failures the row stands for, and those a request knew of.

**PasswordReset.** `Request*` actions are `RequestResetAsync`: read, cooldown,
conditional store, send, discard after a failed send. `ValidateStart`, `Read`,
`Decide`, `Delete` and `Replace` are `ValidateResetCodeAsync`, for verification
(which consumes nothing) and confirmation; `Save` and `Invalidate` finish
`ConfirmResetAsync`. `issued`, `mailed`, `redeemed` and `wrong` are history.

**Sessions.** A call logs in (`LoginRead` loads the row, `LoginDecide` holds it
against the clock after the lockout and the password), or presents a token and
passes `CheckBlacklist`, `SessionRead`, `SessionDecide` and then its endpoint. Writers read the
account, apply and stamp their change (`Updated`, `Suspended`, `BulkUpdated`,
`Deleted`), and save the columns that differ from what they read (`Merged`,
which is what EF Core's change tracker does). `revokedAt`, `vouched` (the ends of
suspension the account, active and not deleted, has had during each call) and the
locals `late`, `revoked` and `passed` are history.

**ApiClient.** A call is at `prime` (CSRF token), `fetch`, `reply`, `pause`
(before the one repetition of a safe call after a transient status), `renew`
(waiting for the shared refresh) or `done`. `NextOf` is the cascade of checks on
a response: transient status, 401, 403 that may be a stale CSRF token, result.
`Serve` is the server; it may carry a write out and still answer 5xx or lose the
answer. `Timeout` and `CallerAborts` set the cut that the next await meets; who
cut first decides about the error (`CutResult`), because the timer aborts with a
string that the catch block does not take for an `AbortError`. `storage` is what
`localStorage` says about a session: the hint, keys that an old version left, and
the logout flag (`hasLikelyAuthenticatedSession`). The provider writes it when a
sign-in is stored (`SignIn`), when a check finds the user (`CheckConfirms`) or
does not (`CheckRefused`) and on logout (`SignOut`); the cookies change at moments
of their own (`CookieSet`, `CookieRemoved`, `Expire`). `refused` is history: the
refreshes refused since the hint was last raised, but for those while old keys
were left.

**WebAuth.** `CheckAuth` is the synchronous part of `checkAuth`, `Told`,
`AskAgain` and `Apply` what follows its awaits. Raising the run id drops the
check under way (`Outdated`), which is what `isLatestRun` amounts to. `WriteOn`
is `localStorage`: a change queues a storage event for the other tabs.
`RefreshRefused` and `HintRemoved` are the part of `ApiClient` that touches the
shared hint. `loggedOut` is history.

**Service functions.** An answer is `full`, `odd` (another shape), `void` (no
body), `declined` (status 200 with `success: false`), an error status or `lost`.
A function is the sequence of its requests, each with the result that every
answer leads to: success, failure by value, a throw, an empty list, or going on
regardless. Which fields a payload has is left out; which answers a parser
rejects is not.

**Screens.** A screen is a set of loaders and of controls. A loader says when it
runs (on mount, with the query, by timer, on retry), which flags it raises,
whether it drops an answer that is no longer the latest, and what a failure does
to the rows. A control says where a handler is offered: which flags disable it,
which rows or stage it needs. A handler is the sequence of its calls, the end
each failure leads to, and how it ends: what it tells the user, which loaders it
starts again, which stage it moves to. `Screens` then lets the user turn pages
and click while answers arrive in any order. The closures of React are kept: a
handler started at one query reloads for that query. Validation is a handler
that refuses before its first call and changes nothing, so it is no step.
What a screen must be like for the properties to hold whatever the user does is
stated as assumptions on the constant `Pages`: `WellFormed` (its handlers lead
to stages and loaders it has), `BusyKept` (a busy flag disables the controls
that raise it, and no loader, timer or other handler lowers it), `LoadingKept`
(the same of a loader's own flag) and `ClaimsBacked` (a call whose write counts
does not return success without it, and no failure is told as a success). TLC
evaluates them on the 41 screens in the run `screens`. So a screen whose code
breaks one of them fails there by name, and the state machine checks what the
interleavings make of screens that meet them.

**Stores.** `ChatClient` keeps the chain of connect and disconnect transitions
as a queue, with the connection, the requested and last known account, the
reconnect timer and attempts, and messages under way by hub or REST. The page
shows `user`; the server goes by the session cookie, `session`, which changes by
itself (`SessionChanges`: `LoginPage` awaits a request between the login and
`setSession`, and other tabs share it). A connection is for the account it was
made for (`of`) and the server has it for the account of the cookie at its
handshake (`as`: `Negotiated`, `Reconnected`). `exchange` is history: the last
message sent or delivered, with the account the service acted for, the one the
page showed, the one the server took it for, and `risk`: whether the cookie was
of another account than the page ("cookie"), or the account changed during the
handshake ("switch").
`UserProfileStore` keeps owner, run id (as `current` of a request), retry timer
and the forms that hand a profile over; a profile is reduced to whose id, whose
name, phone, city and avatar, and whose bio it has. `FavoritesStore` is the
optimistic cache over react-query, whose cancellation (which takes the cache back
to what it was when the load began) and invalidation are external.
`NotificationCount` is the polling effect with its cooling down.

## Runs

| Run | Instance | Shows |
|---|---|---|
| `login_lockout` | 4 logins, threshold 2, 2 retries, 4 ticks | The counter is exact, the threshold locks, at most `MaxFailedAttempts - 1` requests per counter are told that the password was wrong, no lock is lifted or shortened, and a success clears only failures it knew of. |
| `login_account` | 2 logins, threshold 0 (clamped to 1), 1 retry, account edited, barred, deleted | Types; a hash upgrade never brings back a changed password; every login is answered. |
| `password_reset` | 2 requests, 1 check, 4 ticks, every standing | The service implements `OneTimeCode`; a live challenge is not replaced within the cooldown; an undelivered challenge that stays is explained. |
| `reset_guesses` | 1 request, 3 checks, 2 retries, 3 ticks | Types; a code is redeemed once; at most `MaxAttempts` wrong guesses are answered per code; `OneTimeCode` again, with racing checks. |
| `reset_superseded` | 2 requests, 1 check | Violation, see Findings. |
| `sessions` | 3 calls, 1 writer of every kind, 4 ticks | Types; a logged-out token passes the blacklist only after its expiry; no step serves a call, or issues it a token, unless the account was active and not deleted at some moment of it with a suspension that is over by then. |
| `sessions_logout` | 3 calls | Violation, see Findings. |
| `sessions_revive` | 2 calls, 2 writers | Violation, see Findings. |
| `api_client` | 2 calls, a write beside a read or a sign-in | Types and results; an unsafe call is carried out at most once and its result is true; since the hint was last raised one refresh is refused; every call ends. |
| `web_auth` | 2 tabs, 2 acts of visitor or server | Types; a logout sticks in its tab, reaches the other and settles; loading ends. |
| `screens` | 41 screens, 2 queries, 2 handler runs | Types; `HonestSuccess`; `SingleFlight`; `CurrentRows`; `NoOrphanFlag`. |
| `client_stores` | 2 accounts, 4 queued transitions, 1 post with 2 changes or 2 posts | Types; no late answer shows another account's profile; the chat acts for the account shown, and the server agrees but for two cases; whatever waits is owed something; favorites are reconciled. |

**Bounds.** `MaxTime`, `MaxPassword` and the sets of calls bound the state; no
other bound is added. Four logins are enough for a counter to be opened, to
reach the threshold of two, to lapse and to be opened again by another login,
while one more is stale, and with two retries a request can lose, win late or
fail closed. Three checks against a budget of two make the last guess, a guess
beyond it and a right code race. In `password_reset` a code lives two ticks of
four, so it can be replaced while live and after the cooldown, expire and be
purged. In `sessions` three calls are a login, a
logout and a use of the same token, or a login and two logouts; four ticks let
a token with a lifetime of two outlive its expiry and the skew. The invariants
proved by TLAPS do not depend on any of these bounds.

In `api_client` one call is enough to start a refresh and the second to join it
or to come too late. The first is a write, the second a read (which is repeated
after a 5xx) or a sign-in (which neither primes nor refreshes); two writes at
once, and the endpoints `me`, `signout` and `code`, are covered by the proofs,
which take any calls of any kinds. Sign-ins, checks, logouts and changes of the
cookie are not bounded. In `web_auth` two acts are, for instance, a logout and a
reload, a sign-in in the other tab, or the end of the session; checks, events and
answers are not bounded. In `screens` two queries are what an older answer
needs, two runs what a double submission needs; loads are not bounded. In
`client_stores` a queue of four holds a disconnect and two connects behind a
transition under way, which is what an account that leaves and comes back during
a handshake takes.

**What the screen properties leave out.** `HonestSuccess` does not speak of
requests a function treats as optional, nor of the two handlers that do not read
a call's result (`PermissionsDialog.handleSave`, `markAllAsRead`).
`SingleFlight` speaks of handlers that raise a busy flag. `CurrentRows` speaks
of loaders that drop stale answers or run one at a time, and not of those that
a handler starts again after an await with the query it captured. The loaders
and handlers left out are listed under "Known weaknesses".

**Deadlock** is checked in `client_stores`. In the other runs the instances end:
when the calls have answered and the clock has stopped, when the acts are used
up, or when a screen is left.

**Symmetry** is used for requests, checks, calls and writers in the runs without
liveness: nothing orders them, and code and token names follow the permutation.

**Fairness** appears in `FairSpec` of `LoginLockout` and `PasswordReset`: weak
fairness on each step of a handler that has started. ASP.NET Core runs every
handler it has accepted and every database call returns or throws. Nothing is
assumed of clients, the clock, moderators or the purge. In `ApiClient` timers
fire and promises that have settled are continued; the server need not answer a
call, but the shared refresh, which has no timeout, is assumed to be answered or
lost. In `WebAuth` events, timers and answers come (`ApiClient` ends every
request); visitors need not do anything.

## Findings

1. `reset_superseded`. When `RequestResetAsync` loses its conditional write it
   returns without sending: "A concurrent request installed the active
   challenge and owns delivery." The write can also be lost to a wrong guess, a
   consumption, the discard of a failed send, or the purge. Then nobody sends a
   code, and the caller is told that one was sent.
2. `sessions_logout`. `IsBlacklistedAsync` ignores a row from `ExpiresAt` on,
   but JWT validation tolerates 30 seconds of clock skew: in that window a
   logged-out token is accepted, and can even be refreshed.
   `LoggedOutUntilExpiry` is what does hold.
3. `sessions_revive`. `UpdateUserCoreAsync` and the administration's writers
   stamp `LastInvalidatedAt` when they change the entity and save later. A
   slower writer commits an older stamp over a newer one, and tokens issued
   between the two are accepted again.

### Known weaknesses

Behaviour met while modelling that is not what a reader would expect. No run
states it as a violation: the properties are worded around it, and each says
where. The models include it unless said otherwise. For most of it no comment,
doc or test of the repository promises more; where one does, it is quoted.

- A row that was read is held against a later clock. A login or a token check
  that read an account suspended until some time, and looks at the clock after
  that time, passes although the account was banned or deleted in between, so the
  account need not have been in good standing at any one instant
  (`AuthCommandService.cs:51` and `:108`,
  `DatabaseTokenBlacklistService.cs:91` and `:110`). `OnlyInGoodStanding` says
  what holds: active and not deleted at some moment of the call, with a
  suspension that has ended by the answer.
- Keys that an old version left in `localStorage` count as a hint of a session
  (`client.ts:107`), and a refused refresh does not remove them (`:217`): while
  they are left every 401 asks for a refresh again, although the comment at
  `:213` says that after a refusal `shouldAttemptRefresh()` "returns false for
  all subsequent requests". A logout or a refused check removes them.
  `RefusalBudget` does not count refusals while they are left.
- A timeout is reported as `NETWORK_ERROR`: the timer aborts with a string
  (`client.ts:282`), which the catch block does not take for an `Error` (`:488`).
  `TIMEOUT` is given only when the caller had aborted first.
- A sign-in over another account that is signed in carries that account's bio
  over (`appRoutesUtils.ts:293` spreads the old profile). It is shown until the
  own profile arrives, and stays if the answer is a 404 or three fetches fail,
  although the comment at `useUserProfile.ts:114` says "Extended profile fields
  belong to exactly one authenticated user." `OwnDataOnly` speaks of the bio only
  once the own profile has been received.
- The chat checks which account the page shows, but the server goes by the
  cookie. While the cookie has turned and the page has not (`LoginPage.tsx:282`
  to `:324`, or another tab), a message sent over REST, and a connection whose
  handshake falls into that time, are of the new account. If the account changes
  and changes back while a connection is being started, the queued transitions
  are skipped, and the connection that the server may have for the other account
  stays in use (`chatService.ts:183`, `:195`). `ChatAccountBound` leaves out
  these two cases and no other. `ApiClient` may send a REST message again after a
  refresh, with the cookie of that later moment; `ChatClient` does not model
  that.

- A check that was refused before a sign-in is applied after it and shows the
  user as signed out until the next check; a login does not outdate checks
  (`useAuthProviderController.ts:145`). A login in flight during a logout signs
  the user back in. A late logout request deletes the cookie of a newer sign-in
  (`:499`). A 5xx or 429 with an unknown text counts as a refusal
  (`authContextUtils.ts:69`).
- Signing in again as the signed-in account, or a `refreshProfile` called for an
  account that has left, leaves the profile loading for ever
  (`useUserProfile.ts:96`, `CompleteProfilePage.tsx:211`).
- A failed start of a chat connection outside the reconnect timer, or a failed
  stop, is not retried (`chatService.ts:303`, `:213`). A hub call whose answer
  is lost is followed by REST and sends twice (`:392`).
- A favorite added before the first list arrives cancels that load
  (`useFavorites.ts:183`); changes made to the local list while the server
  cannot be read are dropped when it can.
- Older answers overwrite newer ones in `ReportsQueue`, `ListingsManagement`,
  `AuditLogViewer`, `PostCommentsModeration`, `UserDetailAdminPage` and
  `ComparePage`, and in `AdminGlobalSearch`, which is not modelled.
- Handlers without a busy flag can be submitted twice
  (`AdminBannersManagement.tsx:146`, `LocationsManagement.tsx:84`); the Enter
  key bypasses the flag of `ChatWindow.tsx:549`.
- `PermissionsDialog.tsx:90` takes a refused save for a success. A failed read
  of cities or areas is cached as an empty list (`lookups.resolvers.ts:333`).
  `replacePostImages` deletes before it uploads (`writeHelpers.ts:258`).

The API has further hazards in parts that are not modelled: a two-factor code
refused because its deletion lost to a wrong guess (`TwoFactorService.cs:298`),
challenges consumed before what they confirm is saved
(`EmailVerificationService.cs:305`), sign-ups that race under the unique indexes
(`AuthCommandService.cs:213`), caches refilled with what a writer has just
removed (`CachedRoleService.cs:27`, `HybridCacheService.cs:40`), favorites and
images attached to a post deleted meanwhile, connection sets in Redis left by a
dead server, hygiene cycles approved twice, and a full job channel.

## Proofs

Every safety property that a passing run checks is also proved, for every value
of the constants that meets the named assumptions. Few of the properties are
inductive. Each section says what the inductive invariant adds and why.

**`LoginLockoutProofs`**, for any requests, threshold, durations and retry bound:
`TypeCorrect`, `FailuresCounted` (`NoLostFailure`), `ThresholdReached`
(`ThresholdLocks`), `WrongAnswersBounded` (`WrongAnswerBudget`) and the action
properties `LocksKept` (`LockNeverShortened`), `PasswordKept`
(`PasswordNeverReverts`) and `ClearsOnlySeen` (`ClearForgetsOnlySeen`).
Whether a `RecordSave` keeps the count exact depends on what its handler
computed several steps ago. `Inv` adds three parts. `RowInv`: the row is sane (a
count at the threshold has a lock, a lock ends at most `Duration` from now), its
`ExpiresAt` is the end of its lock, and its count is exact. `LocalsInv`: what a
handler is about to store extends what it read (one more, or a fresh counter if
what it read had no live one), so that a successful comparison transfers
exactness from the row to the new state, and a state about to be deleted at the
gate is corrupt or lapsed. `RecordedDone`: a recorded failure belongs to an
answered request, so it is counted once. `LocksKept` needs `Inv` because a purge
may only remove a lock that has ended, which is where `ExpiresAt` matters, and
because a slower failure must carry a lock that ends no earlier.
`ClearsOnlySeen` needs that a stored value never comes back, since
`ClearLockoutAsync` recognises the row by its value. `MemoryInv` says so: the
request that opened a counter is done and opens no other, the count of one
counter only grows, and a row with the remembered value stands for no failure
that the request did not see.

**`PasswordResetProofs`**, for any requests, checks, attempts, cooldown and
durations: `TypeCorrect`, `RedeemedOnceAlways`, `GuessBudgetAlways`,
`UndeliveredAlways` (`UndeliveredExplained`), the action property
`CooldownAlways`, and `ImplementsOneTimeCodeAlways`. `RowInv` ties the row to the
histories: its code was issued and never redeemed, and its `failed` is the number
of wrong guesses answered, below the limit. `HistoryInv` says that only issued
codes are redeemed or guessed at. `CallsInv` says what each call relies on
between its awaits: a request about to store has a fresh challenge of its own
that does not fall in the cooldown of what it read; a request that is sending
finds its own challenge, if any, as it stored it or with a guess counted; a check
about to replace or delete holds the challenge it compares with.
The refinement goes through `TableStep`: every step of the service leaves the
row and the histories alone, issues a challenge, retires it, counts a miss
or redeems it, and each of these maps to a stutter or a step of `OneTimeCode`
(`IssuesRefines`, `MissesRefines`, `RedeemsRefines`, `RetiresRefines`).

**`SessionsProofs`**, for any calls, writers, kinds of change, lifetime and skew:
`TypeCorrect`, `LogoutHolds` (`LoggedOutUntilExpiry`) and `StandingHolds`
(`OnlyInGoodStanding`). Its `Inv` adds that a logout that has answered left its
token listed or expired (`LogoutRemembered`: the insert and the purge are the
only writers of the list, and the conflict of two logouts means the token is
listed), that a call marked late is late for a logout that has answered, that
listed and presented tokens exist, and that a call past the session check has
been vouched for (`ClearedVouched`, without which a refresh, which does not look
at suspensions, could not be shown safe). That rests on `SeenVouched`: between
the read of the row and the look at the clock, a row that would pass is one the
account has had during this call, whatever has been written meanwhile.

**`ApiClientProofs`**, for any finite set of calls: `TypeCorrect`,
`AppliedOnceAlways`, `OutcomeHonestAlways` and `RefusalBudgetAlways`.
`AppliedOnce` depends on what may still reach the server: `CallInv` says that an
unsafe call that is on its way, or may be sent once more, has not been carried
out yet, and that a call which has its answer has nothing left on the wire. Only
a 401 or 403 leads to a repetition of an unsafe call, and `Serve` gives these
without carrying it out. `WireInv` says that one attempt of a call is on its way
at a time. `RefusalInv` counts the refresh that may still be refused: without
old keys a refresh is under way or can be asked for only if none has been refused
since the hint was raised; with them none has been counted.

**`WebAuthProofs`**, for any number of tabs and acts: `TypeCorrect`,
`LogoutSticksAlways` and `LogoutSettledAlways`. A check under way in a tab that
has logged out, or one that does not find the logout flag, would sign it in
again. `LogoutInv` adds that such a tab has no check under way and that the
logout flag is set. It is kept because logout drops the check and sets the flag,
`clearAuthStorage` and the removal of the hint leave the flag alone, a check that
finds the flag asks nothing, and everything that removes the flag is a way back
in, which empties `loggedOut`. `LogoutSettled` speaks of the moment when nothing
is under way; `SettledInv` says what holds before: while the flag is set, each
tab has yet to look at `localStorage` (a storage event it has not handled, or a
page not mounted), or shows nobody and checks nothing; and the hint is there only
if some tab has yet to look.

**`FavoritesProofs`**, for any posts and number of changes: `TypeCorrect` and
`ReconciledAlways`. The invariant follows the shown list through a change: a load
that nothing overlaps brings the server's list (`LoadAlone`), and without a load
there is at most one change under way and the list is the server's with that
change (`ChangeAlone`).

**`ClientStoresProofs`**, for any accounts and any length of the chat's queue:
`TypeCorrect`, `OwnDataAlways` (`OwnDataOnly`), `ChatAccountAlways`
(`ChatAccountBound`), `WaitsOwedAlways` (`WaitsAreOwed`) and `FavoritesAlways`
(`FavoritesReconciled`, from two instances of `FavoritesProofs`). For the chat,
`ChatInv` adds that only the first transition of the queue runs and the last one
is what is asked for (`Ordered`), what the first one may rely on between its
awaits (`HeadInv`), that a connection which is no longer wanted has a disconnect
queued behind it (`ConnectionInv`), and that the account asked for follows the
one signed in and the reconnect timer the one asked for (`AccountInv`).
`IdentityInv` follows the account the server has for a connection: without a risk
it is the one the connection was made for, or the handshake is still to come and
the page shows that account. For the number at the bell, `CountInv` adds that a
request whose effect has not been cleaned up is for the account that is signed
in. For the profile, `ProfileInv` adds that the owner is the account that is signed in and
that the retry timer is the owner's, which is what a late answer is held against.

**`ScreensProofs`**, for any number of queries and handler runs, and for any
screens that meet the four assumptions on `Pages`: `TypeCorrect`,
`SingleFlightAlways`, `NoOrphanFlagAlways`, `HonestSuccessAlways` and
`CurrentRowsAlways`. So the bounds of the run `screens` do not matter, and a new
screen needs only the assumptions. `BusyUp`: the busy flags of a run stay up until
it ends, which is why its own control stays disabled. `Counted`: a write that is
missing has been counted as a failure by a handler that goes on. `CurrentLoads`
and `LoneLoads`: the loads that will be applied are for the query that is shown,
because a loader drops the others or its own flag keeps the query from changing.
`RowsOwed`: rows of an earlier query are about to be replaced by one of those.

The assumptions are `LockoutConstants`, `DistinctStates`, `FiniteRequests`,
`ResetConstants`, `SessionConstants`, `ClientConstants`, `WebAuthConstants`,
`NobodyIsNoUser` (nobody is no account), `MaxQueriesAssumption`,
`MaxRunsAssumption` and the assumptions on `Pages`; TLC evaluates all of them in
the runs.

**Left to TLC**: liveness under fairness (`EveryLoginAnswered`, `Settles`,
`LogoutReachesTabs`, `LoadingEnds`), which is out of the prover's reach; the
three violations; and that the 41 screens meet the assumptions on `Pages`, which
is a finite evaluation.

## What is not modelled

Formatting, logging, validation of input shapes and length, hashing, e-mail
transport beyond "sent, not sent, or sent and reported as failed", rate limits
and CSRF. The lockout and reset features are taken as switched on. The second
factor between password and token is not yet in `Sessions`. `Sessions` reduces
a login to one that has passed `LoginLockout`. One account is modelled at a
time: no operation of these components reads or writes another account's rows.
Two overlapping writes of one entity are merged column by column, as EF Core
writes only changed columns. The components listed as `not_modelled` in
`PROJECT.json` come with the plan below, or keep no state.

Of the web client: rendering, styling, translation, routing, form input and its
validation, sorting and filtering of rows in memory, the fields of payloads, the
text of messages, the merging of pushed chat messages into a list, and the local
contexts for comparison, search and settings. `FavoritesStore` has one signed-in
account and takes it that the server has handled a request the client has given
up by the time the client asks for the list again. Each screen is modelled by
itself: two screens share only the stores, which have modules of their own.

## Plan

Done: `ChallengeStore`, `LoginLockout`, `OneTimeCode` and `PasswordReset`,
`Sessions`, `ApiClient`, `WebAuth`, the service functions and screens, and the
client's stores, with proofs of every safety property their passing runs check.

Next for the proofs:

1. The violations show what does not hold; the strongest statement that does
   hold next to each of them is worth a theorem, as `LoggedOutUntilExpiry` is
   next to `sessions_logout`: when a request that loses its conditional write
   may rely on another one, and which writers can move `LastInvalidatedAt` back.
2. The safety part of the liveness properties: that no handler waits where none
   of its steps can be taken, as an invariant over its labels and locals.

Next for the models, in this order:

1. `TwoFactor`: login, set-up and disable codes over `ChallengeStore`, as a
   second implementation of `OneTimeCode`; then the second factor in `Sessions`.
2. `EmailVerification`: send, resend, confirm.
3. `Identity`: sign-up and Google sign-in racing under the unique indexes.
4. `PostLifecycle`: posts, status transitions, images, favorites, comments,
   reviews and reports against moderation and deletion.
5. `Chat`: conversations, read marks, notifications; `Presence` in memory and
   in Redis.
6. `RoleCache` and `HybridCache`: staleness bounds. `Hygiene`: scan, approval,
   execution, and the job channel.
