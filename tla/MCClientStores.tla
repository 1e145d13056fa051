--------------------------- MODULE MCClientStores ---------------------------
(***************************************************************************)
(* Model-checking instance of the stores of the web client: the chat       *)
(* connection, the profile, the favorites and the number of unread         *)
(* notifications.  They share nothing but the signed-in account, so each   *)
(* is explored by itself: `part' says which one moves.                     *)
(***************************************************************************)
EXTENDS Naturals

CONSTANTS Users, Nobody, MaxQueue

\* Nobody stands for a null account id.
ASSUME NobodyIsNoUser == Nobody \notin Users

VARIABLES
  part, user, timer,
  session, imported, requested, current, lastKnown, intentional, connection, attempt, queue,
  sending, exchange, abandoned,
  owner, fetched, profile, loading, failed, retries, requests, form, closure, received,
  misled,
  server, cache, known, error, fetch, mutations, guest, local, crossed,
  suspended, inChat, cooling, loadedOwner, loads

chatVars == <<session, imported, requested, current, lastKnown, intentional, connection,
              attempt, queue, sending, exchange, abandoned>>
profileVars == <<owner, fetched, profile, loading, failed, retries, requests, form,
                 closure, received, misled>>
favoritesVars == <<server, cache, known, error, fetch, mutations, guest, local, crossed>>
countVars == <<suspended, inChat, cooling, loadedOwner, loads>>
vars == <<part, user, timer, chatVars, profileVars, favoritesVars, countVars>>

Chat == INSTANCE ChatClient
Profile == INSTANCE UserProfileStore
\* One post that two mutations change, and two posts changed one after the other.
Favorites == INSTANCE FavoritesStore WITH Posts <- {"p"}, MaxMutations <- 2
FavoritesOfTwo == INSTANCE FavoritesStore WITH Posts <- {"p", "q"}, MaxMutations <- 1
Count == INSTANCE NotificationCount

Init ==
  /\ part \in {"chat", "profile", "favorites", "two favorites", "count"}
  /\ Chat!Init /\ Profile!Init /\ Count!Init
  /\ IF part = "two favorites" THEN FavoritesOfTwo!Init ELSE Favorites!Init
  /\ part \in {"chat", "profile", "count"} => server = {}

ChatMoves ==
  part = "chat" /\ Chat!Next /\ UNCHANGED <<part, profileVars, favoritesVars, countVars>>
ProfileMoves ==
  part = "profile" /\ Profile!Next /\ UNCHANGED <<part, chatVars, favoritesVars, countVars>>
FavoritesMove ==
  /\ \/ part = "favorites" /\ Favorites!Next
     \/ part = "two favorites" /\ FavoritesOfTwo!Next
  /\ UNCHANGED <<part, user, timer, chatVars, profileVars, countVars>>
CountMoves ==
  /\ part = "count" /\ Count!Next
  /\ UNCHANGED <<part, timer, chatVars, profileVars, favoritesVars>>

Next == ChatMoves \/ ProfileMoves \/ FavoritesMove \/ CountMoves

Spec == Init /\ [][Next]_vars

-----------------------------------------------------------------------------
\* Every store keeps to its types: retries, reconnect attempts and the local
\* lists stay within their bounds.
TypeOK ==
  /\ Chat!TypeOK /\ Profile!TypeOK /\ Count!TypeOK
  /\ IF part = "two favorites" THEN FavoritesOfTwo!TypeOK ELSE Favorites!TypeOK

\* After a change of the account nobody else's name, phone, city or avatar is
\* shown, not even by a late answer; the bio is the user's own once the own
\* profile has been received (useUserProfile.ts).
OwnDataOnly == part = "profile" => Profile!OwnProfile

\* The chat sends and delivers for the account the page shows and for nobody
\* after a sign-out; the server agrees unless the cookie turned first or the
\* account changed during the handshake (chatService.ts).
ChatAccountBound == part = "chat" => Chat!SentAsSender /\ Chat!LoggedOutQuiet

\* Whatever waits, waits for something: a chat without connection for a
\* transition or a timer, a profile that is loading for an answer or a timer,
\* the number at the bell for a request that will be taken.
WaitsAreOwed ==
  /\ part = "chat" => Chat!ConnectionOwed
  /\ part = "profile" => Profile!LoadingOwed
  /\ part = "count" => Count!NumberOwed

\* The favorites shown come back to the server's list after a failed or
\* unanswered change (useFavorites.ts).
FavoritesReconciled ==
  IF part = "two favorites" THEN FavoritesOfTwo!Reconciled ELSE Favorites!Reconciled

=============================================================================
