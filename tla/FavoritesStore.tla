--------------------------- MODULE FavoritesStore ---------------------------
(***************************************************************************)
(* The favorites of a signed-in user (features/marketplace/hooks/          *)
(* useFavorites.ts over shared/hooks/useServerQuery.ts and                 *)
(* useServerMutation.ts): a cached list that mutations change before they  *)
(* are confirmed, and a local list that stands in while the server cannot  *)
(* be read.  The cache is that of @tanstack/react-query: cancelling a      *)
(* query puts it back at once, setting its data clears its error.          *)
(***************************************************************************)
EXTENDS Naturals

CONSTANTS Posts,         \* the posts the user marks
          MaxMutations   \* bound on the mutations under way together

VARIABLES
  server,    \* the favorites the server has
  cache,     \* the cached list
  known,     \* the cache has data
  error,     \* hasAuthFavoritesFailure: the last load failed
  fetch,     \* the load in flight: not yet read by the server, or with its list
  mutations, \* the mutations under way
  guest,     \* guestFavoriteIds
  local,     \* the list in localStorage
  crossed    \* history: a load and a mutation, or two mutations, have overlapped
             \* since the last load that was alone

vars == <<server, cache, known, error, fetch, mutations, guest, local, crossed>>

Slots == 1..MaxMutations
NoFetch == [at |-> "none", list |-> {}]
Asked == [at |-> "asked", list |-> {}]
NoMutation == [at |-> "none", post |-> "none", adds |-> FALSE, snapshot |-> {}, guest |-> {}]

Sent == {m \in Slots : mutations[m].at \in {"asked", "applied", "refused"}}

With(list, post, adds) == IF adds THEN list \cup {post} ELSE list \ {post}

\* setServerQueryData and the effect that mirrors the list to localStorage.
SetData(list) ==
  /\ cache' = list /\ known' = TRUE /\ error' = FALSE
  /\ local' = IF known /\ list = cache THEN local ELSE list

persistLocalFavoriteIds(list) == guest' = list /\ local' = list

-----------------------------------------------------------------------------
(* useServerQuery: the list is loaded on mount, focus and reconnect.       *)

Load ==
  /\ fetch = NoFetch /\ fetch' = Asked
  /\ error' = (error /\ known)
  /\ crossed' = (Sent # {})
  /\ UNCHANGED <<server, cache, known, mutations, guest, local>>

Read ==
  /\ fetch = Asked
  /\ fetch' = [at |-> "read", list |-> server]
  /\ UNCHANGED <<server, cache, known, error, mutations, guest, local, crossed>>

Loaded ==
  /\ fetch.at = "read" /\ fetch' = NoFetch
  /\ SetData(fetch.list)
  /\ UNCHANGED <<server, mutations, guest, crossed>>

\* After the retry: the local list takes over.
LoadFails ==
  /\ fetch # NoFetch /\ fetch' = NoFetch
  /\ error' = TRUE
  /\ guest' = IF error THEN guest ELSE local
  /\ UNCHANGED <<server, cache, known, mutations, local, crossed>>

-----------------------------------------------------------------------------
(* toggleFavorite                                                          *)

favoriteIds == IF error THEN guest ELSE cache

\* onMutate: the list is changed at once, a load in flight is cancelled.
Mutate(m, post) ==
  LET adds == post \notin favoriteIds
  IN  /\ ~error /\ mutations[m] = NoMutation
      /\ mutations' = [mutations EXCEPT ![m] =
            [at |-> "asked", post |-> post, adds |-> adds, snapshot |-> cache, guest |-> guest]]
      /\ SetData(With(cache, post, adds))
      /\ fetch' = NoFetch
      /\ crossed' = (crossed \/ Sent # {} \/ fetch # NoFetch)
      /\ UNCHANGED <<server, guest>>

\* Without the server's list the favorite is only kept locally.
ToggleLocally(post) ==
  /\ error
  /\ persistLocalFavoriteIds(With(guest, post, post \notin favoriteIds))
  /\ UNCHANGED <<server, cache, known, error, fetch, mutations, crossed>>

\* The server makes the change or refuses it.
Served(m, done) ==
  LET x == mutations[m]
  IN  /\ x.at = "asked"
      /\ mutations' = [mutations EXCEPT ![m].at = IF done THEN "applied" ELSE "refused"]
      /\ server' = IF done THEN With(server, x.post, x.adds) ELSE server
      /\ UNCHANGED <<cache, known, error, fetch, guest, local, crossed>>

Confirmed(m) ==
  /\ mutations[m].at = "applied"
  /\ mutations' = [mutations EXCEPT ![m] = NoMutation]
  /\ UNCHANGED <<server, cache, known, error, fetch, guest, local, crossed>>

\* Bug: the snapshot is put back and taken for the truth.
recoverAuthFavorites_noRefetch(m) ==
  SetData(mutations[m].snapshot) /\ fetch' = NoFetch /\ UNCHANGED crossed

\* The list is put back to what it was before, and loaded again.  Cancelling a
\* load in flight undoes that: the list is as it was when that load began, and
\* nothing has changed it since.
recoverAuthFavorites(m) ==
  /\ IF fetch = NoFetch THEN SetData(mutations[m].snapshot)
                        ELSE UNCHANGED <<cache, known, error, local>>
  /\ fetch' = Asked
  /\ crossed' = (Sent # {m})

\* The change was refused, or made but the answer lost.
Failed(m) ==
  /\ mutations[m].at \in {"applied", "refused"}
  /\ mutations' = [mutations EXCEPT ![m].at = "recovering"]
  /\ recoverAuthFavorites(m)
  /\ UNCHANGED <<server, guest>>

\* Once the load is over the failed change is made to the local list.
Settled(m) ==
  LET x == mutations[m]
  IN  /\ x.at = "recovering" /\ fetch = NoFetch
      /\ mutations' = [mutations EXCEPT ![m] = NoMutation]
      /\ persistLocalFavoriteIds(With(x.guest, x.post, x.adds))
      /\ UNCHANGED <<server, cache, known, error, fetch, crossed>>

-----------------------------------------------------------------------------
Init ==
  /\ server \in SUBSET Posts
  /\ cache = {} /\ known = FALSE /\ error = FALSE
  /\ fetch = Asked
  /\ mutations = [m \in Slots |-> NoMutation]
  /\ guest = {} /\ local = {} /\ crossed = FALSE

Next ==
  \/ Load \/ Read \/ Loaded \/ LoadFails
  \/ \E post \in Posts : ToggleLocally(post) \/ \E m \in Slots : Mutate(m, post)
  \/ \E m \in Slots :
       \/ \E done \in BOOLEAN : Served(m, done)
       \/ Confirmed(m) \/ Failed(m) \/ Settled(m)

Spec == Init /\ [][Next]_vars

-----------------------------------------------------------------------------
(* Properties                                                              *)

TypeOK ==
  /\ {server, cache, guest, local} \subseteq SUBSET Posts
  /\ {known, error, crossed} \subseteq BOOLEAN
  /\ fetch \in [at : {"none", "asked", "read"}, list : SUBSET Posts]
  /\ \A m \in Slots : mutations[m] = NoMutation \/
       mutations[m] \in [at : {"asked", "applied", "refused", "recovering"}, post : Posts,
                         adds : BOOLEAN, snapshot : SUBSET Posts, guest : SUBSET Posts]

\* Once nothing is under way the list that is shown is the server's, although
\* changes were refused or confirmed by answers that got lost, as long as
\* changes and loads did not overlap.
Reconciled ==
  /\ \A m \in Slots : mutations[m] = NoMutation
  /\ fetch = NoFetch /\ known /\ ~error /\ ~crossed
  => cache = server

=============================================================================
