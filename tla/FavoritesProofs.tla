--------------------------- MODULE FavoritesProofs ---------------------------
(* What the run of MCClientStores checks of the favorites for one and two    *)
(* posts, proved for any set of posts and any number of mutations under way. *)
EXTENDS FavoritesStore, TLAPS

-----------------------------------------------------------------------------
(* The inductive invariant.  `cache = server' is broken by every optimistic  *)
(* change and repaired by its confirmation or by a load; what survives is    *)
(* what the list differs by while one change or one load is under way alone. *)

Mutation ==
  {NoMutation} \cup [at : {"asked", "applied", "refused", "recovering"}, post : Posts,
                     adds : BOOLEAN, snapshot : SUBSET Posts, guest : SUBSET Posts]

Fetches == {NoFetch, Asked} \cup [at : {"read"}, list : SUBSET Posts]

\* TypeOK, field by field.
Typed ==
  /\ server \in SUBSET Posts /\ cache \in SUBSET Posts
  /\ guest \in SUBSET Posts /\ local \in SUBSET Posts
  /\ known \in BOOLEAN /\ error \in BOOLEAN /\ crossed \in BOOLEAN
  /\ fetch \in Fetches
  /\ mutations \in [Slots -> Mutation]

\* Without a list there is a load under way or one that has failed.
ListKnown == fetch = NoFetch /\ ~known => error

\* A load that nothing has overlapped brings the server's list.
LoadAlone ==
  ~crossed /\ fetch # NoFetch => Sent = {} /\ (fetch.at = "read" => fetch.list = server)

\* Without a load there is at most one change under way, and the list shown
\* is the server's with that change.
ChangeAlone ==
  ~crossed /\ fetch = NoFetch =>
    /\ \A m, n \in Sent : m = n
    /\ \A m \in Sent :
         /\ mutations[m].at = "asked" =>
              cache = With(server, mutations[m].post, mutations[m].adds)
         /\ mutations[m].at = "applied" => cache = server
    /\ Sent = {} /\ known /\ ~error => cache = server

Inv == Typed /\ ListKnown /\ LoadAlone /\ ChangeAlone

-----------------------------------------------------------------------------
(* The steps.                                                                *)

InFlight == {"asked", "applied", "refused"}

LEMMA SentAfter ==
  ASSUME Typed, NEW m \in Slots, NEW x, mutations' = [mutations EXCEPT ![m] = x]
  PROVE  /\ Sent' = IF x.at \in InFlight THEN Sent \cup {m} ELSE Sent \ {m}
         /\ \A n \in Slots : mutations'[n] = IF n = m THEN x ELSE mutations[n]
<1>1. \A n \in Slots : mutations'[n] = IF n = m THEN x ELSE mutations[n]
  BY DEF Typed
<1> QED BY <1>1 DEF Sent, InFlight

LEMMA EndedAfter ==
  ASSUME Typed, NEW m \in Slots, mutations' = [mutations EXCEPT ![m] = NoMutation]
  PROVE  Sent' = Sent \ {m} /\ \A n \in Slots : n # m => mutations'[n] = mutations[n]
<1>1. NoMutation.at \notin InFlight
  BY DEF NoMutation, InFlight
<1>2. /\ Sent' = IF NoMutation.at \in InFlight THEN Sent \cup {m} ELSE Sent \ {m}
      /\ \A n \in Slots : mutations'[n] = IF n = m THEN NoMutation ELSE mutations[n]
  BY SentAfter
<1> QED BY <1>1, <1>2

LEMMA SameMutations == ASSUME UNCHANGED mutations PROVE Sent' = Sent
BY DEF Sent

LEMMA WithType ==
  ASSUME NEW list \in SUBSET Posts, NEW post \in Posts, NEW adds
  PROVE  With(list, post, adds) \in SUBSET Posts
BY DEF With

LEMMA SetDataTypes ==
  ASSUME Typed, NEW list \in SUBSET Posts, SetData(list)
  PROVE  /\ cache' = list /\ cache' \in SUBSET Posts /\ local' \in SUBSET Posts
         /\ known' \in BOOLEAN /\ known' /\ error' \in BOOLEAN /\ ~error'
<1>1. known' \in BOOLEAN /\ known' /\ error' \in BOOLEAN /\ ~error'
  BY Zenon DEF SetData
<1>2. cache' = list /\ local' \in SUBSET Posts
  BY DEF SetData, Typed
<1> QED BY <1>1, <1>2

LEMMA FetchTypes ==
  /\ NoFetch \in Fetches /\ Asked \in Fetches /\ Asked # NoFetch
  /\ Asked.at # "read" /\ NoFetch.at # "read"
  /\ \A f \in Fetches : f.at = "read" => f.list \in SUBSET Posts /\ f # NoFetch
  /\ \A list \in SUBSET Posts : /\ [at |-> "read", list |-> list] \in Fetches
                                /\ [at |-> "read", list |-> list] # NoFetch
BY DEF Fetches, NoFetch, Asked

\* Loads.
LEMMA LoadsInv == ASSUME Inv, Load \/ Read \/ Loaded \/ LoadFails PROVE Inv'
<1>0. Typed /\ fetch \in Fetches
  BY DEF Inv, Typed
<1>1. CASE Load
  <2>1. fetch' = Asked /\ UNCHANGED <<server, cache, known, mutations, guest, local>>
    BY <1>1 DEF Load
  <2>2. error' \in BOOLEAN /\ crossed' \in BOOLEAN /\ (~crossed' => Sent = {})
    BY <1>1, Zenon DEF Load
  <2>3. Typed'
    BY <1>0, <2>1, <2>2, FetchTypes DEF Typed
  <2>4. LoadAlone'
    BY <2>1, <2>2, FetchTypes, SameMutations DEF LoadAlone
  <2> QED BY <2>1, <2>3, <2>4, FetchTypes DEF Inv, ListKnown, ChangeAlone
<1>2. CASE Read
  <2>1. /\ fetch = Asked /\ fetch' = [at |-> "read", list |-> server]
        /\ UNCHANGED <<server, cache, known, error, mutations, guest, local, crossed>>
    BY <1>2 DEF Read
  <2>2. fetch' \in Fetches /\ fetch' # NoFetch /\ fetch'.list = server /\ fetch # NoFetch
    BY <1>0, <2>1, FetchTypes DEF Typed
  <2>3. Typed'
    BY <1>0, <2>1, <2>2 DEF Typed
  <2>4. LoadAlone'
    BY <2>1, <2>2, SameMutations DEF Inv, LoadAlone
  <2> QED BY <2>2, <2>3, <2>4 DEF Inv, ListKnown, ChangeAlone
<1>3. CASE Loaded
  <2>1. /\ fetch.at = "read" /\ fetch' = NoFetch /\ SetData(fetch.list)
        /\ UNCHANGED <<server, mutations, guest, crossed>>
    BY <1>3 DEF Loaded
  <2>2. fetch.list \in SUBSET Posts /\ fetch # NoFetch
    BY <1>0, <2>1, FetchTypes
  <2>3. /\ cache' = fetch.list /\ cache' \in SUBSET Posts /\ local' \in SUBSET Posts
        /\ known' \in BOOLEAN /\ known' /\ error' \in BOOLEAN /\ ~error'
    BY <1>0, <2>1, <2>2, SetDataTypes
  <2>4. Typed'
    BY <1>0, <2>1, <2>3, FetchTypes DEF Typed
  <2>5. ~crossed => Sent = {} /\ fetch.list = server
    BY <2>1, <2>2 DEF Inv, LoadAlone
  <2>6. ChangeAlone'
    BY <2>1, <2>3, <2>5, SameMutations DEF ChangeAlone
  <2> QED BY <2>1, <2>3, <2>4, <2>6 DEF Inv, ListKnown, LoadAlone
<1>4. CASE LoadFails
  <2>1. /\ fetch # NoFetch /\ fetch' = NoFetch
        /\ guest' = IF error THEN guest ELSE local
        /\ UNCHANGED <<server, cache, known, mutations, local, crossed>>
    BY <1>4 DEF LoadFails
  <2>2. error' \in BOOLEAN /\ error'
    BY <1>4, Zenon DEF LoadFails
  <2>3. Typed'
    BY <1>0, <2>1, <2>2, FetchTypes DEF Typed
  <2>4. ~crossed => Sent = {}
    BY <2>1 DEF Inv, LoadAlone
  <2>5. ChangeAlone'
    BY <2>1, <2>2, <2>4, SameMutations DEF ChangeAlone
  <2> QED BY <2>1, <2>2, <2>3, <2>5 DEF Inv, ListKnown, LoadAlone
<1> QED BY <1>1, <1>2, <1>3, <1>4

\* Nothing that a load or a change is about.
LEMMA LocalInv ==
  ASSUME Inv, UNCHANGED <<server, cache, known, error, fetch, mutations, crossed>>,
         guest' \in SUBSET Posts, local' \in SUBSET Posts
  PROVE  Inv'
<1>1. Typed'
  BY DEF Inv, Typed
<1> QED BY <1>1, SameMutations DEF Inv, ListKnown, LoadAlone, ChangeAlone

\* A change that starts alone starts from the server's list.
LEMMA MutateInv == ASSUME Inv, NEW m \in Slots, NEW post \in Posts, Mutate(m, post) PROVE Inv'
<1> DEFINE adds == post \notin favoriteIds
           x == [at |-> "asked", post |-> post, adds |-> adds, snapshot |-> cache, guest |-> guest]
<1>0. Typed /\ ~error /\ mutations[m] = NoMutation
  BY DEF Inv, Mutate
<1>1. /\ mutations' = [mutations EXCEPT ![m] = x] /\ SetData(With(cache, post, adds))
      /\ fetch' = NoFetch /\ UNCHANGED <<server, guest>>
  BY DEF Mutate
<1>2. crossed' \in BOOLEAN /\ (~crossed' => ~crossed /\ Sent = {} /\ fetch = NoFetch)
  BY Zenon DEF Mutate
<1>3. adds \in BOOLEAN
  OBVIOUS
<1> HIDE DEF adds
<1>4. With(cache, post, adds) \in SUBSET Posts
  BY <1>0, WithType DEF Typed
<1>5. /\ cache' = With(cache, post, adds) /\ cache' \in SUBSET Posts /\ local' \in SUBSET Posts
      /\ known' \in BOOLEAN /\ known' /\ error' \in BOOLEAN /\ ~error'
  BY <1>0, <1>1, <1>4, SetDataTypes
<1>6. x \in Mutation /\ x.at = "asked" /\ x.post = post /\ x.adds = adds
  BY <1>0, <1>3 DEF Mutation, Typed
<1> HIDE DEF x
<1>7. Typed'
  BY <1>0, <1>1, <1>2, <1>5, <1>6, FetchTypes DEF Typed
<1>8. /\ Sent' = Sent \cup {m}
      /\ mutations'[m] = x
  BY <1>0, <1>1, <1>6, SentAfter DEF InFlight
<1>9. ~crossed' => cache = server
  BY <1>0, <1>2 DEF Inv, ListKnown, ChangeAlone
<1>10. ChangeAlone'
  BY <1>1, <1>2, <1>5, <1>6, <1>8, <1>9 DEF ChangeAlone
<1> QED BY <1>1, <1>5, <1>7, <1>10 DEF Inv, ListKnown, LoadAlone

\* The server's verdict on a change.
LEMMA ServedInv == ASSUME Inv, NEW m \in Slots, NEW done \in BOOLEAN, Served(m, done) PROVE Inv'
<1> DEFINE x == mutations[m]
           y == [x EXCEPT !.at = IF done THEN "applied" ELSE "refused"]
<1>0. Typed /\ x.at = "asked" /\ x \in Mutation /\ x # NoMutation
  BY DEF Inv, Served, Typed, NoMutation
<1>1. /\ mutations' = [mutations EXCEPT ![m] = y]
      /\ server' = IF done THEN With(server, x.post, x.adds) ELSE server
      /\ UNCHANGED <<cache, known, error, fetch, guest, local, crossed>>
  BY DEF Served
<1>2. /\ x.post \in Posts
      /\ y \in Mutation /\ y.at = IF done THEN "applied" ELSE "refused"
  BY <1>0 DEF Mutation
<1> HIDE DEF x, y
<1>3. server' \in SUBSET Posts
  BY <1>0, <1>1, <1>2, WithType DEF Typed
<1>4. Typed'
  BY <1>0, <1>1, <1>2, <1>3 DEF Typed
<1>5. m \in Sent
  BY <1>0 DEF Sent, x
<1>6. Sent' = Sent /\ \A n \in Slots : mutations'[n] = IF n = m THEN y ELSE mutations[n]
  <2>1. /\ Sent' = IF y.at \in InFlight THEN Sent \cup {m} ELSE Sent \ {m}
        /\ \A n \in Slots : mutations'[n] = IF n = m THEN y ELSE mutations[n]
    BY <1>0, <1>1, SentAfter
  <2>2. y.at \in InFlight
    BY <1>2 DEF InFlight
  <2> QED BY <1>5, <2>1, <2>2
<1>7. LoadAlone'
  BY <1>1, <1>5 DEF Inv, LoadAlone
<1>8. ChangeAlone'
  <2> SUFFICES ASSUME ~crossed, fetch = NoFetch PROVE ChangeAlone'
    BY <1>1 DEF ChangeAlone
  <2>1. Sent = {m} /\ cache = With(server, x.post, x.adds)
    BY <1>0, <1>5 DEF Inv, ChangeAlone, x
  <2>2. done => cache = server'
    BY <1>1, <2>1
  <2> QED BY <1>1, <1>2, <1>5, <1>6, <2>1, <2>2 DEF ChangeAlone
<1> QED BY <1>1, <1>4, <1>7, <1>8 DEF Inv, ListKnown

\* The end of a change.
LEMMA EndsInv == ASSUME Inv, NEW m \in Slots, Confirmed(m) \/ Failed(m) \/ Settled(m) PROVE Inv'
<1>0. Typed /\ mutations[m] \in Mutation /\ NoMutation \in Mutation
  BY DEF Inv, Typed, Mutation
<1>1. CASE Confirmed(m)
  <2>1. /\ mutations[m].at = "applied" /\ mutations' = [mutations EXCEPT ![m] = NoMutation]
        /\ UNCHANGED <<server, cache, known, error, fetch, guest, local, crossed>>
    BY <1>1 DEF Confirmed
  <2>2. m \in Sent
    BY <2>1 DEF Sent
  <2>3. /\ Sent' = Sent \ {m}
        /\ \A n \in Slots : n # m => mutations'[n] = mutations[n]
    BY <1>0, <2>1, EndedAfter
  <2>4. Typed'
    BY <1>0, <2>1 DEF Typed
  <2>5. LoadAlone'
    BY <2>1, <2>2 DEF Inv, LoadAlone
  <2>6. ChangeAlone'
    BY <2>1, <2>2, <2>3 DEF Inv, ChangeAlone
  <2> QED BY <2>1, <2>4, <2>5, <2>6 DEF Inv, ListKnown
<1>2. CASE Failed(m)
  <2> DEFINE x == mutations[m]
             y == [x EXCEPT !.at = "recovering"]
  <2>1. /\ x.at \in {"applied", "refused"} /\ mutations' = [mutations EXCEPT ![m] = y]
        /\ SetData(x.snapshot) \/ UNCHANGED <<cache, known, error, local>>
        /\ fetch' = Asked /\ UNCHANGED <<server, guest>>
    BY <1>2 DEF Failed, recoverAuthFavorites
  <2>2. crossed' \in BOOLEAN /\ (~crossed' => Sent = {m})
    BY <1>2, Zenon DEF Failed, recoverAuthFavorites
  <2>3. x # NoMutation
    BY <2>1 DEF NoMutation
  <2>4. x.snapshot \in SUBSET Posts /\ y \in Mutation /\ y.at = "recovering"
    BY <1>0, <2>3 DEF Mutation
  <2> HIDE DEF x, y
  <2>5. /\ cache' \in SUBSET Posts /\ local' \in SUBSET Posts
        /\ known' \in BOOLEAN /\ error' \in BOOLEAN /\ (known => known')
    <3>1. CASE SetData(x.snapshot)
      BY <1>0, <2>4, <3>1, SetDataTypes
    <3>2. CASE UNCHANGED <<cache, known, error, local>>
      BY <1>0, <3>2 DEF Typed
    <3> QED BY <2>1, <3>1, <3>2
  <2>6. Typed'
    BY <1>0, <2>1, <2>2, <2>4, <2>5, FetchTypes DEF Typed
  <2>7. Sent' = Sent \ {m}
    BY <1>0, <2>1, <2>4, SentAfter DEF InFlight
  <2>8. LoadAlone'
    BY <2>1, <2>2, <2>7, FetchTypes DEF LoadAlone
  <2> QED BY <2>1, <2>5, <2>6, <2>8, FetchTypes DEF Inv, ListKnown, ChangeAlone
<1>3. CASE Settled(m)
  <2> DEFINE x == mutations[m]
  <2>1. /\ x.at = "recovering" /\ fetch = NoFetch
        /\ mutations' = [mutations EXCEPT ![m] = NoMutation]
        /\ guest' = With(x.guest, x.post, x.adds) /\ local' = With(x.guest, x.post, x.adds)
        /\ UNCHANGED <<server, cache, known, error, fetch, crossed>>
    BY <1>3 DEF Settled, persistLocalFavoriteIds
  <2>2. x # NoMutation
    BY <2>1 DEF NoMutation
  <2>3. x.guest \in SUBSET Posts /\ x.post \in Posts
    BY <1>0, <2>2 DEF Mutation
  <2> HIDE DEF x
  <2>4. guest' \in SUBSET Posts /\ local' \in SUBSET Posts
    BY <2>1, <2>3, WithType
  <2>5. Typed'
    BY <1>0, <2>1, <2>4 DEF Typed
  <2>6. m \notin Sent
    BY <2>1 DEF Sent, x
  <2>7. /\ Sent' = Sent
        /\ \A n \in Slots : n # m => mutations'[n] = mutations[n]
    BY <1>0, <2>1, <2>6, EndedAfter
  <2>8. Sent \subseteq Slots
    BY DEF Sent
  <2>9. ChangeAlone'
    BY <2>1, <2>6, <2>7, <2>8 DEF Inv, ChangeAlone
  <2> QED BY <2>1, <2>5, <2>9 DEF Inv, ListKnown, LoadAlone
<1> QED BY <1>1, <1>2, <1>3

LEMMA InvPreserved == ASSUME Inv, [Next]_vars PROVE Inv'
<1>1. ASSUME NEW post \in Posts, ToggleLocally(post) PROVE Inv'
  <2>1. guest \in SUBSET Posts
    BY DEF Inv, Typed
  <2>2. guest' \in SUBSET Posts /\ local' \in SUBSET Posts
    BY <1>1, <2>1, WithType DEF ToggleLocally, persistLocalFavoriteIds
  <2> QED BY <1>1, <2>2, LocalInv DEF ToggleLocally
<1>2. CASE UNCHANGED vars
  BY <1>2, LocalInv DEF vars, Inv, Typed
<1> QED BY <1>1, <1>2, LoadsInv, MutateInv, ServedInv, EndsInv DEF Next

LEMMA InvInitially == ASSUME Init PROVE Inv
<1>1. known \in BOOLEAN /\ error \in BOOLEAN /\ crossed \in BOOLEAN
  BY Zenon DEF Init
<1>2. Typed
  BY <1>1, FetchTypes DEF Init, Typed, Mutation
<1>3. Sent = {} /\ fetch = Asked
  BY DEF Init, Sent, NoMutation
<1> QED BY <1>2, <1>3, FetchTypes DEF Inv, ListKnown, LoadAlone, ChangeAlone

LEMMA InvConsequences == ASSUME Inv PROVE TypeOK /\ Reconciled
<1>1. TypeOK
  <2>1. {known, error, crossed} \subseteq BOOLEAN
    BY DEF Inv, Typed
  <2>2. fetch \in [at : {"none", "asked", "read"}, list : SUBSET Posts]
    BY DEF Inv, Typed, Fetches, NoFetch, Asked
  <2> QED BY <2>1, <2>2 DEF Inv, Typed, TypeOK, Mutation
<1>2. (\A m \in Slots : mutations[m] = NoMutation) => Sent = {}
  BY DEF Sent, NoMutation
<1> QED BY <1>1, <1>2 DEF Inv, ChangeAlone, Reconciled

LEMMA Invariance == Spec => []Inv
BY InvInitially, InvPreserved, PTL DEF Spec

\* The cache, the local lists and every mutation's snapshot hold posts only.
THEOREM TypeCorrect == Spec => []TypeOK
BY Invariance, InvConsequences, PTL

\* Any number of changes, refused, confirmed or answered too late, and any
\* number of loads: once nothing is under way and nothing has overlapped, the
\* list shown is the server's.
THEOREM ReconciledAlways == Spec => []Reconciled
BY Invariance, InvConsequences, PTL
=============================================================================
