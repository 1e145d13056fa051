---------------------------- MODULE ScreensProofs ----------------------------
(* What the run of MCScreens checks of the screens for two queries and two   *)
(* runs of handlers, proved for any number of both, and for any screens of   *)
(* which the assumptions of module Screens hold (TLC evaluates them for the  *)
(* screens of AllScreens).                                                   *)
EXTENDS Screens, TLAPS

-----------------------------------------------------------------------------
(* The inductive invariant.                                                  *)

HandlerFor(c) == Me.controls[c].handler

LoadTypes == [of : Loaders, query : 1..MaxQueries, current : BOOLEAN]
RunTypes == [of : Controls \cup {"none", Ended}, query : 0..MaxQueries, at : Nat,
             failed : Nat, hollow : BOOLEAN]

\* TypeOK, with the whole of every run. A run has a query of the past.
Typed ==
  /\ screen \in DOMAIN Pages /\ here \in BOOLEAN /\ query \in 1..MaxQueries
  /\ here => stage \in KnownStages
  /\ flags \subseteq KnownFlags
  /\ loads \subseteq LoadTypes
  /\ view \in [Loaders -> [query : 0..MaxQueries, failed : BOOLEAN]]
  /\ runs \in [Runs -> RunTypes]
  /\ \A r \in Runs : Active(r) => /\ runs[r].at \in DOMAIN HandlerOf(r).calls
                                  /\ runs[r].query \in 1..query

\* The busy flags of a run stay up until it ends: this is what SingleFlight
\* rests on, as a control is disabled by its own flags.
BusyUp == here => \A r \in Runs : Attended(r) => HandlerOf(r).busy \subseteq flags

\* A handler that goes on although a call that counts has failed.
Persists(handler) ==
  \E i \in DOMAIN handler.calls :
    handler.calls[i].counts /\ (handler.calls[i].next \/ handler.calls[i].caught)

\* A write that is missing has been counted as a failure.
Counted ==
  \A r \in Runs :
    Active(r) /\ runs[r].hollow => runs[r].failed > 0 /\ Persists(HandlerOf(r))

\* The loads that will be applied are for the query that is shown: those of a
\* loader that drops the others ...
CurrentLoads ==
  here => \A d \in loads :
    Me.loaders[d.of].follows /\ DropsStale(d.of) /\ d.current => d.query = query

\* ... and those of a loader whose own flag keeps the query from changing.
OwnFlags(l) == Me.loaders[l].flags \cap Me.loaders[l].unless
Lone(l) == Me.loaders[l].follows /\ ~Me.loaders[l].guarded /\ OneAtATime(l)
LoneLoads ==
  here => \A d \in loads :
    Lone(d.of) => d.current /\ d.query = query /\ OwnFlags(d.of) \subseteq flags

\* Rows of an earlier query are about to be replaced.
RowsOwed ==
  here => \A l \in Loaders :
    Me.loaders[l].follows /\ (DropsStale(l) \/ OneAtATime(l)) =>
      \/ view[l].query \in {0, query} \/ view[l].failed
      \/ \E d \in loads : d.of = l /\ d.current

Inv ==
  /\ Typed /\ SingleFlight /\ BusyUp /\ NoOrphanFlag /\ Counted /\ HonestSuccess
  /\ CurrentLoads /\ LoneLoads /\ RowsOwed

-----------------------------------------------------------------------------
(* The screens.                                                              *)

LEMMA PageFacts ==
  ASSUME screen \in DOMAIN Pages
  PROVE  /\ WellFormed(Me) /\ BusyKept(Me) /\ LoadingKept(Me)
         /\ \A c \in Controls : ClaimsBacked(HandlerFor(c))
BY PagesWellFormed, PagesBusyKept, PagesLoadingKept, PagesClaimsBacked
   DEF Me, Controls, HandlerFor

\* No step changes the screen.
LEMMA SamePage ==
  ASSUME screen' = screen
  PROVE  /\ Me' = Me /\ Loaders' = Loaders /\ Controls' = Controls /\ Timers' = Timers
         /\ KnownFlags' = KnownFlags /\ KnownStages' = KnownStages
         /\ LoadTypes' = LoadTypes /\ RunTypes' = RunTypes
<1>1. Me' = Me
  BY DEF Me
<1>2. Loaders' = Loaders /\ Controls' = Controls /\ Timers' = Timers /\ KnownStages' = KnownStages
  BY <1>1 DEF Loaders, Controls, Timers, KnownStages
<1>3. KnownFlags' = KnownFlags
  <2>1. FlagsOf(Loaders)' = FlagsOf(Loaders)
    BY <1>1, <1>2 DEF FlagsOf
  <2> QED BY <1>1, <1>2, <2>1 DEF KnownFlags
<1> QED BY <1>1, <1>2, <1>3 DEF LoadTypes, RunTypes

\* What a handler does at its end, or when it begins.
LEMMA EndFacts ==
  ASSUME screen \in DOMAIN Pages, NEW c \in Controls, NEW e \in EndsOf(HandlerFor(c))
  PROVE  /\ e.reload \subseteq Loaders /\ e.stage \in {"same"} \cup KnownStages
         /\ e.starts \subseteq Timers
         /\ \A k \in Controls : HandlerFor(k).busy \cap e.stops = {}
         /\ \A l \in Loaders : Lone(l) => OwnFlags(l) \cap e.stops = {} /\ l \notin e.reload
         /\ \A l \in Loaders : HandlerFor(c).calls # << >> /\ DropsStale(l) => l \notin e.reload
<1>1. /\ e.reload \subseteq Loaders /\ e.stage \in {"same"} \cup KnownStages
  BY PageFacts DEF WellFormed, HandlerFor, Controls, Loaders, KnownStages
<1>2. e.starts \subseteq Timers
  BY DEF Timers, TimersOf, HandlerFor, Controls
<1>3. \A k \in Controls : HandlerFor(k).busy \cap e.stops = {}
  BY PageFacts DEF BusyKept, HandlerFor, Controls
<1>4. \A l \in Loaders : Lone(l) => OwnFlags(l) \cap e.stops = {}
  BY PageFacts DEF LoadingKept, Lone, OwnFlags, HandlerFor, Controls, Loaders
<1>5. \A l : l \in e.reload => ReloadedBy(l, c)
  BY DEF ReloadedBy, HandlerFor
<1>6. \A l : Lone(l) => l \notin e.reload
  BY <1>5 DEF Lone, OneAtATime
<1>7. \A l : HandlerFor(c).calls # << >> /\ DropsStale(l) => l \notin e.reload
  BY <1>5 DEF DropsStale, ReloadedLate, HandlerFor
<1> QED BY <1>1, <1>2, <1>3, <1>4, <1>6, <1>7

\* The flags of a control.
LEMMA BusyFacts ==
  ASSUME screen \in DOMAIN Pages, NEW c \in Controls
  PROVE  /\ HandlerFor(c).busy \subseteq Me.controls[c].control.unless
         /\ HandlerFor(c).busy \cap Timers = {}
         /\ AllFlags(HandlerFor(c)) \subseteq KnownFlags
         /\ \A l \in Loaders : HandlerFor(c).busy \cap Me.loaders[l].flags = {}
         /\ \A k \in Controls :
              /\ HandlerFor(c).busy \cap (HandlerFor(k).marks \cup HandlerFor(k).unmarks) = {}
              /\ HandlerFor(k).scoped /\ ~HandlerFor(c).scoped
                   => HandlerFor(c).busy \cap AllFlags(HandlerFor(k)) = {}
<1>1. AllFlags(HandlerFor(c)) \subseteq KnownFlags
  BY DEF KnownFlags, HandlerFor
<1>2. /\ HandlerFor(c).busy \subseteq Me.controls[c].control.unless
      /\ HandlerFor(c).busy \cap Timers = {}
      /\ \A l \in Loaders : HandlerFor(c).busy \cap Me.loaders[l].flags = {}
  BY PageFacts DEF BusyKept, HandlerFor, Controls, Loaders, Timers
<1>3. \A k \in Controls :
        /\ HandlerFor(c).busy \cap (HandlerFor(k).marks \cup HandlerFor(k).unmarks) = {}
        /\ HandlerFor(k).scoped /\ ~HandlerFor(c).scoped
             => HandlerFor(c).busy \cap AllFlags(HandlerFor(k)) = {}
  BY PageFacts DEF BusyKept, HandlerFor, Controls
<1> QED BY <1>1, <1>2, <1>3

\* The own flag of a loader that is alone.
LEMMA LoneFacts ==
  ASSUME screen \in DOMAIN Pages, NEW l \in Loaders, Lone(l)
  PROVE  /\ OwnFlags(l) # {} /\ OwnFlags(l) \cap Timers = {}
         /\ OwnFlags(l) \subseteq Me.loaders[l].unless
         /\ \A k \in Loaders \ {l} : OwnFlags(l) \cap Me.loaders[k].flags = {}
         /\ \A c \in Controls : OwnFlags(l) \cap AllFlags(HandlerFor(c)) = {}
<1>1. OwnFlags(l) # {} /\ OwnFlags(l) \subseteq Me.loaders[l].unless
  BY DEF Lone, OneAtATime, OwnFlags
<1>2. LoadingKept(Me)
  BY PageFacts
<1> QED BY <1>1, <1>2 DEF LoadingKept, Lone, OwnFlags, Loaders, Controls, Timers, HandlerFor

LEMMA LoaderFlags ==
  ASSUME NEW names \in SUBSET Loaders
  PROVE  /\ FlagsOf(names) \subseteq KnownFlags
         /\ \A f : f \in FlagsOf(names) <=> \E l \in names : f \in Me.loaders[l].flags
<1>1. \A f : f \in FlagsOf(names) <=> \E l \in names : f \in Me.loaders[l].flags
  BY DEF FlagsOf
<1>2. \A f : f \in FlagsOf(Loaders) <=> \E l \in Loaders : f \in Me.loaders[l].flags
  BY DEF FlagsOf
<1> QED BY <1>1, <1>2 DEF KnownFlags

\* Loaders that are started again: their loads, if guarded, are taken back,
\* and there is a new one for each.
LEMMA StartedLoads ==
  ASSUME NEW ls \in SUBSET LoadTypes, NEW names \in SUBSET Loaders, NEW q \in 1..MaxQueries
  PROVE  /\ StartLoads(ls, names, q) \subseteq LoadTypes
         /\ \A l \in names : NewLoad(l, q) \in StartLoads(ls, names, q)
         /\ \A d \in ls : d.of \notin names => d \in StartLoads(ls, names, q)
         /\ \A d \in ls : \E e \in StartLoads(ls, names, q) :
              e.of = d.of /\ (d.current => e.current)
         /\ \A e \in StartLoads(ls, names, q) :
              \/ e \in ls /\ (e.of \in names => ~Me.loaders[e.of].guarded)
              \/ e.of \in names /\ e.query = q /\ e.current
              \/ e.of \in names /\ Me.loaders[e.of].guarded /\ ~e.current
<1>n. \A l \in names : /\ NewLoad(l, q) \in LoadTypes /\ NewLoad(l, q).of = l
                       /\ NewLoad(l, q).query = q /\ NewLoad(l, q).current
  BY DEF NewLoad, LoadTypes
<1>s. \A d \in ls : /\ Superseded(d) \in LoadTypes /\ Superseded(d).of = d.of
                    /\ Me.loaders[d.of].guarded => ~Superseded(d).current
                    /\ ~Me.loaders[d.of].guarded => Superseded(d) = d
  BY DEF Superseded, LoadTypes
<1> DEFINE old == {IF d.of \in names THEN Superseded(d) ELSE d : d \in ls}
           new == {NewLoad(l, q) : l \in names}
<1>1. StartLoads(ls, names, q) = old \cup new
  BY DEF StartLoads
<1>2. \A e : e \in new <=> \E l \in names : e = NewLoad(l, q)
  OBVIOUS
<1>3. \A e : e \in old <=> \E d \in ls : e = IF d.of \in names THEN Superseded(d) ELSE d
  OBVIOUS
<1> HIDE DEF old, new
<1>4. old \subseteq LoadTypes /\ new \subseteq LoadTypes
  BY <1>n, <1>s, <1>2, <1>3
<1>5. \A l \in names : NewLoad(l, q) \in new
  BY <1>2
<1>6. \A d \in ls : d.of \notin names => d \in old
  BY <1>3
<1>7. \A d \in ls : \E e \in old \cup new : e.of = d.of /\ (d.current => e.current)
  BY <1>5, <1>6, <1>n
<1>8. \A e \in old :
        \/ e \in ls /\ (e.of \in names => ~Me.loaders[e.of].guarded)
        \/ e.of \in names /\ Me.loaders[e.of].guarded /\ ~e.current
  BY <1>3, <1>s
<1>9. \A e \in new : e.of \in names /\ e.query = q /\ e.current
  BY <1>2, <1>n
<1> QED BY <1>1, <1>4, <1>5, <1>6, <1>7, <1>8, <1>9

-----------------------------------------------------------------------------
(* What an end of a handler does to the page, in the terms the invariant     *)
(* needs: which flags stay up, whom a flag that is up belongs to, and which  *)
(* loads there are.                                                          *)

LoadOwes(ls, f) == \E d \in ls : d.current /\ f \in Me.loaders[d.of].flags

LEMMA Performed ==
  ASSUME Typed, NEW c \in Controls, NEW end \in EndsOf(HandlerFor(c)), NEW q \in 1..MaxQueries,
         NEW low \in SUBSET AllFlags(HandlerFor(c)), NEW up \in SUBSET AllFlags(HandlerFor(c)),
         Perform(q, end, low, up)
  PROVE  /\ here' \in BOOLEAN /\ (here' => here) /\ (here' => stage' \in KnownStages)
         /\ flags' \subseteq KnownFlags /\ loads' \subseteq LoadTypes
         /\ \A f \in flags : f \notin low \cup end.stops => f \in flags'
         /\ here => up \subseteq flags'
         /\ here => \A f \in flags' :
              f \in flags \ low \/ f \in up \/ f \in Timers \/ LoadOwes(loads', f)
         /\ \A d \in loads : \E e \in loads' : e.of = d.of /\ (d.current => e.current)
         /\ here => \A e \in loads' :
              \/ e \in loads
              \/ e.of \in end.reload /\ e.query = q
              \/ e.of \in end.reload /\ ~e.current
<1>e. /\ end.reload \in SUBSET Loaders /\ end.stage \in {"same"} \cup KnownStages
      /\ end.starts \subseteq Timers
  BY EndFacts DEF Typed
<1>k. /\ low \subseteq KnownFlags /\ up \subseteq KnownFlags /\ Timers \subseteq KnownFlags
      /\ FlagsOf(end.reload) \subseteq KnownFlags
  BY <1>e, BusyFacts, LoaderFlags DEF Typed, KnownFlags
<1>1. CASE here
  <2>1. /\ loads' = StartLoads(loads, end.reload, q)
        /\ flags' = ((flags \ (low \cup end.stops)) \cup up) \cup FlagsOf(end.reload) \cup end.starts
        /\ stage' = IF end.stage = "same" THEN stage ELSE end.stage
    BY <1>1 DEF Perform
  <2>2. here' \in BOOLEAN
    BY <1>1, Zenon DEF Perform
  <2>3. stage' \in KnownStages
    BY <1>1, <1>e, <2>1 DEF Typed
  <2>4. loads \in SUBSET LoadTypes
    BY DEF Typed
  <2>5. /\ loads' \subseteq LoadTypes
        /\ \A l \in end.reload : NewLoad(l, q) \in loads'
        /\ \A d \in loads : \E e \in loads' : e.of = d.of /\ (d.current => e.current)
        /\ \A e \in loads' :
              \/ e \in loads
              \/ e.of \in end.reload /\ e.query = q /\ e.current
              \/ e.of \in end.reload /\ ~e.current
    <3> DEFINE new == StartLoads(loads, end.reload, q)
    <3>1. /\ new \subseteq LoadTypes
          /\ \A l \in end.reload : NewLoad(l, q) \in new
          /\ \A d \in loads : \E e \in new : e.of = d.of /\ (d.current => e.current)
          /\ \A e \in new :
              \/ e \in loads /\ (e.of \in end.reload => ~Me.loaders[e.of].guarded)
              \/ e.of \in end.reload /\ e.query = q /\ e.current
              \/ e.of \in end.reload /\ Me.loaders[e.of].guarded /\ ~e.current
      BY <1>e, <2>4, StartedLoads
    <3> HIDE DEF new
    <3>2. loads' = new
      BY <2>1 DEF new
    <3> QED BY <3>1, <3>2
  <2>6. \A l : NewLoad(l, q).of = l /\ NewLoad(l, q).current
    BY DEF NewLoad
  <2>7. \A f \in FlagsOf(end.reload) : LoadOwes(loads', f)
    BY <1>e, <2>5, <2>6, LoaderFlags DEF LoadOwes
  <2>8. flags' \subseteq KnownFlags
    BY <1>e, <1>k, <2>1 DEF Typed
  <2>9. \A e \in loads' : \/ e \in loads
                          \/ e.of \in end.reload /\ e.query = q
                          \/ e.of \in end.reload /\ ~e.current
    BY <2>5
  <2>10. \A f \in flags' : \/ f \in flags \ low \/ f \in up \/ f \in Timers
                           \/ f \in FlagsOf(end.reload)
    BY <1>e, <2>1
  <2>11. (\A f \in flags : f \notin low \cup end.stops => f \in flags') /\ up \subseteq flags'
    BY <2>1
  <2> QED BY <1>1, <2>2, <2>3, <2>5, <2>7, <2>8, <2>9, <2>10, <2>11
<1>2. CASE ~here
  <2>1. loads' = loads /\ flags' = flags /\ stage' = stage /\ here' = here
    BY <1>2 DEF Perform
  <2> QED BY <1>2, <2>1 DEF Typed
<1> QED BY <1>1, <1>2

-----------------------------------------------------------------------------
(* Runs: the one that is replaced, and the others.                           *)

\* The facts about a run that the invariant asks for, of run x.
RunOK(x, q) ==
  x.of \notin {"none", Ended} => x.at \in DOMAIN HandlerFor(x.of).calls /\ x.query \in 1..q

Backed(x) ==
  /\ x.of \notin {"none", Ended} /\ x.hollow => x.failed > 0 /\ Persists(HandlerFor(x.of))
  /\ x.of = Ended => ~x.hollow

LEMMA NoRunType == NoRun \in RunTypes /\ ~NoRun.hollow
<1>1. ~NoRun.hollow
  BY Zenon DEF NoRun
<1> QED BY <1>1, MaxQueriesAssumption DEF NoRun, RunTypes

LEMMA RunFacts ==
  /\ Typed => \A r \in Runs : runs[r] \in RunTypes /\ RunOK(runs[r], query)
  /\ Counted /\ HonestSuccess => \A r \in Runs : Backed(runs[r])
BY DEF Typed, Counted, HonestSuccess, RunOK, Backed, Active, HandlerOf, HandlerFor

\* Typed, Counted and HonestSuccess of the runs after one has been replaced.
LEMMA RunReplaced ==
  ASSUME Typed, Counted, HonestSuccess, screen' = screen, query' = query,
         NEW r \in Runs, NEW x \in RunTypes, runs' = [runs EXCEPT ![r] = x],
         RunOK(x, query), Backed(x)
  PROVE  /\ runs' \in [Runs -> RunTypes']
         /\ \A p \in Runs : runs'[p] = IF p = r THEN x ELSE runs[p]
         /\ \A p \in Runs : Active(p)' => /\ runs'[p].at \in DOMAIN HandlerOf(p)'.calls
                                          /\ runs'[p].query \in 1..query'
         /\ Counted' /\ HonestSuccess'
<1>1. runs \in [Runs -> RunTypes]
  BY DEF Typed
<1>2. runs' \in [Runs -> RunTypes] /\ \A p \in Runs : runs'[p] = IF p = r THEN x ELSE runs[p]
  BY <1>1
<1>3. \A p \in Runs : RunOK(runs'[p], query) /\ Backed(runs'[p])
  BY <1>2, RunFacts
<1>4. Me' = Me /\ RunTypes' = RunTypes
  BY SamePage
<1> QED BY <1>2, <1>3, <1>4
        DEF RunOK, Backed, Counted, HonestSuccess, Active, HandlerOf, HandlerFor

\* The runs are left alone.
LEMMA RunsKept ==
  ASSUME Typed, Counted, HonestSuccess, screen' = screen, runs' = runs,
         query' \in Nat, query <= query'
  PROVE  /\ runs' \in [Runs -> RunTypes']
         /\ \A p \in Runs : Active(p)' => /\ runs'[p].at \in DOMAIN HandlerOf(p)'.calls
                                          /\ runs'[p].query \in 1..query'
         /\ Counted' /\ HonestSuccess'
<1>1. Me' = Me /\ RunTypes' = RunTypes
  BY SamePage
<1>2. \A p \in Runs : Active(p) => runs[p].query \in 1..query'
  BY DEF Typed
<1> QED BY <1>1, <1>2 DEF Typed, Counted, HonestSuccess, Active, HandlerOf

\* A run that is not replaced is attended as before, as long as the page is
\* there.
LEMMA OthersAttended ==
  ASSUME screen' = screen, query' = query, here' => here, NEW p, runs'[p] = runs[p]
  PROVE  /\ HandlerOf(p)' = HandlerOf(p) /\ (Attended(p)' => Attended(p))
         /\ here' /\ Attended(p) => Attended(p)'
BY SamePage DEF HandlerOf, Attended, Active, Dropped

-----------------------------------------------------------------------------
(* Rows.                                                                     *)

LEMMA SameRows ==
  ASSUME screen' = screen
  PROVE  \A l : /\ DropsStale(l)' = DropsStale(l) /\ OneAtATime(l)' = OneAtATime(l)
                /\ Lone(l)' = Lone(l) /\ OwnFlags(l)' = OwnFlags(l)
<1>1. Me' = Me /\ Controls' = Controls
  BY SamePage
<1>2. \A l, c : ReloadedBy(l, c)' = ReloadedBy(l, c)
  BY <1>1 DEF ReloadedBy
<1>3. \A l : OneAtATime(l)' = OneAtATime(l)
  BY <1>1, <1>2 DEF OneAtATime
<1>4. \A l : DropsStale(l)' = DropsStale(l)
  BY <1>1, <1>2 DEF DropsStale, ReloadedLate
<1> QED BY <1>1, <1>3, <1>4 DEF Lone, OwnFlags

\* Loads are started for the query that is shown, or for loaders that are
\* left out; a loader that is alone keeps its flag.
LEMMA RowsKept ==
  ASSUME Typed, CurrentLoads, LoneLoads, RowsOwed,
         screen' = screen, query' = query, view' = view, here' => here,
         loads' \subseteq LoadTypes,
         here => \A d \in loads : \E e \in loads' : e.of = d.of /\ (d.current => e.current),
         here => \A e \in loads' :
           \/ e \in loads
           \/ /\ DropsStale(e.of) /\ e.current => e.query = query
              /\ Lone(e.of) => e.current /\ e.query = query /\ OwnFlags(e.of) \subseteq flags',
         here => \A l \in Loaders : Lone(l) => OwnFlags(l) \cap flags \subseteq flags'
  PROVE  CurrentLoads' /\ LoneLoads' /\ RowsOwed'
<1>1. Me' = Me /\ Loaders' = Loaders
  BY SamePage
<1>2. CurrentLoads'
  BY <1>1, SameRows DEF CurrentLoads
<1>3. \A e \in loads' : e.of \in Loaders
  BY DEF LoadTypes
<1>4. LoneLoads'
  BY <1>1, <1>3, SameRows DEF LoneLoads
<1>5. RowsOwed'
  BY <1>1, SameRows DEF RowsOwed
<1> QED BY <1>2, <1>4, <1>5

-----------------------------------------------------------------------------
(* Loads.                                                                    *)

LEMMA ArriveInv ==
  ASSUME Inv, NEW d \in loads, NEW result, Arrive(d, result)
  PROVE  Inv'
<1>0. Typed /\ SingleFlight /\ BusyUp /\ NoOrphanFlag /\ Counted /\ HonestSuccess
      /\ CurrentLoads /\ LoneLoads /\ RowsOwed
  BY DEF Inv
<1>u. /\ screen' = screen /\ here' = here /\ query' = query /\ stage' = stage /\ runs' = runs
      /\ loads' = loads \ {d}
      /\ flags' \subseteq flags
  BY DEF Arrive
<1>d. d \in LoadTypes /\ d.of \in Loaders /\ d.query \in 1..MaxQueries
  BY <1>0 DEF Typed, LoadTypes
<1>s. /\ Me' = Me /\ Loaders' = Loaders /\ Controls' = Controls /\ Timers' = Timers
      /\ KnownFlags' = KnownFlags /\ KnownStages' = KnownStages
      /\ LoadTypes' = LoadTypes /\ RunTypes' = RunTypes
  BY <1>u, SamePage
<1>a. \A p \in Runs : /\ HandlerOf(p)' = HandlerOf(p) /\ (Attended(p)' => Attended(p))
                      /\ here' /\ Attended(p) => Attended(p)'
  BY <1>u, OthersAttended
<1>v. Shown(d, result) \in [query : 0..MaxQueries, failed : BOOLEAN]
  <2>1. view[d.of] \in [query : 0..MaxQueries, failed : BOOLEAN] /\ d.query \in 0..MaxQueries
    BY <1>0, <1>d, MaxQueriesAssumption DEF Typed
  <2>2. CASE result = "ok"
    BY <2>1, <2>2 DEF Shown
  <2>3. CASE result # "ok" /\ Me.loaders[d.of].failed = "blank"
    BY <2>1, <2>3 DEF Shown
  <2>4. CASE result # "ok" /\ Me.loaders[d.of].failed # "blank"
    BY <2>1, <2>4 DEF Shown
  <2> QED BY <2>2, <2>3, <2>4
<1>w. Shown(d, result).query = d.query \/ Shown(d, result).failed
  <2>1. view[d.of] \in [query : 0..MaxQueries, failed : BOOLEAN]
    BY <1>0, <1>d DEF Typed
  <2> QED BY <2>1 DEF Shown
<1>r. /\ runs' \in [Runs -> RunTypes']
      /\ \A p \in Runs : Active(p)' => /\ runs'[p].at \in DOMAIN HandlerOf(p)'.calls
                                       /\ runs'[p].query \in 1..query'
      /\ Counted' /\ HonestSuccess'
  <2>1. query' \in Nat /\ query <= query'
    BY <1>0, <1>u, MaxQueriesAssumption DEF Typed
  <2> QED BY <1>0, <1>u, <2>1, RunsKept
<1>1. Typed'
  <2>1. view' \in [Loaders -> [query : 0..MaxQueries, failed : BOOLEAN]]
    BY <1>0, <1>v DEF Typed, Arrive
  <2> QED BY <1>0, <1>u, <1>s, <1>r, <2>1 DEF Typed
<1>2. SingleFlight'
  BY <1>0, <1>a DEF SingleFlight
<1>3. BusyUp'
  <2>1. \A p \in Runs : Attended(p) => HandlerOf(p).busy \cap Me.loaders[d.of].flags = {}
    <3>1. \A p \in Runs : Attended(p) =>
            runs[p].of \in Controls /\ HandlerOf(p) = HandlerFor(runs[p].of)
      BY <1>0 DEF Typed, RunTypes, Attended, Active, HandlerOf, HandlerFor
    <3> QED BY <1>0, <1>d, <3>1, BusyFacts DEF Typed
  <2>2. flags \ Me.loaders[d.of].flags \subseteq flags'
    BY DEF Arrive
  <2> QED BY <1>0, <1>u, <1>a, <2>1, <2>2 DEF BusyUp
<1>4. NoOrphanFlag'
  <2> SUFFICES ASSUME here, NEW f \in flags'
               PROVE  \/ f \in Timers
                      \/ \E e \in loads' : e.current /\ f \in Me.loaders[e.of].flags
                      \/ \E p \in Runs : Attended(p)' /\ f \in AllFlags(HandlerOf(p)')
    BY <1>u, <1>s DEF NoOrphanFlag
  <2>1. ASSUME NEW e \in loads, e.current, f \in Me.loaders[e.of].flags PROVE e # d
    BY <2>1 DEF Arrive
  <2> QED BY <1>0, <1>u, <1>a, <2>1 DEF NoOrphanFlag
<1>5. CurrentLoads'
  BY <1>0, <1>u, <1>s, SameRows DEF CurrentLoads
<1>6. LoneLoads'
  <2> SUFFICES ASSUME here, NEW e \in loads', Lone(e.of)
               PROVE  e.current /\ e.query = query /\ OwnFlags(e.of) \subseteq flags'
    BY <1>u, <1>s, SameRows DEF LoneLoads
  <2>1. e \in LoadTypes /\ e # d /\ e.of \in Loaders /\ e \in loads
    BY <1>0, <1>u DEF Typed, LoadTypes
  <2>2. e.current /\ e.query = query /\ OwnFlags(e.of) \subseteq flags
    BY <1>0, <2>1 DEF LoneLoads
  <2>3. e.of # d.of
    <3>1. e.of = d.of => d.current /\ d.query = query
      BY <1>0 DEF LoneLoads
    <3> QED BY <1>d, <2>1, <2>2, <3>1 DEF LoadTypes
  <2>4. OwnFlags(e.of) \cap Me.loaders[d.of].flags = {}
    BY <1>0, <1>d, <2>1, <2>3, LoneFacts DEF Typed
  <2>5. flags \ Me.loaders[d.of].flags \subseteq flags'
    BY DEF Arrive
  <2> QED BY <2>2, <2>4, <2>5
<1>7. RowsOwed'
  <2> SUFFICES ASSUME here, NEW l \in Loaders, Me.loaders[l].follows,
                      DropsStale(l) \/ OneAtATime(l)
               PROVE  \/ view'[l].query \in {0, query} \/ view'[l].failed
                      \/ \E e \in loads' : e.of = l /\ e.current
    BY <1>u, <1>s, SameRows DEF RowsOwed
  <2>1. CASE d.current /\ d.of = l
    <3>1. d.query = query
      BY <1>0, <2>1 DEF CurrentLoads, LoneLoads, Lone, DropsStale, OneAtATime, ReloadedLate
    <3>2. view'[l] = Shown(d, result)
      BY <1>0, <2>1 DEF Arrive, Typed
    <3> QED BY <1>w, <3>1, <3>2
  <2>2. CASE ~(d.current /\ d.of = l)
    <3>1. view'[l] = view[l]
      BY <1>0, <1>d, <2>2 DEF Arrive, Typed
    <3> QED BY <1>0, <1>u, <2>2, <3>1 DEF RowsOwed
  <2> QED BY <2>1, <2>2
<1> QED BY <1>1, <1>2, <1>3, <1>4, <1>r, <1>5, <1>6, <1>7 DEF Inv

\* Poll, Retry: a loader is started again for the same query.
LEMMA RestartInv ==
  ASSUME Inv, NEW l \in Loaders, Poll(l) \/ Retry(l)
  PROVE  Inv'
<1>0. Typed /\ SingleFlight /\ BusyUp /\ NoOrphanFlag /\ Counted /\ HonestSuccess
      /\ CurrentLoads /\ LoneLoads /\ RowsOwed
  BY DEF Inv
<1>u. /\ screen' = screen /\ here' = here /\ here /\ query' = query /\ stage' = stage
      /\ runs' = runs /\ view' = view
      /\ loads' = StartLoads(loads, {l}, query)
      /\ flags' = flags \cup Me.loaders[l].flags
  BY DEF Poll, Retry
<1>s. /\ Me' = Me /\ Loaders' = Loaders /\ Controls' = Controls /\ Timers' = Timers
      /\ KnownFlags' = KnownFlags /\ KnownStages' = KnownStages
      /\ LoadTypes' = LoadTypes /\ RunTypes' = RunTypes
  BY <1>u, SamePage
<1>a. \A p \in Runs : /\ HandlerOf(p)' = HandlerOf(p) /\ (Attended(p)' => Attended(p))
                      /\ here' /\ Attended(p) => Attended(p)'
  BY <1>u, OthersAttended
<1>r. /\ runs' \in [Runs -> RunTypes']
      /\ \A p \in Runs : Active(p)' => /\ runs'[p].at \in DOMAIN HandlerOf(p)'.calls
                                       /\ runs'[p].query \in 1..query'
      /\ Counted' /\ HonestSuccess'
  <2>1. query' \in Nat /\ query <= query'
    BY <1>0, <1>u, MaxQueriesAssumption DEF Typed
  <2> QED BY <1>0, <1>u, <2>1, RunsKept
<1> DEFINE new == StartLoads(loads, {l}, query)
<1>l. /\ new \subseteq LoadTypes
      /\ NewLoad(l, query) \in new
      /\ \A d \in loads : \E e \in new : e.of = d.of /\ (d.current => e.current)
      /\ \A e \in new :
           \/ e \in loads /\ (e.of \in {l} => ~Me.loaders[e.of].guarded)
           \/ e.of \in {l} /\ e.query = query /\ e.current
           \/ e.of \in {l} /\ Me.loaders[e.of].guarded /\ ~e.current
  <2>1. loads \in SUBSET LoadTypes /\ {l} \in SUBSET Loaders /\ query \in 1..MaxQueries
    BY <1>0 DEF Typed
  <2> QED BY <2>1, StartedLoads
<1> HIDE DEF new
<1>n. loads' = new
  BY <1>u DEF new
<1>m. NewLoad(l, query).of = l /\ NewLoad(l, query).current
  BY DEF NewLoad
<1>1. Typed'
  <2>1. Me.loaders[l].flags \subseteq KnownFlags
    BY DEF KnownFlags, FlagsOf
  <2> QED BY <1>0, <1>u, <1>s, <1>r, <1>l, <1>n, <2>1 DEF Typed
<1>2. SingleFlight'
  BY <1>0, <1>a DEF SingleFlight
<1>3. BusyUp'
  BY <1>0, <1>u, <1>a DEF BusyUp
<1>4. NoOrphanFlag'
  <2> SUFFICES ASSUME NEW f \in flags'
               PROVE  \/ f \in Timers
                      \/ \E e \in loads' : e.current /\ f \in Me.loaders[e.of].flags
                      \/ \E p \in Runs : Attended(p)' /\ f \in AllFlags(HandlerOf(p)')
    BY <1>u, <1>s DEF NoOrphanFlag
  <2>1. CASE f \in Me.loaders[l].flags
    BY <1>l, <1>n, <1>m, <2>1
  <2>2. CASE f \in flags
    BY <1>0, <1>u, <1>a, <1>l, <1>n, <2>2 DEF NoOrphanFlag
  <2> QED BY <1>u, <2>1, <2>2
<1>5. CurrentLoads' /\ LoneLoads' /\ RowsOwed'
  <2>1. \A e \in new :
          \/ e \in loads
          \/ /\ DropsStale(e.of) /\ e.current => e.query = query
             /\ Lone(e.of) => e.current /\ e.query = query /\ OwnFlags(e.of) \subseteq flags'
    BY <1>u, <1>l DEF Lone, OwnFlags
  <2>2. \A k \in Loaders : Lone(k) => OwnFlags(k) \cap flags \subseteq flags'
    BY <1>u
  <2> QED BY <1>0, <1>u, <1>l, <1>n, <2>1, <2>2, RowsKept
<1> QED BY <1>1, <1>2, <1>3, <1>4, <1>r, <1>5 DEF Inv

\* Another page, filter or item: the runs of handlers that belong to the old
\* one are dropped together with their flags.
LEMMA ChangeQueryInv == ASSUME Inv, ChangeQuery PROVE Inv'
<1>0. Typed /\ SingleFlight /\ BusyUp /\ NoOrphanFlag /\ Counted /\ HonestSuccess
      /\ CurrentLoads /\ LoneLoads /\ RowsOwed
  BY DEF Inv
<1> DEFINE names == {l \in Loaders : Me.loaders[l].follows}
           new == StartLoads(loads, names, query + 1)
<1>q. query \in 1..MaxQueries /\ query + 1 \in 1..MaxQueries /\ query + 1 # query
      /\ query' = query + 1 /\ query' \in Nat /\ query <= query'
  BY <1>0, MaxQueriesAssumption DEF ChangeQuery, Typed
<1>u. /\ screen' = screen /\ here' = here /\ here /\ stage' = stage
      /\ runs' = runs /\ view' = view
      /\ loads' = new
      /\ flags' = (flags \ ScopedFlags) \cup FlagsOf(names)
      /\ \A l \in names : Me.loaders[l].unless \cap flags = {}
  BY <1>q DEF ChangeQuery
<1>f. names \in SUBSET Loaders /\ \A l \in Loaders : Me.loaders[l].follows <=> l \in names
  OBVIOUS
<1>l. /\ new \subseteq LoadTypes
      /\ \A l \in names : NewLoad(l, query + 1) \in new
      /\ \A d \in loads : \E e \in new : e.of = d.of /\ (d.current => e.current)
      /\ \A e \in new :
           \/ e \in loads /\ (e.of \in names => ~Me.loaders[e.of].guarded)
           \/ e.of \in names /\ e.query = query + 1 /\ e.current
           \/ e.of \in names /\ Me.loaders[e.of].guarded /\ ~e.current
  <2>1. loads \in SUBSET LoadTypes
    BY <1>0 DEF Typed
  <2> QED BY <1>q, <1>f, <2>1, StartedLoads
<1>g. /\ FlagsOf(names) \subseteq KnownFlags
      /\ \A f : f \in FlagsOf(names) <=> \E l \in names : f \in Me.loaders[l].flags
  BY <1>f, LoaderFlags
<1> HIDE DEF new, names
<1>m. \A l : NewLoad(l, query + 1).of = l /\ NewLoad(l, query + 1).current
  BY DEF NewLoad
<1>s. /\ Me' = Me /\ Loaders' = Loaders /\ Controls' = Controls /\ Timers' = Timers
      /\ KnownFlags' = KnownFlags /\ KnownStages' = KnownStages
      /\ LoadTypes' = LoadTypes /\ RunTypes' = RunTypes
  BY <1>u, SamePage
<1>c. \A p \in Runs : Active(p) => /\ runs[p].of \in Controls
                                   /\ HandlerOf(p) = HandlerFor(runs[p].of)
                                   /\ runs[p].query \in 1..query
  BY <1>0 DEF Typed, RunTypes, Active, HandlerOf, HandlerFor
<1>a. \A p \in Runs : /\ HandlerOf(p)' = HandlerOf(p)
                      /\ Attended(p)' => Attended(p) /\ ~HandlerOf(p).scoped
                      /\ Attended(p) /\ ~HandlerOf(p).scoped => Attended(p)'
  BY <1>q, <1>u, <1>s, <1>c DEF HandlerOf, Attended, Active, Dropped
<1>r. /\ runs' \in [Runs -> RunTypes']
      /\ \A p \in Runs : Active(p)' => /\ runs'[p].at \in DOMAIN HandlerOf(p)'.calls
                                       /\ runs'[p].query \in 1..query'
      /\ Counted' /\ HonestSuccess'
  BY <1>0, <1>u, <1>q, RunsKept
<1>p. \A f : f \in ScopedFlags <=>
        \E k \in Controls : HandlerFor(k).scoped /\ f \in AllFlags(HandlerFor(k))
  BY DEF ScopedFlags, HandlerFor
<1>1. Typed'
  BY <1>0, <1>u, <1>q, <1>s, <1>r, <1>l, <1>g DEF Typed
<1>2. SingleFlight'
  BY <1>0, <1>a DEF SingleFlight
<1>3. BusyUp'
  <2>1. \A p \in Runs : Attended(p)' => HandlerOf(p).busy \cap ScopedFlags = {}
    <3> SUFFICES ASSUME NEW p \in Runs, Attended(p)', NEW f \in HandlerOf(p).busy
                 PROVE  f \notin ScopedFlags
      OBVIOUS
    <3>1. Active(p) /\ ~HandlerOf(p).scoped
      BY <1>a DEF Attended
    <3> QED BY <1>0, <1>c, <1>p, <3>1, BusyFacts DEF Typed
  <2> QED BY <1>0, <1>u, <1>a, <2>1 DEF BusyUp
<1>4. NoOrphanFlag'
  <2> SUFFICES ASSUME NEW f \in flags'
               PROVE  \/ f \in Timers
                      \/ \E e \in loads' : e.current /\ f \in Me.loaders[e.of].flags
                      \/ \E p \in Runs : Attended(p)' /\ f \in AllFlags(HandlerOf(p)')
    BY <1>u, <1>s DEF NoOrphanFlag
  <2>1. CASE f \in FlagsOf(names)
    BY <1>u, <1>l, <1>g, <1>m, <2>1
  <2>2. CASE f \in flags \ ScopedFlags
    <3>1. \A p \in Runs : Attended(p) /\ f \in AllFlags(HandlerOf(p)) => ~HandlerOf(p).scoped
      BY <1>c, <1>p, <2>2 DEF Attended
    <3> QED BY <1>0, <1>u, <1>a, <1>l, <2>2, <3>1 DEF NoOrphanFlag
  <2> QED BY <1>u, <2>1, <2>2
<1>o. \A e \in loads : Lone(e.of) => FALSE
  <2> SUFFICES ASSUME NEW e \in loads, Lone(e.of) PROVE FALSE
    OBVIOUS
  <2>1. e.of \in names
    BY <1>0, <1>f DEF Typed, LoadTypes, Lone
  <2>2. OwnFlags(e.of) \subseteq flags
    BY <1>0, <1>u DEF LoneLoads
  <2> QED BY <1>0, <1>f, <1>u, <2>1, <2>2, LoneFacts DEF Typed
<1>5. CurrentLoads'
  <2>1. \A e \in new : Me.loaders[e.of].follows /\ DropsStale(e.of) /\ e.current
          => e.query = query + 1
    <3>1. \A e \in new : e.of \in Loaders
      BY <1>l DEF LoadTypes
    <3> QED BY <1>f, <1>l, <3>1 DEF DropsStale
  <2> QED BY <1>q, <1>u, <1>s, <2>1, SameRows DEF CurrentLoads
<1>6. LoneLoads'
  <2>1. \A e \in new : Lone(e.of) =>
          e.current /\ e.query = query + 1 /\ OwnFlags(e.of) \subseteq FlagsOf(names)
    <3>1. \A e \in new : Lone(e.of) => e.of \in names /\ e.current /\ e.query = query + 1
      BY <1>l, <1>o DEF Lone
    <3> QED BY <1>g, <3>1 DEF OwnFlags
  <2> QED BY <1>q, <1>u, <1>s, <2>1, SameRows DEF LoneLoads
<1>7. RowsOwed'
  <2>1. \A l \in Loaders : Me.loaders[l].follows => \E e \in new : e.of = l /\ e.current
    BY <1>f, <1>l, <1>m
  <2> QED BY <1>u, <1>s, <2>1 DEF RowsOwed
<1> QED BY <1>1, <1>2, <1>3, <1>4, <1>r, <1>5, <1>6, <1>7 DEF Inv

LEMMA TimerEndsInv == ASSUME Inv, TimerEnds PROVE Inv'
<1>0. Typed /\ SingleFlight /\ BusyUp /\ NoOrphanFlag /\ Counted /\ HonestSuccess
      /\ CurrentLoads /\ LoneLoads /\ RowsOwed
  BY DEF Inv
<1>1. PICK t \in Timers \cap flags :
        /\ here /\ flags' = flags \ {t}
        /\ UNCHANGED <<screen, here, query, stage, loads, view, runs>>
  BY DEF TimerEnds
<1>s. /\ Me' = Me /\ Loaders' = Loaders /\ Controls' = Controls /\ Timers' = Timers
      /\ KnownFlags' = KnownFlags /\ KnownStages' = KnownStages
      /\ LoadTypes' = LoadTypes /\ RunTypes' = RunTypes
  BY <1>1, SamePage
<1>a. \A p \in Runs : /\ HandlerOf(p)' = HandlerOf(p) /\ (Attended(p)' => Attended(p))
                      /\ here' /\ Attended(p) => Attended(p)'
  BY <1>1, OthersAttended
<1>r. /\ runs' \in [Runs -> RunTypes']
      /\ \A p \in Runs : Active(p)' => /\ runs'[p].at \in DOMAIN HandlerOf(p)'.calls
                                       /\ runs'[p].query \in 1..query'
      /\ Counted' /\ HonestSuccess'
  <2>1. query' \in Nat /\ query <= query'
    BY <1>0, <1>1, MaxQueriesAssumption DEF Typed
  <2> QED BY <1>0, <1>1, <2>1, RunsKept
<1>2. Typed'
  BY <1>0, <1>1, <1>s, <1>r DEF Typed
<1>3. SingleFlight'
  BY <1>0, <1>a DEF SingleFlight
<1>4. BusyUp'
  <2>1. \A p \in Runs : Attended(p) => t \notin HandlerOf(p).busy
    <3>1. \A p \in Runs : Attended(p) =>
            runs[p].of \in Controls /\ HandlerOf(p) = HandlerFor(runs[p].of)
      BY <1>0 DEF Typed, RunTypes, Attended, Active, HandlerOf, HandlerFor
    <3> QED BY <1>0, <3>1, BusyFacts DEF Typed
  <2> QED BY <1>0, <1>1, <1>a, <2>1 DEF BusyUp
<1>5. NoOrphanFlag'
  BY <1>0, <1>1, <1>s, <1>a DEF NoOrphanFlag
<1>6. CurrentLoads' /\ LoneLoads' /\ RowsOwed'
  <2>1. \A l \in Loaders : Lone(l) => OwnFlags(l) \cap flags \subseteq flags'
    BY <1>0, <1>1, LoneFacts DEF Typed
  <2>2. /\ loads' \subseteq LoadTypes
        /\ \A d \in loads : \E e \in loads' : e.of = d.of /\ (d.current => e.current)
        /\ \A e \in loads' : e \in loads
    BY <1>0, <1>1 DEF Typed
  <2> QED BY <1>0, <1>1, <2>1, <2>2, RowsKept
<1> QED BY <1>2, <1>3, <1>4, <1>5, <1>r, <1>6 DEF Inv

-----------------------------------------------------------------------------
(* Handlers.                                                                 *)

\* The loaders that the rows depend on are started again for the query that is
\* shown, or by no handler that has made a call.
LEMMA PerformRows ==
  ASSUME Inv, screen' = screen, query' = query, view' = view,
         NEW c \in Controls, NEW end \in EndsOf(HandlerFor(c)), NEW q \in 1..MaxQueries,
         NEW low \in SUBSET AllFlags(HandlerFor(c)), NEW up \in SUBSET AllFlags(HandlerFor(c)),
         Perform(q, end, low, up), q = query \/ HandlerFor(c).calls # << >>
  PROVE  CurrentLoads' /\ LoneLoads' /\ RowsOwed'
<1>0. Typed /\ CurrentLoads /\ LoneLoads /\ RowsOwed
  BY DEF Inv
<1>p. /\ here' => here
      /\ loads' \subseteq LoadTypes
      /\ \A f \in flags : f \notin low \cup end.stops => f \in flags'
      /\ \A d \in loads : \E e \in loads' : e.of = d.of /\ (d.current => e.current)
      /\ here => \A e \in loads' :
           \/ e \in loads
           \/ e.of \in end.reload /\ e.query = q
           \/ e.of \in end.reload /\ ~e.current
  BY <1>0, Performed
<1>e. /\ \A l \in Loaders : Lone(l) => OwnFlags(l) \cap end.stops = {} /\ l \notin end.reload
      /\ \A l \in Loaders : HandlerFor(c).calls # << >> /\ DropsStale(l) => l \notin end.reload
  BY <1>0, EndFacts DEF Typed
<1>1. \A l \in Loaders : Lone(l) => OwnFlags(l) \cap flags \subseteq flags'
  <2> SUFFICES ASSUME NEW l \in Loaders, Lone(l), NEW f \in OwnFlags(l) \cap flags
               PROVE  f \in flags'
    OBVIOUS
  <2>1. OwnFlags(l) \cap AllFlags(HandlerFor(c)) = {}
    BY <1>0, LoneFacts DEF Typed
  <2> QED BY <1>p, <1>e, <2>1
<1>2. \A e \in loads' : e.of \in Loaders
  BY <1>p DEF LoadTypes
<1>3. here => \A e \in loads' :
        \/ e \in loads
        \/ /\ DropsStale(e.of) /\ e.current => e.query = query
           /\ Lone(e.of) => e.current /\ e.query = query /\ OwnFlags(e.of) \subseteq flags'
  BY <1>p, <1>e, <1>2
<1> QED BY <1>0, <1>p, <1>1, <1>3, RowsKept

\* The flags that are up have an owner after an end: a run that went on, a
\* load that was started or was there, or a timer.
LEMMA PerformFlags ==
  ASSUME Inv, screen' = screen,
         NEW c \in Controls, NEW end \in EndsOf(HandlerFor(c)), NEW q \in 1..MaxQueries,
         NEW low \in SUBSET AllFlags(HandlerFor(c)), NEW up \in SUBSET AllFlags(HandlerFor(c)),
         Perform(q, end, low, up),
         \A p \in Runs, f \in flags \ low :
           here' /\ Attended(p) /\ f \in AllFlags(HandlerOf(p))
             => \E r \in Runs : Attended(r)' /\ f \in AllFlags(HandlerOf(r)'),
         \A f \in up : here' => \E r \in Runs : Attended(r)' /\ f \in AllFlags(HandlerOf(r)')
  PROVE  NoOrphanFlag'
<1>0. Typed /\ NoOrphanFlag
  BY DEF Inv
<1>s. Me' = Me /\ Timers' = Timers
  BY SamePage
<1>o. here => \A f \in flags' :
        f \in flags \ low \/ f \in up \/ f \in Timers \/ LoadOwes(loads', f)
  BY <1>0, Performed
<1>p. /\ here' => here
      /\ \A d \in loads : \E e \in loads' : e.of = d.of /\ (d.current => e.current)
  BY <1>0, Performed
<1> SUFFICES ASSUME here', NEW f \in flags'
             PROVE  \/ f \in Timers
                    \/ \E e \in loads' : e.current /\ f \in Me.loaders[e.of].flags
                    \/ \E r \in Runs : Attended(r)' /\ f \in AllFlags(HandlerOf(r)')
  BY <1>s DEF NoOrphanFlag
<1>1. CASE f \in flags \ low
  <2>1. \/ f \in Timers
        \/ \E d \in loads : d.current /\ f \in Me.loaders[d.of].flags
        \/ \E p \in Runs : Attended(p) /\ f \in AllFlags(HandlerOf(p))
    BY <1>0, <1>p, <1>1 DEF NoOrphanFlag
  <2> QED BY <1>p, <1>1, <2>1
<1>2. CASE f \notin flags \ low
  BY <1>p, <1>o, <1>2 DEF LoadOwes
<1> QED BY <1>1, <1>2

LEMMA ActInv == ASSUME Inv, NEW c \in Controls, Act(c) PROVE Inv'
<1>0. Typed /\ SingleFlight /\ BusyUp /\ NoOrphanFlag /\ Counted /\ HonestSuccess
  BY DEF Inv
<1> DEFINE end == HandlerFor(c).all
<1>u. /\ screen' = screen /\ query' = query /\ runs' = runs /\ view' = view
      /\ Perform(query, end, {}, {})
  BY DEF Act, HandlerFor
<1>e. end \in EndsOf(HandlerFor(c)) /\ query \in 1..MaxQueries
  BY <1>0 DEF EndsOf, Typed
<1> HIDE DEF end
<1>s. /\ Me' = Me /\ Loaders' = Loaders /\ Controls' = Controls /\ Timers' = Timers
      /\ KnownFlags' = KnownFlags /\ KnownStages' = KnownStages
      /\ LoadTypes' = LoadTypes /\ RunTypes' = RunTypes
  BY <1>u, SamePage
<1>p. /\ here' \in BOOLEAN /\ (here' => here) /\ (here' => stage' \in KnownStages)
      /\ flags' \subseteq KnownFlags /\ loads' \subseteq LoadTypes
      /\ \A f \in flags : f \notin end.stops => f \in flags'
  <2>1. {} \in SUBSET AllFlags(HandlerFor(c))
    OBVIOUS
  <2>2. /\ here' \in BOOLEAN /\ (here' => here) /\ (here' => stage' \in KnownStages)
        /\ flags' \subseteq KnownFlags /\ loads' \subseteq LoadTypes
        /\ \A f \in flags : f \notin {} \cup end.stops => f \in flags'
    BY <1>0, <1>u, <1>e, <2>1, Performed, Zenon
  <2> QED BY <2>2
<1>a. \A p \in Runs : /\ HandlerOf(p)' = HandlerOf(p) /\ (Attended(p)' => Attended(p))
                      /\ here' /\ Attended(p) => Attended(p)'
  BY <1>u, <1>p, OthersAttended
<1>r. /\ runs' \in [Runs -> RunTypes']
      /\ \A p \in Runs : Active(p)' => /\ runs'[p].at \in DOMAIN HandlerOf(p)'.calls
                                       /\ runs'[p].query \in 1..query'
      /\ Counted' /\ HonestSuccess'
  <2>1. query' \in Nat /\ query <= query'
    BY <1>0, <1>u, MaxQueriesAssumption DEF Typed
  <2> QED BY <1>0, <1>u, <2>1, RunsKept
<1>1. Typed'
  BY <1>0, <1>u, <1>p, <1>s, <1>r DEF Typed
<1>2. SingleFlight'
  BY <1>0, <1>a DEF SingleFlight
<1>3. BusyUp'
  <2>1. \A p \in Runs : Attended(p) => HandlerOf(p).busy \cap end.stops = {}
    <3>1. \A p \in Runs : Attended(p) =>
            runs[p].of \in Controls /\ HandlerOf(p) = HandlerFor(runs[p].of)
      BY <1>0 DEF Typed, RunTypes, Attended, Active, HandlerOf, HandlerFor
    <3> QED BY <1>0, <1>e, <3>1, EndFacts DEF Typed
  <2> QED BY <1>0, <1>p, <1>a, <2>1 DEF BusyUp
<1>4. NoOrphanFlag'
  BY <1>u, <1>e, <1>a, PerformFlags
<1>5. CurrentLoads' /\ LoneLoads' /\ RowsOwed'
  BY <1>u, <1>e, PerformRows
<1> QED BY <1>1, <1>2, <1>3, <1>4, <1>r, <1>5 DEF Inv

LEMMA StartInv == ASSUME Inv, NEW r \in Runs, NEW c \in Controls, Start(r, c) PROVE Inv'
<1>0. Typed /\ SingleFlight /\ BusyUp /\ NoOrphanFlag /\ Counted /\ HonestSuccess
  BY DEF Inv
<1> DEFINE x == [NoRun EXCEPT !.of = c, !.query = query, !.at = 1]
           h == HandlerFor(c)
           low == h.unmarks
           up == h.busy \cup h.marks
<1>u. /\ screen' = screen /\ query' = query /\ view' = view
      /\ Perform(query, h.begin, low, up)
      /\ runs' = [runs EXCEPT ![r] = x]
      /\ here /\ Me.controls[c].control.unless \cap flags = {}
      /\ h.calls # << >> /\ runs[r] = NoRun
  BY DEF Start, Offered, HandlerFor
<1>e. /\ h.begin \in EndsOf(h) /\ query \in 1..MaxQueries
      /\ low \in SUBSET AllFlags(h) /\ up \in SUBSET AllFlags(h)
      /\ AllFlags(h) = up \cup low
  BY <1>0 DEF EndsOf, AllFlags, Typed
<1>w. /\ c \notin {"none", Ended}
      /\ h.calls \in Seq({h.calls[i] : i \in DOMAIN h.calls})
  BY <1>0, PageFacts DEF WellFormed, HandlerFor, Controls, Typed
<1>x. /\ x \in RunTypes /\ x.of = c /\ x.query = query /\ x.at = 1 /\ ~x.hollow
  <2>1. query \in 0..MaxQueries
    BY <1>e, MaxQueriesAssumption
  <2> QED BY <2>1, NoRunType DEF RunTypes
<1>b. /\ h.busy \subseteq Me.controls[c].control.unless
      /\ \A k \in Controls : HandlerFor(k).busy \cap h.unmarks = {}
  BY <1>0, BusyFacts DEF Typed
<1> HIDE DEF x, h, low, up
<1>1. RunOK(x, query) /\ Backed(x)
  <2>1. 1 \in DOMAIN h.calls
    BY <1>u, <1>w
  <2>2. h = HandlerFor(x.of)
    BY <1>x DEF h
  <2> QED BY <1>e, <1>w, <1>x, <2>1, <2>2 DEF RunOK, Backed
<1>r. /\ runs' \in [Runs -> RunTypes']
      /\ \A p \in Runs : runs'[p] = IF p = r THEN x ELSE runs[p]
      /\ \A p \in Runs : Active(p)' => /\ runs'[p].at \in DOMAIN HandlerOf(p)'.calls
                                       /\ runs'[p].query \in 1..query'
      /\ Counted' /\ HonestSuccess'
  BY <1>0, <1>u, <1>x, <1>1, RunReplaced
<1>s. /\ Me' = Me /\ Loaders' = Loaders /\ Controls' = Controls /\ Timers' = Timers
      /\ KnownFlags' = KnownFlags /\ KnownStages' = KnownStages
      /\ LoadTypes' = LoadTypes /\ RunTypes' = RunTypes
  BY <1>u, SamePage
<1>p. /\ here' \in BOOLEAN /\ (here' => here) /\ (here' => stage' \in KnownStages)
      /\ flags' \subseteq KnownFlags /\ loads' \subseteq LoadTypes
      /\ \A f \in flags : f \notin low \cup h.begin.stops => f \in flags'
      /\ up \subseteq flags'
  BY <1>0, <1>u, <1>e, Performed DEF h
<1>a. \A p \in Runs \ {r} : /\ HandlerOf(p)' = HandlerOf(p) /\ (Attended(p)' => Attended(p))
                            /\ here' /\ Attended(p) => Attended(p)'
  BY <1>u, <1>p, <1>r, OthersAttended
<1>c. /\ HandlerOf(r)' = h /\ (here' => Attended(r)') /\ ~Attended(r)
  <2>1. HandlerOf(r)' = h
    BY <1>s, <1>r, <1>x DEF HandlerOf, HandlerFor, h
  <2>2. here' => Attended(r)'
    BY <1>u, <1>r, <1>x, <1>w DEF Attended, Active, Dropped
  <2>3. ~Attended(r)
    BY <1>u DEF Attended, Active, NoRun
  <2> QED BY <2>1, <2>2, <2>3
<1>d. \A p \in Runs : Attended(p) =>
        runs[p].of \in Controls /\ HandlerOf(p) = HandlerFor(runs[p].of)
  BY <1>0 DEF Typed, RunTypes, Attended, Active, HandlerOf, HandlerFor
<1>2. Typed'
  BY <1>0, <1>u, <1>p, <1>s, <1>r DEF Typed
<1>3. SingleFlight'
  <2>1. \A p \in Runs \ {r} : Attended(p)' => HandlerOf(p)'.busy \cap h.busy = {}
    BY <1>0, <1>u, <1>a, <1>b DEF BusyUp, h
  <2>2. \A p, q \in Runs \ {r} : p # q /\ Attended(p)' /\ Attended(q)'
          => HandlerOf(p)'.busy \cap HandlerOf(q)'.busy = {}
    BY <1>0, <1>a DEF SingleFlight
  <2> QED BY <1>c, <2>1, <2>2 DEF SingleFlight
<1>4. BusyUp'
  <2>1. \A p \in Runs : Attended(p) => /\ HandlerOf(p).busy \cap h.begin.stops = {}
                                       /\ HandlerOf(p).busy \cap low = {}
    BY <1>0, <1>e, <1>d, <1>b, EndFacts DEF Typed, h, low
  <2>2. \A p \in Runs \ {r} : here' /\ Attended(p)' => HandlerOf(p)'.busy \subseteq flags'
    BY <1>0, <1>p, <1>a, <2>1 DEF BusyUp
  <2>3. h.busy \subseteq flags'
    BY <1>p DEF up
  <2> QED BY <1>c, <2>2, <2>3 DEF BusyUp
<1>5. NoOrphanFlag'
  <2>1. \A p \in Runs, f \in flags \ low :
          here' /\ Attended(p) /\ f \in AllFlags(HandlerOf(p))
            => \E q \in Runs : Attended(q)' /\ f \in AllFlags(HandlerOf(q)')
    BY <1>a, <1>c
  <2>2. \A f \in up : here' => \E q \in Runs : Attended(q)' /\ f \in AllFlags(HandlerOf(q)')
    BY <1>c, <1>e
  <2> QED BY <1>u, <1>e, <2>1, <2>2, PerformFlags DEF h
<1>6. CurrentLoads' /\ LoneLoads' /\ RowsOwed'
  BY <1>u, <1>e, PerformRows DEF h
<1> QED BY <1>2, <1>3, <1>4, <1>5, <1>r, <1>6 DEF Inv

\* A run that has ended claims nothing that it has not.
LEMMA OverFacts ==
  ASSUME NEW run \in RunTypes, NEW end, run.hollow => ~Claims(end)
  PROVE  /\ Over(run, end) \in RunTypes /\ Over(run, end).of = Ended
         /\ \A q : RunOK(Over(run, end), q)
         /\ Backed(Over(run, end))
<1> DEFINE x == Over(run, end)
<1>1. x.of = Ended
  BY NoRunType DEF Over, RunTypes
<1>2. x.hollow \in BOOLEAN /\ ~x.hollow
  <2>1. x.hollow = (run.hollow /\ Claims(end))
    BY NoRunType DEF Over, RunTypes
  <2> QED BY <2>1, Zenon
<1>3. x = [NoRun EXCEPT !.of = Ended, !.hollow = x.hollow]
  BY NoRunType DEF Over, RunTypes
<1> HIDE DEF x
<1>4. x \in RunTypes
  BY <1>2, <1>3, NoRunType DEF RunTypes
<1> QED BY <1>1, <1>2, <1>4 DEF RunOK, Backed, x

\* The run goes on to its next call, or ends without being attended any more:
\* the page does not notice.
LEMMA UnnoticedInv ==
  ASSUME Inv, NEW r \in Runs, NEW x \in RunTypes, runs' = [runs EXCEPT ![r] = x],
         UNCHANGED <<screen, here, query, stage, loads, view, flags>>,
         RunOK(x, query), Backed(x),
         \/ x.of = runs[r].of /\ x.query = runs[r].query
         \/ x.of = Ended /\ ~Attended(r)
  PROVE  Inv'
<1>0. Typed /\ SingleFlight /\ BusyUp /\ NoOrphanFlag /\ Counted /\ HonestSuccess
      /\ CurrentLoads /\ LoneLoads /\ RowsOwed
  BY DEF Inv
<1>r. /\ runs' \in [Runs -> RunTypes']
      /\ \A p \in Runs : runs'[p] = IF p = r THEN x ELSE runs[p]
      /\ \A p \in Runs : Active(p)' => /\ runs'[p].at \in DOMAIN HandlerOf(p)'.calls
                                       /\ runs'[p].query \in 1..query'
      /\ Counted' /\ HonestSuccess'
  BY <1>0, RunReplaced
<1>s. /\ Me' = Me /\ Loaders' = Loaders /\ Controls' = Controls /\ Timers' = Timers
      /\ KnownFlags' = KnownFlags /\ KnownStages' = KnownStages
      /\ LoadTypes' = LoadTypes /\ RunTypes' = RunTypes
  BY SamePage
<1>a. \A p \in Runs : /\ Attended(p)' <=> Attended(p)
                      /\ Attended(p) => HandlerOf(p)' = HandlerOf(p)
  <2>1. \A p \in Runs \ {r} : (Attended(p)' <=> Attended(p)) /\ HandlerOf(p)' = HandlerOf(p)
    BY <1>r, <1>s DEF HandlerOf, Attended, Active, Dropped
  <2>2. (Attended(r)' <=> Attended(r)) /\ (Attended(r) => HandlerOf(r)' = HandlerOf(r))
    BY <1>r, <1>s DEF HandlerOf, Attended, Active, Dropped
  <2> QED BY <2>1, <2>2
<1>1. Typed'
  BY <1>0, <1>s, <1>r DEF Typed
<1>2. SingleFlight'
  BY <1>0, <1>a DEF SingleFlight
<1>3. BusyUp'
  BY <1>0, <1>a DEF BusyUp
<1>4. NoOrphanFlag'
  BY <1>0, <1>s, <1>a DEF NoOrphanFlag
<1>5. CurrentLoads' /\ LoneLoads' /\ RowsOwed'
  <2>1. /\ loads' \subseteq LoadTypes
        /\ \A d \in loads : \E e \in loads' : e.of = d.of /\ (d.current => e.current)
        /\ \A e \in loads' : e \in loads
    BY <1>0 DEF Typed
  <2> QED BY <1>0, <2>1, RowsKept
<1> QED BY <1>1, <1>2, <1>3, <1>4, <1>r, <1>5 DEF Inv

\* A run that is attended ends.
LEMMA EndInv ==
  ASSUME Inv, NEW r \in Runs, Attended(r), NEW end \in EndsOf(HandlerOf(r)),
         NEW run \in RunTypes, run.query = runs[r].query, run.hollow => ~Claims(end),
         runs' = [runs EXCEPT ![r] = Over(run, end)],
         Perform(run.query, end, AllFlags(HandlerOf(r)), {}),
         UNCHANGED <<screen, query, view>>
  PROVE  Inv'
<1>0. Typed /\ SingleFlight /\ BusyUp /\ NoOrphanFlag /\ Counted /\ HonestSuccess
  BY DEF Inv
<1> DEFINE c == runs[r].of
           x == Over(run, end)
           low == AllFlags(HandlerFor(c))
<1>d. \A p \in Runs : Attended(p) =>
        /\ runs[p].of \in Controls /\ HandlerOf(p) = HandlerFor(runs[p].of)
        /\ runs[p].at \in DOMAIN HandlerOf(p).calls /\ runs[p].query \in 1..query
  BY <1>0 DEF Typed, RunTypes, Attended, Active, HandlerOf, HandlerFor
<1>c. /\ c \in Controls /\ HandlerOf(r) = HandlerFor(c) /\ end \in EndsOf(HandlerFor(c))
      /\ run.query \in 1..MaxQueries
      /\ low \in SUBSET AllFlags(HandlerFor(c)) /\ {} \in SUBSET AllFlags(HandlerFor(c))
      /\ Perform(run.query, end, low, {})
  BY <1>0, <1>d, MaxQueriesAssumption DEF Typed
<1>e. HandlerFor(c).calls # << >>
  <2>1. runs[r].at \in DOMAIN HandlerFor(c).calls
    BY <1>c, <1>d
  <2> QED BY <2>1
<1>x. x \in RunTypes /\ x.of = Ended /\ RunOK(x, query) /\ Backed(x)
  BY OverFacts
<1> HIDE DEF c, x, low
<1>r. /\ runs' \in [Runs -> RunTypes']
      /\ \A p \in Runs : runs'[p] = IF p = r THEN x ELSE runs[p]
      /\ \A p \in Runs : Active(p)' => /\ runs'[p].at \in DOMAIN HandlerOf(p)'.calls
                                       /\ runs'[p].query \in 1..query'
      /\ Counted' /\ HonestSuccess'
  BY <1>0, <1>x, RunReplaced DEF x
<1>s. /\ Me' = Me /\ Loaders' = Loaders /\ Controls' = Controls /\ Timers' = Timers
      /\ KnownFlags' = KnownFlags /\ KnownStages' = KnownStages
      /\ LoadTypes' = LoadTypes /\ RunTypes' = RunTypes
  BY SamePage
<1>p. /\ here' \in BOOLEAN /\ (here' => here) /\ (here' => stage' \in KnownStages)
      /\ flags' \subseteq KnownFlags /\ loads' \subseteq LoadTypes
      /\ \A f \in flags : f \notin low \cup end.stops => f \in flags'
  BY <1>0, <1>c, Performed
<1>a. \A p \in Runs \ {r} : /\ HandlerOf(p)' = HandlerOf(p) /\ (Attended(p)' => Attended(p))
                            /\ here' /\ Attended(p) => Attended(p)'
  BY <1>p, <1>r, OthersAttended
<1>n. ~Attended(r)'
  BY <1>r, <1>x DEF Attended, Active
<1>1. Typed'
  BY <1>0, <1>p, <1>s, <1>r DEF Typed
<1>2. SingleFlight'
  BY <1>0, <1>a, <1>n DEF SingleFlight
<1>3. BusyUp'
  <2>1. \A p \in Runs \ {r} : Attended(p) => HandlerOf(p).busy \cap low = {}
    <3> SUFFICES ASSUME NEW p \in Runs \ {r}, Attended(p) PROVE HandlerOf(p).busy \cap low = {}
      OBVIOUS
    <3>1. HandlerOf(p).busy \cap HandlerOf(r).busy = {}
      BY <1>0 DEF SingleFlight
    <3>2. HandlerOf(p).busy \cap (HandlerFor(c).marks \cup HandlerFor(c).unmarks) = {}
      BY <1>0, <1>c, <1>d, BusyFacts DEF Typed
    <3> QED BY <1>c, <3>1, <3>2 DEF low, AllFlags
  <2>2. \A p \in Runs : Attended(p) => HandlerOf(p).busy \cap end.stops = {}
    BY <1>0, <1>c, <1>d, EndFacts DEF Typed
  <2> QED BY <1>0, <1>p, <1>a, <1>n, <2>1, <2>2 DEF BusyUp
<1>4. NoOrphanFlag'
  <2>1. \A p \in Runs, f \in flags \ low :
          here' /\ Attended(p) /\ f \in AllFlags(HandlerOf(p))
            => \E q \in Runs : Attended(q)' /\ f \in AllFlags(HandlerOf(q)')
    BY <1>a, <1>c DEF low
  <2> QED BY <1>c, <2>1, PerformFlags
<1>5. CurrentLoads' /\ LoneLoads' /\ RowsOwed'
  BY <1>c, <1>e, PerformRows
<1> QED BY <1>1, <1>2, <1>3, <1>4, <1>r, <1>5 DEF Inv

\* The call that a run awaits is answered. A run that goes on with a write
\* missing has counted the failure; one that stops has no end that claims it.
LEMMA AnsweredInv ==
  ASSUME Inv, NEW r \in Runs, Active(r),
         NEW o \in HandlerOf(r).calls[runs[r].at].outcomes, Answered(r, o[1], o[2])
  PROVE  Inv'
<1>0. Typed /\ Counted /\ HonestSuccess
  BY DEF Inv
<1> DEFINE h == HandlerOf(r)
           at == runs[r].at
           call == h.calls[at]
           failed == o[1] # "ok"
           run == [runs[r] EXCEPT !.failed = IF failed THEN @ + 1 ELSE @,
                                  !.hollow = @ \/ (call.counts /\ ~o[2])]
           goesOn == ~failed \/ (IF o[1] = "no" THEN call.next ELSE call.caught)
           last == Last(run, h)
           ends == CASE goesOn -> call.halts
                     [] ~goesOn /\ o[1] = "no" -> {call.no} \cup call.refusals
                     [] OTHER -> {call.throw}
<1>c. /\ runs[r] \in RunTypes /\ runs[r].of \in Controls /\ h = HandlerFor(runs[r].of)
      /\ at \in DOMAIN h.calls /\ runs[r].query \in 1..query
  BY <1>0 DEF Typed, RunTypes, Active, HandlerOf, HandlerFor
<1>w. /\ h.calls \in Seq({h.calls[i] : i \in DOMAIN h.calls})
      /\ call.outcomes \subseteq {"ok", "no", "throw"} \X BOOLEAN
      /\ ClaimsBacked(h)
  <2>1. /\ HandlerFor(runs[r].of).calls
             \in Seq({HandlerFor(runs[r].of).calls[i] : i \in DOMAIN HandlerFor(runs[r].of).calls})
        /\ \A i \in DOMAIN HandlerFor(runs[r].of).calls :
             HandlerFor(runs[r].of).calls[i].outcomes \subseteq {"ok", "no", "throw"} \X BOOLEAN
    BY <1>0, <1>c, PageFacts DEF WellFormed, HandlerFor, Controls, Typed
  <2>2. ClaimsBacked(HandlerFor(runs[r].of))
    BY <1>0, <1>c, PageFacts DEF Typed
  <2> HIDE DEF h
  <2> QED BY <1>c, <2>1, <2>2
<1>o. o = <<o[1], o[2]>> /\ o[2] \in BOOLEAN
  BY <1>w
<1>1. /\ run \in RunTypes
      /\ run.of = runs[r].of /\ run.query = runs[r].query /\ run.at = at
      /\ run.failed = IF failed THEN runs[r].failed + 1 ELSE runs[r].failed
      /\ run.hollow <=> runs[r].hollow \/ (call.counts /\ ~o[2])
  <2> DEFINE b == runs[r].hollow \/ (call.counts /\ ~o[2])
             n == IF failed THEN runs[r].failed + 1 ELSE runs[r].failed
  <2>1. b \in BOOLEAN
    BY Zenon
  <2>2. n \in Nat
    BY <1>c DEF RunTypes
  <2>3. run = [runs[r] EXCEPT !.failed = n, !.hollow = b]
    BY <1>c DEF RunTypes
  <2> HIDE DEF b, n, run
  <2>4. /\ run \in RunTypes
        /\ run.of = runs[r].of /\ run.query = runs[r].query /\ run.at = runs[r].at
        /\ run.failed = n /\ run.hollow = b
    BY <1>c, <2>1, <2>2, <2>3 DEF RunTypes
  <2> QED BY <2>4 DEF b, n
<1>2. /\ \/ /\ goesOn /\ ~last /\ ~Dropped(r)
            /\ runs' = [runs EXCEPT ![r] = [run EXCEPT !.at = @ + 1]]
            /\ UNCHANGED <<here, stage, loads, flags>>
         \/ \E end \in ends \cup (IF goesOn /\ last THEN {Done(h, run.failed)} ELSE {}) :
              /\ ~Dropped(r)
              /\ runs' = [runs EXCEPT ![r] = Over(run, end)]
              /\ Perform(run.query, end, AllFlags(h), {})
         \/ /\ Dropped(r)
            /\ runs' = [runs EXCEPT ![r] = Over(run, Silent)]
            /\ UNCHANGED <<here, stage, loads, flags>>
      /\ UNCHANGED <<screen, query, view>>
  BY DEF Answered
<1>3. ends = IF goesOn THEN call.halts
             ELSE IF o[1] = "no" THEN {call.no} \cup call.refusals ELSE {call.throw}
  OBVIOUS
<1>m. failed /\ goesOn => call.next \/ call.caught
  OBVIOUS
<1> HIDE DEF run, ends, goesOn, last, failed
<1>f. run.failed \in Nat /\ runs[r].failed \in Nat /\ Len(h.calls) \in Nat
  BY <1>1, <1>c, <1>w DEF RunTypes
<1>4. goesOn /\ run.hollow => run.failed > 0 /\ Persists(h)
  <2>1. runs[r].hollow => runs[r].failed > 0 /\ Persists(h)
    BY <1>0 DEF Counted
  <2>2. call.counts /\ ~o[2] => failed
    <3>1. call.counts => <<"ok", FALSE>> \notin call.outcomes
      BY <1>c, <1>w DEF ClaimsBacked
    <3>2. ~o[2] => o[2] = FALSE
      BY <1>o
    <3> QED BY <1>o, <3>1, <3>2 DEF failed
  <2>3. call.counts /\ failed /\ goesOn => Persists(h)
    BY <1>c, <1>m DEF Persists
  <2> QED BY <1>1, <1>f, <2>1, <2>2, <2>3
<1>5. CASE goesOn /\ ~last /\ ~Dropped(r)
           /\ runs' = [runs EXCEPT ![r] = [run EXCEPT !.at = @ + 1]]
           /\ UNCHANGED <<here, stage, loads, flags>>
  <2> DEFINE x == [run EXCEPT !.at = @ + 1]
  <2>1. /\ x \in RunTypes /\ x.of = runs[r].of /\ x.query = runs[r].query
        /\ x.at = at + 1 /\ x.failed = run.failed /\ (x.hollow <=> run.hollow)
    BY <1>1 DEF RunTypes
  <2> HIDE DEF x
  <2>2. at + 1 \in DOMAIN h.calls
    BY <1>c, <1>w, <1>1, <1>5 DEF last, Last
  <2>3. RunOK(x, query) /\ Backed(x)
    <3>1. h = HandlerFor(x.of) /\ x.of \notin {"none", Ended}
      BY <1>c, <2>1 DEF Active
    <3> QED BY <1>c, <1>4, <1>5, <2>1, <2>2, <3>1 DEF RunOK, Backed
  <2>4. runs' = [runs EXCEPT ![r] = x]
    BY <1>5 DEF x
  <2> QED BY <1>2, <1>5, <2>1, <2>3, <2>4, UnnoticedInv
<1>6. CASE \E end \in ends \cup (IF goesOn /\ last THEN {Done(h, run.failed)} ELSE {}) :
             /\ ~Dropped(r)
             /\ runs' = [runs EXCEPT ![r] = Over(run, end)]
             /\ Perform(run.query, end, AllFlags(h), {})
  <2>1. PICK end \in ends \cup (IF goesOn /\ last THEN {Done(h, run.failed)} ELSE {}) :
             /\ ~Dropped(r)
             /\ runs' = [runs EXCEPT ![r] = Over(run, end)]
             /\ Perform(run.query, end, AllFlags(h), {})
    BY <1>6
  <2>2. \/ goesOn /\ end \in call.halts
        \/ ~goesOn /\ end \in {call.no, call.throw} \cup call.refusals
        \/ goesOn /\ end = Done(h, run.failed)
    BY <1>3
  <2>3. Done(h, run.failed) \in {h.all, h.some, h.none}
        /\ (run.failed > 0 => Done(h, run.failed) \in {h.some, h.none})
    BY <1>f DEF Done
  <2>4. end \in EndsOf(h)
    <3>1. {call.no, call.throw} \cup call.halts \cup call.refusals \subseteq EndsOf(h)
      BY <1>c DEF EndsOf
    <3>2. {h.all, h.some, h.none} \subseteq EndsOf(h)
      BY DEF EndsOf
    <3> QED BY <2>2, <2>3, <3>1, <3>2
  <2>5. run.hollow => ~Claims(end)
    <3>1. CASE ~goesOn
      BY <1>c, <1>w, <2>2, <3>1 DEF ClaimsBacked
    <3>2. CASE goesOn /\ run.hollow
      <4>1. run.failed > 0 /\ Persists(h)
        BY <1>4, <3>2
      <4>2. /\ ~Claims(h.some) /\ ~Claims(h.none)
            /\ \A j \in DOMAIN h.calls : \A e \in h.calls[j].halts : ~Claims(e)
        BY <1>w, <4>1 DEF ClaimsBacked, Persists
      <4> QED BY <1>c, <2>2, <2>3, <3>2, <4>1, <4>2
    <3> QED BY <3>1, <3>2
  <2>6. Attended(r)
    BY <2>1 DEF Attended
  <2> HIDE DEF h
  <2> QED BY <1>1, <1>2, <2>1, <2>4, <2>5, <2>6, EndInv DEF h
<1>7. CASE Dropped(r) /\ runs' = [runs EXCEPT ![r] = Over(run, Silent)]
           /\ UNCHANGED <<here, stage, loads, flags>>
  <2>1. ~Claims(Silent) /\ ~Attended(r)
    BY <1>7 DEF Claims, Silent, Attended
  <2>2. /\ Over(run, Silent) \in RunTypes /\ Over(run, Silent).of = Ended
        /\ RunOK(Over(run, Silent), query) /\ Backed(Over(run, Silent))
    BY <1>1, <2>1, OverFacts
  <2> QED BY <1>2, <1>7, <2>1, <2>2, UnnoticedInv
<1> QED BY <1>2, <1>5, <1>6, <1>7

-----------------------------------------------------------------------------
LEMMA InvPreserved == ASSUME Inv, [Next]_vars PROVE Inv'
<1>1. CASE ArriveSome
  BY <1>1, ArriveInv DEF ArriveSome
<1>2. CASE PollSome \/ RetrySome
  BY <1>2, RestartInv DEF PollSome, RetrySome
<1>3. CASE StartSome
  BY <1>3, StartInv DEF StartSome
<1>4. CASE ActSome
  BY <1>4, ActInv DEF ActSome
<1>5. CASE AnswerSome
  BY <1>5, AnsweredInv DEF AnswerSome
<1>6. CASE UNCHANGED vars
  <2>1. UNCHANGED <<screen, here, query, stage, loads, view, flags, runs>>
    BY <1>6 DEF vars
  <2>2. /\ Me' = Me /\ Loaders' = Loaders /\ Controls' = Controls /\ Timers' = Timers
        /\ KnownFlags' = KnownFlags /\ KnownStages' = KnownStages
        /\ LoadTypes' = LoadTypes /\ RunTypes' = RunTypes
    BY <2>1, SamePage
  <2>3. \A p : /\ HandlerOf(p)' = HandlerOf(p) /\ Active(p)' = Active(p)
               /\ Attended(p)' = Attended(p)
    BY <2>1, <2>2 DEF HandlerOf, Active, Attended, Dropped
  <2>4. Typed' /\ SingleFlight' /\ BusyUp' /\ NoOrphanFlag' /\ Counted' /\ HonestSuccess'
    BY <2>1, <2>2, <2>3
       DEF Inv, Typed, SingleFlight, BusyUp, NoOrphanFlag, Counted, HonestSuccess
  <2>5. CurrentLoads' /\ LoneLoads' /\ RowsOwed'
    BY <2>1, <2>2, SameRows DEF Inv, CurrentLoads, LoneLoads, RowsOwed
  <2> QED BY <2>4, <2>5 DEF Inv
<1> QED BY <1>1, <1>2, <1>3, <1>4, <1>5, <1>6, ChangeQueryInv, TimerEndsInv DEF Next

LEMMA InvInitially == ASSUME Init PROVE Inv
<1> DEFINE names == {l \in Loaders : Me.loaders[l].mounts}
           new == StartLoads({}, names, 1)
<1>1. /\ screen \in DOMAIN Pages /\ query = 1 /\ stage = Me.stage
      /\ loads = new /\ flags = FlagsOf(names)
      /\ view = [l \in Loaders |-> [query |-> 0, failed |-> FALSE]]
      /\ runs = [r \in Runs |-> NoRun]
  BY DEF Init
<1>2. here \in BOOLEAN /\ here
  BY Zenon DEF Init
<1>q. 1 \in 1..MaxQueries /\ 0 \in 0..MaxQueries
  BY MaxQueriesAssumption
<1>3. /\ FlagsOf(names) \subseteq KnownFlags
      /\ \A f : f \in FlagsOf(names) <=> \E l \in names : f \in Me.loaders[l].flags
  BY LoaderFlags
<1>4. /\ new \subseteq LoadTypes
      /\ \A l \in names : NewLoad(l, 1) \in new
      /\ \A e \in new : \/ e.of \in names /\ e.query = 1 /\ e.current
                        \/ e.of \in names /\ Me.loaders[e.of].guarded /\ ~e.current
  <2>1. {} \in SUBSET LoadTypes /\ names \in SUBSET Loaders
    OBVIOUS
  <2> QED BY <1>q, <2>1, StartedLoads
<1> HIDE DEF new, names
<1>5. \A l : NewLoad(l, 1).of = l /\ NewLoad(l, 1).current
  BY DEF NewLoad
<1>6. \A r \in Runs : ~Active(r) /\ runs[r].of # Ended /\ ~Attended(r)
  BY <1>1 DEF Active, Attended, NoRun, Ended
<1>7. Typed
  <2>1. runs \in [Runs -> RunTypes]
    BY <1>1, NoRunType
  <2>2. [query |-> 0, failed |-> FALSE] \in [query : 0..MaxQueries, failed : BOOLEAN]
    BY <1>q
  <2>3. view \in [Loaders -> [query : 0..MaxQueries, failed : BOOLEAN]]
    BY <1>1, <2>2
  <2>4. stage \in KnownStages
    BY <1>1 DEF KnownStages, StagesOf
  <2> QED BY <1>1, <1>2, <1>q, <1>3, <1>4, <1>6, <2>1, <2>3, <2>4 DEF Typed
<1>8. SingleFlight /\ BusyUp /\ Counted /\ HonestSuccess
  BY <1>6 DEF SingleFlight, BusyUp, Counted, HonestSuccess
<1>9. NoOrphanFlag
  BY <1>1, <1>3, <1>4, <1>5 DEF NoOrphanFlag
<1>10. CurrentLoads
  BY <1>1, <1>4 DEF CurrentLoads
<1>11. LoneLoads
  BY <1>1, <1>3, <1>4 DEF LoneLoads, Lone, OwnFlags
<1>12. RowsOwed
  BY <1>1 DEF RowsOwed
<1> QED BY <1>7, <1>8, <1>9, <1>10, <1>11, <1>12 DEF Inv

LEMMA Invariance == Spec => []Inv
BY InvInitially, InvPreserved, PTL DEF Spec

\* Whatever the user starts and whatever is answered when: a screen stays at
\* stages it offers something at, with its own loaders, flags and calls.
THEOREM TypeCorrect == Spec => []TypeOK
<1>1. Inv => TypeOK
  BY DEF Inv, Typed, TypeOK, RunTypes, LoadTypes
<1> QED BY <1>1, Invariance, PTL

\* No screen submits twice what a busy flag guards, however many handlers of
\* it are started and however answers and changes of the item interleave.
THEOREM SingleFlightAlways == Spec => []SingleFlight
BY Invariance, PTL DEF Inv

\* No spinner and no disabled button is left behind by an answer that is
\* dropped, a load that is taken back or a run that ends on any path.
THEOREM NoOrphanFlagAlways == Spec => []NoOrphanFlag
BY Invariance, PTL DEF Inv

\* No run of a handler ends by telling a success that the server has not made.
THEOREM HonestSuccessAlways == Spec => []HonestSuccess
BY Invariance, PTL DEF Inv

\* The rows that are shown once nothing is loading are those of the query, for
\* every loader that drops late answers or is alone.
THEOREM CurrentRowsAlways == Spec => []CurrentRows
<1>1. Inv => CurrentRows
  BY DEF Inv, RowsOwed, CurrentRows
<1> QED BY <1>1, Invariance, PTL
=============================================================================
