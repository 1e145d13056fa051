------------------------------ MODULE Screens ------------------------------
(***************************************************************************)
(* A screen of apps/web at work: its loaders and handlers run as           *)
(* asynchronous functions of one page, every await of a service function a *)
(* point where anything else may happen. Which screens there are, and what *)
(* each does, is a parameter, in the terms of ScreenForms (AllScreens puts *)
(* together those of the modules AdminScreens, ...).                       *)
(***************************************************************************)
EXTENDS ScreenForms, Naturals

CONSTANTS
    Pages,        \* the screens, by name
    MaxQueries,   \* bound: the queries (pages, filters, items) a user asks for
    MaxRuns       \* bound: the handler runs a user starts

Runs == 1..MaxRuns

VARIABLES
    screen,   \* the screen that is shown
    here,     \* the screen is mounted
    query,    \* what its loaders are asked for
    stage,    \* the stage the page is at
    loads,    \* the loads in flight
    view,     \* per loader, the rows shown: for which query, and whether the
              \* last load failed
    flags,    \* the busy and loading flags that are up
    runs      \* the handler runs

vars == <<screen, here, query, stage, loads, view, flags, runs>>

Me == Pages[screen]
Loaders == DOMAIN Me.loaders
Controls == DOMAIN Me.controls

\* A run: of which control, asked at which query, at which call; how many of
\* its calls failed, whether one that counts had no effect.
NoRun == [of |-> "none", query |-> 0, at |-> 0, failed |-> 0, hollow |-> FALSE]
Ended == "ended"
Active(r) == runs[r].of \notin {"none", Ended}
HandlerOf(r) == Me.controls[runs[r].of].handler
\* A run whose handler will not take its answer any more.
Dropped(r) == HandlerOf(r).scoped /\ ~(here /\ runs[r].query = query)
Attended(r) == Active(r) /\ ~Dropped(r)

-----------------------------------------------------------------------------
(* Loads.                                                                  *)

NewLoad(l, q) == [of |-> l, query |-> q, current |-> TRUE]

\* Bug: the number of the request is not compared.
Superseded_kept(d) == d

\* Starting a loader again cancels its earlier load when it is guarded.
Superseded(d) == IF Me.loaders[d.of].guarded THEN [d EXCEPT !.current = FALSE] ELSE d

StartLoads(ls, names, q) ==
    {IF d.of \in names THEN Superseded(d) ELSE d : d \in ls} \cup {NewLoad(l, q) : l \in names}

FlagsOf(names) == UNION {Me.loaders[l].flags : l \in names}

Shown(d, result) ==
    CASE result = "ok" -> [query |-> d.query, failed |-> FALSE]
      [] result # "ok" /\ Me.loaders[d.of].failed = "blank" -> [query |-> d.query, failed |-> TRUE]
      [] OTHER -> [view[d.of] EXCEPT !.failed = TRUE]

\* The answer of a load that was cancelled changes nothing, not even the
\* flag. Any other replaces the rows.
Arrive(d, result) ==
    /\ loads' = loads \ {d}
    /\ IF d.current /\ here
       THEN /\ view' = [view EXCEPT ![d.of] = Shown(d, result)]
            /\ flags' = flags \ Me.loaders[d.of].flags
       ELSE UNCHANGED <<view, flags>>
    /\ UNCHANGED <<screen, here, query, stage, runs>>

AllFlags(handler) == handler.busy \cup handler.marks \cup handler.unmarks
\* Bug: the flags of the previous item are left as they are.
ScopedFlags_left == {}

\* The flags that a page clears when it goes on to another item.
ScopedFlags ==
    UNION {AllFlags(Me.controls[c].handler) : c \in {k \in Controls : Me.controls[k].handler.scoped}}

\* The user turns the page, changes a filter, or follows a link to another
\* item shown by the same screen.
ChangeQuery ==
    LET names == {l \in Loaders : Me.loaders[l].follows}
    IN  /\ here /\ query < MaxQueries /\ names # {}
        /\ \A l \in names : Me.loaders[l].unless \cap flags = {}
        /\ query' = query + 1
        /\ loads' = StartLoads(loads, names, query')
        /\ flags' = (flags \ ScopedFlags) \cup FlagsOf(names)
        /\ UNCHANGED <<screen, here, stage, view, runs>>

\* A timer starts a loader again.
Poll(l) ==
    /\ here /\ Me.loaders[l].polls
    /\ loads' = StartLoads(loads, {l}, query)
    /\ flags' = flags \cup Me.loaders[l].flags
    /\ UNCHANGED <<screen, here, query, stage, view, runs>>

Retry(l) ==
    /\ here /\ Me.loaders[l].retries /\ view[l].failed
    /\ \A d \in loads : d.of # l
    /\ loads' = StartLoads(loads, {l}, query)
    /\ flags' = flags \cup Me.loaders[l].flags
    /\ UNCHANGED <<screen, here, query, stage, view, runs>>

-----------------------------------------------------------------------------
(* Handlers.                                                               *)

\* Bug: the button is not disabled while its handler runs.
Offered_enabled(c) ==
    LET control == Me.controls[c].control
    IN  /\ here
        /\ control.stages # {} => stage \in control.stages
        /\ \A l \in control.needs : view[l].query # 0

\* A control is offered at its stages and with the rows it belongs to, unless
\* one of its flags is up.
Offered(c) ==
    LET control == Me.controls[c].control
    IN  /\ here
        /\ control.stages # {} => stage \in control.stages
        /\ control.unless \cap flags = {}
        /\ \A l \in control.needs : view[l].query # 0

\* What an end does to the page, if the page is still there. A handler is a
\* closure: the loaders it starts again are asked for its own query, q.
Perform(q, end, lowered, raised) ==
    IF here
    THEN /\ loads' = StartLoads(loads, end.reload, q)
         /\ flags' = ((flags \ (lowered \cup end.stops)) \cup raised) \cup FlagsOf(end.reload)
                        \cup end.starts
         /\ stage' = IF end.stage = "same" THEN stage ELSE end.stage
         /\ here' = ~end.leaves
    ELSE UNCHANGED <<loads, flags, stage, here>>

\* Bug: the loop over the selected rows runs once too often.
Last_past(run, handler) == run.at > Len(handler.calls)

\* The call that is awaited is the handler's last one.
Last(run, handler) == run.at = Len(handler.calls)

\* Bug: the failures are counted and not reported.
Done_unread(handler, failed) == handler.all

\* How a run ends that has made all its calls.
Done(handler, failed) ==
    CASE failed = 0 -> handler.all
      [] failed # 0 /\ failed < Len(handler.calls) -> handler.some
      [] OTHER -> handler.none

\* An end that tells a success or shows a change.
Claims(end) == end.tells = "success" \/ end.view = "patch"

\* Of a run that has ended only whether it told a success, or showed a change,
\* that it did not have is kept.
Over(run, end) ==
    [NoRun EXCEPT !.of = Ended,
                  !.hollow = run.hollow /\ Claims(end)]

\* Runs are started in the order of their numbers: any other order is alike.
Start(r, c) ==
    LET handler == Me.controls[c].handler
    IN  /\ handler.calls # << >> /\ Offered(c)
        /\ runs[r] = NoRun /\ \A q \in 1..(r-1) : runs[q] # NoRun
        /\ runs' = [runs EXCEPT ![r] = [NoRun EXCEPT !.of = c, !.query = query, !.at = 1]]
        /\ Perform(query, handler.begin, handler.unmarks, handler.busy \cup handler.marks)
        /\ UNCHANGED <<screen, query, view>>

\* A handler that makes no call is over at once.
Act(c) ==
    LET handler == Me.controls[c].handler
    IN  /\ handler.calls = << >> /\ Offered(c)
        /\ Perform(query, handler.all, {}, {})
        /\ UNCHANGED <<screen, query, view, runs>>

\* The call that run r awaits returns or throws: the handler goes on to its
\* next call or ends.
Answered(r, result, met) ==
    LET handler == HandlerOf(r)
        call == handler.calls[runs[r].at]
        failed == result # "ok"
        run == [runs[r] EXCEPT !.failed = IF failed THEN @ + 1 ELSE @,
                               !.hollow = @ \/ (call.counts /\ ~met)]
        goesOn == ~failed \/ (IF result = "no" THEN call.next ELSE call.caught)
        last == Last(run, handler)
        ends == CASE goesOn -> call.halts
                  [] ~goesOn /\ result = "no" -> {call.no} \cup call.refusals
                  [] OTHER -> {call.throw}
    IN  /\ \/ /\ goesOn /\ ~last /\ ~Dropped(r)
              /\ runs' = [runs EXCEPT ![r] = [run EXCEPT !.at = @ + 1]]
              /\ UNCHANGED <<here, stage, loads, flags>>
           \/ \E end \in ends \cup (IF goesOn /\ last THEN {Done(handler, run.failed)} ELSE {}) :
                /\ ~Dropped(r)
                /\ runs' = [runs EXCEPT ![r] = Over(run, end)]
                /\ Perform(run.query, end, AllFlags(handler), {})
           \/ /\ Dropped(r)
              /\ runs' = [runs EXCEPT ![r] = Over(run, Silent)]
              /\ UNCHANGED <<here, stage, loads, flags>>
        /\ UNCHANGED <<screen, query, view>>

\* A countdown of the page ends.
EndsOf(h) == {h.begin, h.all, h.some, h.none}
               \cup UNION {{h.calls[i].no, h.calls[i].throw} \cup h.calls[i].halts
                             \cup h.calls[i].refusals : i \in DOMAIN h.calls}
TimersOf(page) ==
    UNION {UNION {e.starts : e \in EndsOf(page.controls[c].handler)} : c \in DOMAIN page.controls}
Timers == TimersOf(Me)
TimerEnds ==
    \E t \in Timers \cap flags :
        /\ here
        /\ flags' = flags \ {t}
        /\ UNCHANGED <<screen, here, query, stage, loads, view, runs>>

-----------------------------------------------------------------------------
(* What is asked of the screens. The properties below hold for any number  *)
(* of queries and runs of screens like these.                              *)

ASSUME MaxQueriesAssumption == MaxQueries \in Nat \ {0}
ASSUME MaxRunsAssumption == MaxRuns \in Nat

\* The stages at which a page starts or offers something.
StagesOf(page) ==
    {page.stage} \cup UNION {page.controls[c].control.stages : c \in DOMAIN page.controls}

\* A page goes on to stages and starts loaders that it has.
WellFormed(page) ==
    \A c \in DOMAIN page.controls :
        LET handler == page.controls[c].handler
        IN  /\ c \notin {"none", Ended}
            /\ handler.calls \in Seq({handler.calls[i] : i \in DOMAIN handler.calls})
            /\ \A i \in DOMAIN handler.calls :
                 handler.calls[i].outcomes \subseteq {"ok", "no", "throw"} \X BOOLEAN
            /\ \A e \in EndsOf(handler) :
                 e.reload \subseteq DOMAIN page.loaders /\ e.stage \in {"same"} \cup StagesOf(page)
ASSUME PagesWellFormed == \A s \in DOMAIN Pages : WellFormed(Pages[s])

\* A busy flag disables every control that raises it, and nobody lowers it but
\* the handlers that raise it: no loader, no timer, no mark of an item and no
\* change of the item under a handler that goes on.
BusyKept(page) ==
    \A c \in DOMAIN page.controls :
        LET busy == page.controls[c].handler.busy
        IN  /\ busy \subseteq page.controls[c].control.unless
            /\ busy \cap TimersOf(page) = {}
            /\ \A l \in DOMAIN page.loaders : busy \cap page.loaders[l].flags = {}
            /\ \A k \in DOMAIN page.controls :
                 LET other == page.controls[k].handler
                 IN  /\ busy \cap (other.marks \cup other.unmarks) = {}
                     /\ \A e \in EndsOf(other) : busy \cap e.stops = {}
                     /\ other.scoped /\ ~page.controls[c].handler.scoped
                          => busy \cap AllFlags(other) = {}
ASSUME PagesBusyKept == \A s \in DOMAIN Pages : BusyKept(Pages[s])

\* The loader of a control that is disabled while it loads: the flag that
\* disables it is the loader's own.
LoadingKept(page) ==
    \A l \in DOMAIN page.loaders :
        LET own == page.loaders[l].flags \cap page.loaders[l].unless
        IN  page.loaders[l].follows /\ ~page.loaders[l].guarded =>
              /\ own \cap TimersOf(page) = {}
              /\ \A k \in DOMAIN page.loaders \ {l} : own \cap page.loaders[k].flags = {}
              /\ \A c \in DOMAIN page.controls :
                   /\ own \cap AllFlags(page.controls[c].handler) = {}
                   /\ \A e \in EndsOf(page.controls[c].handler) : own \cap e.stops = {}
ASSUME PagesLoadingKept == \A s \in DOMAIN Pages : LoadingKept(Pages[s])

\* A call that counts returns "ok" only if its writes were made, its failure
\* is not told as a success, and a handler that goes on after it has an end of
\* its own for that.
ClaimsBacked(handler) ==
    /\ \A i \in DOMAIN handler.calls :
         LET call == handler.calls[i]
         IN  /\ \A e \in {call.no, call.throw} \cup call.refusals : ~Claims(e)
             /\ call.counts =>
                  /\ <<"ok", FALSE>> \notin call.outcomes
                  /\ call.next \/ call.caught =>
                       /\ ~Claims(handler.some) /\ ~Claims(handler.none)
                       /\ \A j \in DOMAIN handler.calls :
                            \A e \in handler.calls[j].halts : ~Claims(e)
ASSUME PagesClaimsBacked ==
    \A s \in DOMAIN Pages : \A c \in DOMAIN Pages[s].controls :
        ClaimsBacked(Pages[s].controls[c].handler)

-----------------------------------------------------------------------------
Init ==
    /\ screen \in DOMAIN Pages
    /\ here = TRUE
    /\ query = 1
    /\ stage = Me.stage
    /\ LET names == {l \in Loaders : Me.loaders[l].mounts}
       IN  loads = StartLoads({}, names, 1) /\ flags = FlagsOf(names)
    /\ view = [l \in Loaders |-> [query |-> 0, failed |-> FALSE]]
    /\ runs = [r \in Runs |-> NoRun]

ArriveSome == \E d \in loads : \E o \in Me.loaders[d.of].outcomes : Arrive(d, o[1])
PollSome == \E l \in Loaders : Poll(l)
RetrySome == \E l \in Loaders : Retry(l)
StartSome == \E r \in Runs, c \in Controls : Start(r, c)
ActSome == \E c \in Controls : Act(c)
AnswerSome ==
  \E r \in Runs :
    /\ Active(r)
    /\ \E o \in HandlerOf(r).calls[runs[r].at].outcomes : Answered(r, o[1], o[2])

Next ==
    \/ ArriveSome \/ ChangeQuery \/ PollSome \/ RetrySome \/ StartSome \/ ActSome \/ AnswerSome
    \/ TimerEnds

Spec == Init /\ [][Next]_vars

-----------------------------------------------------------------------------
(* Properties.                                                             *)

\* The flags, stages, loads and runs of a screen stay among the ones its
\* components declare: no handler starts a loader the screen does not have,
\* moves to a stage at which nothing is offered, or raises a flag that is
\* never lowered.
KnownFlags ==
    Timers \cup FlagsOf(Loaders) \cup UNION {AllFlags(Me.controls[c].handler) : c \in Controls}
KnownStages == StagesOf(Me)
TypeOK ==
    /\ screen \in DOMAIN Pages /\ here \in BOOLEAN /\ query \in 1..MaxQueries
    /\ here => stage \in KnownStages
    /\ flags \subseteq KnownFlags
    /\ loads \subseteq [of : Loaders, query : 1..MaxQueries, current : BOOLEAN]
    /\ view \in [Loaders -> [query : 0..MaxQueries, failed : BOOLEAN]]
    /\ \A r \in Runs :
         /\ runs[r].of \in Controls \cup {"none", Ended}
         /\ Active(r) => runs[r].at \in DOMAIN HandlerOf(r).calls

\* A handler that tells the user that it has succeeded, or changes the rows
\* by itself, has had every write that it reports made by the server, also
\* when an answer was lost or is not what the parser expects.
HonestSuccess == \A r \in Runs : runs[r].of = Ended => ~runs[r].hollow

\* Two runs that raise the same busy flag are never in flight together: what
\* a user has submitted is not submitted again before it is answered.
SingleFlight ==
    \A r, q \in Runs :
        r # q /\ Attended(r) /\ Attended(q)
          => HandlerOf(r).busy \cap HandlerOf(q).busy = {}

\* Once its loads have arrived, a screen that drops the answers it no longer
\* needs, or has one load at a time, never shows the rows of an earlier page,
\* filter or item, unless it has reported that the last load failed. Left out
\* are the loaders that a handler starts again after an await, with the query
\* it had captured before it.
ReloadedBy(l, c) == \E e \in EndsOf(Me.controls[c].handler) : l \in e.reload
ReloadedLate(l) == \E c \in Controls : Me.controls[c].handler.calls # << >> /\ ReloadedBy(l, c)
OneAtATime(l) == Me.loaders[l].flags \cap Me.loaders[l].unless # {}
                   /\ \A c \in Controls : ~ReloadedBy(l, c)
DropsStale(l) == Me.loaders[l].guarded /\ ~ReloadedLate(l)
CurrentRows ==
    \A l \in Loaders :
        /\ here /\ Me.loaders[l].follows /\ (DropsStale(l) \/ OneAtATime(l))
        /\ \A d \in loads : d.of # l
        => view[l].query \in {0, query} \/ view[l].failed

\* Every flag that is up is owed to a load that will be applied or to a run
\* in flight, which lowers it: as every request is answered or cut off by its
\* timeout (ApiClient), no spinner and no disabled button stays for ever.
NoOrphanFlag ==
    here => \A f \in flags :
        \/ f \in Timers
        \/ \E d \in loads : d.current /\ f \in Me.loaders[d.of].flags
        \/ \E r \in Runs : Attended(r) /\ f \in AllFlags(HandlerOf(r))
============================================================================
