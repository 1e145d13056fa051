---------------------------- MODULE ScreenForms ----------------------------
(***************************************************************************)
(* The vocabulary in which the screens of apps/web are described: what a   *)
(* loader fetches, what a handler does after each answer, and when a       *)
(* component offers the control that starts a handler. Module Screens runs *)
(* screens described in these terms.                                       *)
(***************************************************************************)
EXTENDS ApiServices

-----------------------------------------------------------------------------
(* What a call of a service function can come to.                          *)

\* Whether what a request asks for is so once it has been answered.
Effects(step, a) ==
    CASE ~step.writes \/ a \in {"full", "odd", "void"} -> {TRUE}
      [] step.writes /\ a = "lost" -> {TRUE, FALSE}
      [] OTHER -> {step.erases /\ a = "gone"}

AnswersTo(step) == IF step.flagged THEN Answers ELSE Answers \ {"declined"}

\* What can come of a call: the result, and whether each write that the
\* function does not treat as optional has been made by the server. A
\* function that fails does so at one of its requests.
OutcomesOf(f) ==
    LET at(i, result) == {a \in AnswersTo(f.steps[i]) : f.steps[i].on[a] = result}
        unmet == \E i \in DOMAIN f.steps : \E a \in at(i, "ok") : FALSE \in Effects(f.steps[i], a)
        bad == ({f.check} \cup UNION {{f.steps[i].on[a] : a \in AnswersTo(f.steps[i])} :
                                        i \in DOMAIN f.steps}) \ {"ok", "skip", "empty"}
    IN  {<<"ok", TRUE>>} \cup {<<"ok", ~unmet>>} \cup {<<result, FALSE>> : result \in bad}

-----------------------------------------------------------------------------
(* Ends: what a handler does last. It tells the user ("success", "error",  *)
(* "partial": both, or nothing), changes the rows it shows, starts loaders *)
(* again, moves on to another stage of the page, starts or stops a timer,  *)
(* or leaves the page.                                                     *)

Silent == [tells |-> "none", view |-> "keep", reload |-> {}, stage |-> "same",
           starts |-> {}, stops |-> {}, leaves |-> FALSE]
Fails == [Silent EXCEPT !.tells = "error"]
Succeeds == [Silent EXCEPT !.tells = "success"]
Partly == [Silent EXCEPT !.tells = "partial"]

Patching(end) == [end EXCEPT !.view = "patch"]
\* The row is taken off the page: the server no longer has it.
Dropping(end) == [end EXCEPT !.view = "drop"]
Reloading(end, loaders) == [end EXCEPT !.reload = loaders]
MovingTo(end, next) == [end EXCEPT !.stage = next]
\* A countdown that the page shows and that disables a control until it ends.
Cooling(end, timer) == [end EXCEPT !.starts = {timer}]
Stopping(end, timer) == [end EXCEPT !.stops = {timer}]
Leaving(end) == [end EXCEPT !.leaves = TRUE]

-----------------------------------------------------------------------------
(* Calls: a service function and what the handler does when it returns     *)
(* failure or throws. `next': it goes on after a failure all the same, and *)
(* `caught': after a throw too. `counts': what the handler reports as its  *)
(* success includes the success of this call. `halts': the ends of a       *)
(* handler that stops although the call succeeded, for what the answer     *)
(* says; `refusals': its ends for a failure of another kind than `no'.     *)

Call(service, no, throw) ==
    [outcomes |-> OutcomesOf(service), no |-> no, throw |-> throw, next |-> FALSE,
     caught |-> FALSE, counts |-> TRUE, halts |-> {}, refusals |-> {}]

Halting(call, ends) == [call EXCEPT !.halts = ends]
Refusing(call, ends) == [call EXCEPT !.refusals = ends]

\* A call whose failure the handler takes no notice of.
Ignored(service) ==
    [Call(service, Silent, Silent) EXCEPT !.next = TRUE, !.caught = TRUE, !.counts = FALSE]

\* A call whose return value the handler does not read: only a throw ends it.
Unread(service, throw) == [Ignored(service) EXCEPT !.throw = throw, !.caught = FALSE]

\* One of the calls of a bulk operation: the others are made in any case.
Each(service) == [Ignored(service) EXCEPT !.counts = TRUE]

-----------------------------------------------------------------------------
(* Handlers: `busy' is the set of flags that are up while it runs, `begin' *)
(* what it does before its first call, `all', `some' and `none' how it     *)
(* ends when all, some or none of its calls succeeded. A handler that      *)
(* refuses its input before the first call leaves everything as it was.    *)

Handler(busy, calls, done) ==
    [busy |-> busy, marks |-> {}, unmarks |-> {}, begin |-> Silent, calls |-> calls,
     all |-> done, some |-> done, none |-> done, scoped |-> FALSE]

\* A handler that does nothing with an answer once the page shows another item
\* or is gone; the page clears its flags when it goes on to another item.
Scoped(handler) == [handler EXCEPT !.scoped = TRUE]

\* A state variable that holds the one item that is busy: the handler sets it
\* to its own item, over that of another run, and clears it when it ends.
Marking(handler, own, others) == [handler EXCEPT !.marks = {own}, !.unmarks = others]

Beginning(handler, begin) == [handler EXCEPT !.begin = begin]

\* The same call for each of the selected rows; two rows are enough to have
\* one of them fail.
Bulk(busy, service, all, some, none) ==
    [Handler(busy, <<Each(service), Each(service)>>, all)
       EXCEPT !.some = some, !.none = none]

\* A handler that makes no call.
Local(end) == Handler({}, << >>, end)

-----------------------------------------------------------------------------
(* Controls: where a component offers a handler. A page or a dialog offers *)
(* it whenever none of the flags `unless' is up: a dialog the user opens   *)
(* and closes at will adds nothing to when its handler can start. A stage  *)
(* (a step of a form, a panel only the code shows) offers it while the     *)
(* page is at that stage.                                                  *)

Page(unless) == [stages |-> {}, needs |-> {}, unless |-> unless]
Dialog(unless) == Page(unless)
Stage(stages, unless) == [Page(unless) EXCEPT !.stages = stages]
\* A control of the rows that one of the loaders has loaded.
Row(control, loaders) == [control EXCEPT !.needs = loaders]
At(control, handler) == [control |-> control, handler |-> handler]

-----------------------------------------------------------------------------
(* Loaders: the service function that is called, the flags that are up     *)
(* meanwhile, whether an answer is dropped once the loader has been        *)
(* started again (a cancelled flag, a request number or an AbortSignal),   *)
(* whether it is started again when the query (page, filter, search text,  *)
(* route parameter) changes and which flags disable the control that       *)
(* changes it, and whether a timer starts it. A failed load keeps the rows *)
(* or blanks them.                                                         *)

Loader(service, up) ==
    [outcomes |-> OutcomesOf(service), flags |-> up, guarded |-> FALSE,
     follows |-> FALSE, unless |-> {}, polls |-> FALSE, retries |-> FALSE,
     mounts |-> TRUE, failed |-> "keep"]
Following(loader, unless) == [loader EXCEPT !.follows = TRUE, !.unless = unless]
Guarded(loader) == [loader EXCEPT !.guarded = TRUE]
Polling(loader) == [loader EXCEPT !.polls = TRUE]
\* An effect that starts the loader again as soon as a load has failed.
Retrying(loader) == [loader EXCEPT !.retries = TRUE]
OnDemand(loader) == [loader EXCEPT !.mounts = FALSE]
Blanking(loader) == [loader EXCEPT !.failed = "blank"]

\* Two functions called together (Promise.all): one failure is a failure.
Both(f, g) == Function(f.steps \o g.steps)

\* A screen: its loaders and its controls by name, and the stage it starts at.
\* An optional part of a page that is not there is << >>.
Screen(loaders, controls) ==
    [loaders |-> loaders, controls |-> controls, stage |-> "page"]
StartingAt(page, first) == [page EXCEPT !.stage = first]

============================================================================
