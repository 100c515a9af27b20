----------------------------- MODULE Dashboard -----------------------------
(***************************************************************************)
(* The run page of the dashboard (ui/index.html): Router, RunDetailView    *)
(* and the requests it has under way, over the drawing of graphs that Viz  *)
(* models.                                                                 *)
(*                                                                         *)
(* The page is one thread: a handler runs to its end or to its next await. *)
(* A request is read by the server at one moment and answered at a later   *)
(* one, and answers overtake each other.  What the server knows of a run   *)
(* only grows: 0 when it starts, Over when it is over.  A run of Live was  *)
(* submitted to this server; until it is over handleGetPipeline answers    *)
(* from the registry, without dot_source.                                  *)
(*                                                                         *)
(* A view is never used again once another is shown, so views are numbered *)
(* in the order they are shown; View 0 stands for the list of runs.        *)
(*                                                                         *)
(* Left out: what the sidebar and the panel show, failed requests, and the *)
(* event stream.                                                           *)
(* handleEvent tests for the names node.started, run.completed and so on,  *)
(* and the engine sends none of them, so an event only sets a status text. *)
(***************************************************************************)
EXTENDS Viz

CONSTANTS
    Run,           \* runs the user opens
    DotOf,         \* the DOT source of each run
    Live,          \* the runs that were submitted to this server
    Over,          \* the last state of a run, the terminal one
    Unknown,       \* a request that was not read yet; no run loaded yet
    MaxViews,      \* bound: views shown
    MaxRequests    \* bound: requests under way

ASSUME DashboardAssumption ==
    /\ DotOf \in [Run -> Source]
    /\ Live \subseteq Run
    /\ Over \in Nat \ {0}
    /\ Unknown \notin Nat
    /\ {MaxViews, MaxRequests} \subseteq Nat

VARIABLES
    known,         \* what the server knows of each run
    shown,         \* Router.current
    view,          \* the RunDetailViews so far
    drawnFor,      \* of each call of GraphRenderer.render, the view it draws for
    asked          \* calls of API.getRun under way

vars == <<vizVars, known, shown, view, drawnFor, asked>>

Empty == 0         \* graph-area holds a text instead of a graph

\* run: what the view last heard; pane: the call whose element it shows.
ViewRecord == [id : Run, run : (0 .. Over) \cup {Unknown}, gone : BOOLEAN, polling : BOOLEAN,
               pane : {Empty} \cup (1 .. MaxCalls)]

DashTypeOK ==
    /\ TypeOK
    /\ known \in [Run -> 0 .. Over]
    /\ shown \in 0 .. MaxViews
    /\ view \in Seq(ViewRecord)
    /\ \A i \in DOMAIN view : view[i].gone = (i # shown)
    /\ DOMAIN drawnFor = Calls
    /\ \A a \in asked :
         /\ a.view \in DOMAIN view
         /\ a.by \in {"load", "poll", "cancel"}
         /\ a.seen \in (0 .. Over) \cup {Unknown}

DashInit ==
    /\ Init
    /\ known = [r \in Run |-> 0]
    /\ shown = 0
    /\ view = << >>
    /\ drawnFor = << >>
    /\ asked = {}

isTerminal(state) == state = Over

-----------------------------------------------------------------------------
(* Steps of handlers.                                                      *)

GetRun(i, by) == [view |-> i, by |-> by, seen |-> Unknown]

\* renderGraph of view i, whose run is now to; upd is the rest of its update.
\* The call returns at its await, and the pane changes when the call settles.
renderGraph(i, upd) ==
    IF upd.gone
    THEN view' = [view EXCEPT ![i] = upd] /\ UNCHANGED <<vizVars, drawnFor>>
    ELSE IF upd.id \in Live /\ ~isTerminal(upd.run)
    THEN /\ view' = [view EXCEPT ![i] = [upd EXCEPT !.pane = Empty]]
         /\ UNCHANGED <<vizVars, drawnFor>>
    ELSE /\ Render(DotOf[upd.id])
         /\ view' = [view EXCEPT ![i] = upd]
         /\ drawnFor' = Append(drawnFor, i)

-----------------------------------------------------------------------------
(* Handlers.                                                               *)

\* Mutant: the view is not told.
LeaveKept == view

\* Router.show: the view that was shown is destroyed, the next one loads.
Leave == [i \in DOMAIN view |->
            IF i = shown THEN [view[i] EXCEPT !.gone = TRUE, !.polling = FALSE] ELSE view[i]]

ShowRun(r) ==
    /\ Len(view) < MaxViews
    /\ Cardinality(asked) < MaxRequests
    /\ view' = Append(Leave, [id |-> r, run |-> Unknown, gone |-> FALSE, polling |-> FALSE,
                              pane |-> Empty])
    /\ shown' = Len(view) + 1
    /\ asked' = asked \cup {GetRun(Len(view) + 1, "load")}
    /\ UNCHANGED <<vizVars, known, drawnFor>>

ShowList ==
    /\ shown # 0
    /\ view' = Leave
    /\ shown' = 0
    /\ UNCHANGED <<vizVars, known, drawnFor, asked>>

\* loadRun after its await.  It does not ask whether the view is still shown.
Loaded(a) ==
    /\ a.by = "load" /\ a.seen # Unknown
    /\ renderGraph(a.view, [view[a.view] EXCEPT !.run = a.seen, !.polling = ~isTerminal(a.seen)])
    /\ asked' = asked \ {a}
    /\ UNCHANGED <<known, shown>>

\* The timer of startPolling, and its callback after the await.
Tick(i) ==
    /\ view[i].polling /\ ~view[i].gone
    /\ Cardinality(asked) < MaxRequests
    /\ asked' = asked \cup {GetRun(i, "poll")}
    /\ UNCHANGED <<vizVars, known, shown, view, drawnFor>>

Polled(a) ==
    /\ a.by = "poll" /\ a.seen # Unknown
    /\ renderGraph(a.view, [view[a.view] EXCEPT
                              !.run = a.seen,
                              !.polling = @ /\ ~isTerminal(a.seen)])
    /\ asked' = asked \ {a}
    /\ UNCHANGED <<known, shown>>

\* The Cancel button, which the header shows while the run is not over: the run
\* is asked for again a second after the server took the cancellation.
Cancel(i) ==
    /\ ~view[i].gone /\ view[i].run # Unknown /\ ~isTerminal(view[i].run)
    /\ Cardinality(asked) < MaxRequests
    /\ asked' = asked \cup {GetRun(i, "cancel")}
    /\ UNCHANGED <<vizVars, known, shown, view, drawnFor>>

Refetched(a) ==
    /\ a.by = "cancel" /\ a.seen # Unknown
    /\ renderGraph(a.view, [view[a.view] EXCEPT !.run = a.seen])
    /\ asked' = asked \ {a}
    /\ UNCHANGED <<known, shown>>

\* A node or the run log is chosen, in the sidebar, the graph or the panel, or the
\* timer of the run log ticks: the graph is drawn again, with another selection.
Redraw(i) ==
    /\ ~view[i].gone /\ view[i].run # Unknown
    /\ renderGraph(i, view[i])
    /\ UNCHANGED <<known, shown, asked>>

\* Mutant: the element goes to the view that is shown.
DrawnShown(v) ==
    /\ Message(v)
    /\ LET c == listeners[v][Head(replies[v]).id]
       IN  view' = [i \in DOMAIN view |-> IF i = shown THEN [view[i] EXCEPT !.pane = c] ELSE view[i]]
    /\ UNCHANGED <<known, shown, drawnFor, asked>>

\* GraphRenderer.render settles: renderGraph puts the element into the area of
\* the view it was called for, shown or not.
Drawn(v) ==
    /\ Message(v)
    /\ LET c == listeners[v][Head(replies[v]).id]
       IN  view' = [view EXCEPT ![drawnFor[c]].pane = c]
    /\ UNCHANGED <<known, shown, drawnFor, asked>>

\* handleGetPipeline, and the run itself.
Serve(a) ==
    /\ a.seen = Unknown
    /\ asked' = (asked \ {a}) \cup {[a EXCEPT !.seen = known[view[a.view].id]]}
    /\ UNCHANGED <<vizVars, known, shown, view, drawnFor>>

Advance(r) ==
    /\ known[r] < Over
    /\ known' = [known EXCEPT ![r] = @ + 1]
    /\ UNCHANGED <<vizVars, shown, view, drawnFor, asked>>

Worker(v) ==
    /\ Load(v) \/ Answer(v)
    /\ UNCHANGED <<known, shown, view, drawnFor, asked>>

DashNext ==
    \/ \E r \in Run : ShowRun(r) \/ Advance(r)
    \/ ShowList
    \/ \E i \in DOMAIN view : Tick(i) \/ Cancel(i) \/ Redraw(i)
    \/ \E a \in asked : Serve(a) \/ Loaded(a) \/ Polled(a) \/ Refetched(a)
    \/ \E v \in Instance : Worker(v) \/ Drawn(v)

DashSpec == DashInit /\ [][DashNext]_vars

\* The browser goes on running the handlers of the page and of its workers.
DashFairSpec ==
    /\ DashSpec
    /\ \A v \in Instance : WF_vars(Worker(v)) /\ WF_vars(Drawn(v))

-----------------------------------------------------------------------------
(* Properties.                                                             *)

\* What a view shows is a graph of its own run and the last one it was given:
\* every drawing the same view asked for later is still under way.  It takes a
\* graph that failed, and the second worker it leads to, for a drawing to be
\* overtaken (index.html:1241 takes the area before the await, viz.js:87 pairs
\* replies with calls).
PaneInStep ==
    \A i \in DOMAIN view : view[i].pane # Empty =>
        /\ calls[view[i].pane].src = DotOf[view[i].id]
        /\ (\A c \in Calls : calls[c].answer # Failed) =>
             \A c \in Calls : c > view[i].pane /\ drawnFor[c] = i => calls[c].answer = Pending
=============================================================================
