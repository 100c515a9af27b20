-------------------------------- MODULE Viz --------------------------------
(***************************************************************************)
(* How the dashboard draws a graph: GraphRenderer (ui/index.html), the Viz *)
(* object it holds and that object's WorkerWrapper (ui/viz.js), and the    *)
(* worker that runs Graphviz (ui/viz-render.js).                           *)
(*                                                                         *)
(* The page and each worker are threads that share nothing: postMessage    *)
(* appends to a queue the other side takes from in order.  One handler of  *)
(* a thread, with the promise callbacks it resolves, is one step.          *)
(*                                                                         *)
(* A script that the browser fails to fetch gives a worker that never      *)
(* answers; WorkerWrapper listens to 'message' only, so nobody hears of    *)
(* it.  What Graphviz does after a graph it could not parse is taken from  *)
(* the comment in GraphRenderer.render, "viz.js becomes unusable after a   *)
(* parse error": such a worker may fail any later graph.                   *)
(*                                                                         *)
(* Left out: the drawing itself, the other formats and engines, image      *)
(* files, and ModuleWrapper, none of which the dashboard asks for.         *)
(***************************************************************************)
EXTENDS Naturals, Sequences, FiniteSets

CONSTANTS
    Source,        \* the DOT texts
    Bad,           \* those that Graphviz refuses
    Pending,       \* the promise has not settled
    Failed,        \* the promise was rejected
    MaxCalls       \* bound: calls of GraphRenderer.render

ASSUME VizAssumption ==
    /\ Bad \subseteq Source
    /\ Pending \notin Source /\ Failed \notin Source /\ Pending # Failed
    /\ MaxCalls \in Nat

VARIABLES
    viz,           \* GraphRenderer.viz, by number; 0 is null
    calls,         \* the calls of GraphRenderer.render
    nextId,        \* of each WorkerWrapper
    listeners,     \* of each WorkerWrapper: by id, the call whose promise it settles
    worker,        \* what became of each worker
    requests,      \* messages to each worker
    replies        \* messages from each worker

vizVars == <<viz, calls, nextId, listeners, worker, requests, replies>>

\* A Viz is made for the first call and after each call that failed.
Instance == 1 .. MaxCalls + 1

Answers == Source \cup {Failed}
Calls == DOMAIN calls

\* on and id: the Viz and the id the call was given; behind: the calls that
\* had no answer when it was made (a record of the past the code does not keep).
CallRecord == [src : Source, on : Instance, id : Nat,
               answer : Answers \cup {Pending}, behind : SUBSET (1 .. MaxCalls)]

TypeOK ==
    /\ viz \in {0} \cup Instance
    /\ calls \in Seq(CallRecord) /\ Len(calls) <= MaxCalls
    /\ nextId \in [Instance -> Nat]
    /\ DOMAIN listeners = Instance
    /\ worker \in [Instance -> {"loading", "ready", "spoiled", "lost"}]
    /\ requests \in [Instance -> Seq([id : Nat, src : Source])]
    /\ replies \in [Instance -> Seq([id : Nat, answer : Answers])]

Init ==
    /\ viz = 0
    /\ calls = << >>
    /\ nextId = [v \in Instance |-> 0]
    /\ listeners = [v \in Instance |-> << >>]
    /\ worker = [v \in Instance |-> "loading"]
    /\ requests = [v \in Instance |-> << >>]
    /\ replies = [v \in Instance |-> << >>]

-----------------------------------------------------------------------------
(* The page.                                                               *)

\* new Viz({workerURL}): an object that was not used yet.
NewViz == viz + 1

\* renderString: the dashboard passes no options, so the source is all of it.
Request(id, src) == [id |-> id, src |-> src]

\* Mutant: the id is not used up.
PostSameId(v, src) ==
    /\ listeners' = [listeners EXCEPT ![v] = [id \in DOMAIN @ \cup {nextId[v]} |->
                        IF id = nextId[v] THEN Len(calls) + 1 ELSE @[id]]]
    /\ requests' = [requests EXCEPT ![v] = Append(@, Request(nextId[v], src))]
    /\ UNCHANGED nextId

\* WorkerWrapper.render
Post(v, src) ==
    /\ listeners' = [listeners EXCEPT ![v] = [id \in DOMAIN @ \cup {nextId[v]} |->
                        IF id = nextId[v] THEN Len(calls) + 1 ELSE @[id]]]
    /\ requests' = [requests EXCEPT ![v] = Append(@, Request(nextId[v], src))]
    /\ nextId' = [nextId EXCEPT ![v] = @ + 1]

\* GraphRenderer.render up to its second await
Render(src) ==
    LET v == IF viz = 0 THEN NewViz ELSE viz
    IN  /\ Len(calls) < MaxCalls
        /\ viz' = v
        /\ Post(v, src)
        /\ calls' = Append(calls,
             [src |-> src, on |-> v, id |-> nextId[v], answer |-> Pending,
              behind |-> {c \in Calls : calls[c].answer = Pending}])
        /\ UNCHANGED <<worker, replies>>

\* Mutant: the Viz is kept after a graph that failed.
SettleKept(c, answer) ==
    /\ calls' = [calls EXCEPT ![c].answer = answer]
    /\ viz' = viz

\* The rest of GraphRenderer.render, run when the promise settles.
Settle(c, answer) ==
    /\ calls' = [calls EXCEPT ![c].answer = answer]
    /\ viz' = IF answer = Failed THEN NewViz ELSE viz

\* The 'message' listener of WorkerWrapper.
Message(v) ==
    /\ replies[v] # << >>
    /\ LET reply == Head(replies[v])
       IN  /\ reply.id \in DOMAIN listeners[v]
           /\ Settle(listeners[v][reply.id], reply.answer)
           /\ listeners' = [listeners EXCEPT ![v] =
                              [id \in DOMAIN @ \ {reply.id} |-> @[id]]]
    /\ replies' = [replies EXCEPT ![v] = Tail(@)]
    /\ UNCHANGED <<nextId, worker, requests>>

-----------------------------------------------------------------------------
(* The worker.                                                             *)

\* The browser fetches and runs viz-render.js, or cannot.
Load(v) ==
    /\ viz >= v /\ worker[v] = "loading"
    /\ \E to \in {"ready", "lost"} : worker' = [worker EXCEPT ![v] = to]
    /\ UNCHANGED <<viz, calls, nextId, listeners, requests, replies>>

\* The answers that render of viz-render.js can give.
GraphvizRender(v, src) ==
    IF src \in Bad THEN {Failed}
    ELSE {src} \cup {f \in {Failed} : worker[v] = "spoiled"}

\* Mutant: a worker stops when its Viz is replaced.
AnswerCurrent(v) ==
    /\ v = viz
    /\ worker[v] \in {"ready", "spoiled"}
    /\ requests[v] # << >>
    /\ LET request == Head(requests[v])
       IN  \E answer \in GraphvizRender(v, request.src) :
             /\ replies' = [replies EXCEPT ![v] =
                              Append(@, [id |-> request.id, answer |-> answer])]
             /\ worker' = [worker EXCEPT ![v] = IF answer = Failed THEN "spoiled" ELSE @]
    /\ requests' = [requests EXCEPT ![v] = Tail(@)]
    /\ UNCHANGED <<viz, calls, nextId, listeners>>

\* onmessage
Answer(v) ==
    /\ worker[v] \in {"ready", "spoiled"}
    /\ requests[v] # << >>
    /\ LET request == Head(requests[v])
       IN  \E answer \in GraphvizRender(v, request.src) :
             /\ replies' = [replies EXCEPT ![v] =
                              Append(@, [id |-> request.id, answer |-> answer])]
             /\ worker' = [worker EXCEPT ![v] = IF answer = Failed THEN "spoiled" ELSE @]
    /\ requests' = [requests EXCEPT ![v] = Tail(@)]
    /\ UNCHANGED <<viz, calls, nextId, listeners>>

Next ==
    \/ \E src \in Source : Render(src)
    \/ \E v \in Instance : Load(v) \/ Answer(v) \/ Message(v)

Spec == Init /\ [][Next]_vizVars

\* A browser goes on running the handlers of its threads.
FairSpec ==
    /\ Spec
    /\ \A v \in Instance : WF_vizVars(Load(v)) /\ WF_vizVars(Answer(v)) /\ WF_vizVars(Message(v))

-----------------------------------------------------------------------------
(* Properties.                                                             *)

\* The calls as the callers see them.
Seen == [c \in Calls |-> [src |-> calls[c].src, answer |-> calls[c].answer,
                          behind |-> calls[c].behind]]

Promise == INSTANCE Rendering WITH calls <- Seen

\* Each call is answered once and with the drawing of its own source; a graph
\* that can be drawn fails only when it was asked for while a bad one was
\* waiting (viz.js: ids and listeners; index.html:583: the fresh instance).
RendersAsPromised == Promise!Spec

\* A reply always finds its listener: the ids the wrapper is waiting for are
\* those of the requests and the replies under way, in the order they were
\* given (viz.js:87 calls listeners[id] with no check).
ListenersMatchMessages ==
    \A v \in Instance :
        LET out == Len(requests[v]) + Len(replies[v])
        IN  /\ out <= nextId[v]
            /\ DOMAIN listeners[v] = (nextId[v] - out) .. (nextId[v] - 1)
            /\ \A i \in DOMAIN replies[v] : replies[v][i].id = nextId[v] - out + i - 1
            /\ \A i \in DOMAIN requests[v] :
                 requests[v][i].id = nextId[v] - Len(requests[v]) + i - 1

\* Every call is answered, unless the worker it was sent to never loaded: no
\* request, reply or listener is lost when a new Viz takes over (index.html:584).
\* There are at most MaxCalls calls, so in the end none is waiting.
Waiting(c) == calls[c].answer = Pending /\ worker[calls[c].on] # "lost"
EveryCallSettles == <>[](\A c \in Calls : ~Waiting(c))
=============================================================================
