--------------------------- MODULE PipelineServer ---------------------------
(***************************************************************************)
(* kilroy attractor serve: the registry of submitted runs, the broadcaster *)
(* of their events, the questions of their human gates, cancellation and   *)
(* shutdown (internal/server).                                             *)
(*                                                                         *)
(* The threads are the goroutines: one per run, one per question that a    *)
(* branch of a run is asking, one per HTTP request, the signal goroutine   *)
(* and main.  A step is one critical section, one select or one channel    *)
(* operation.  The engine is external here: it sends events, asks, and     *)
(* returns, at the latest when its context is canceled and its questions   *)
(* have returned.  An event is its number in the history of its run.       *)
(*                                                                         *)
(* Left out: how a run's options are read, run ids that are prefixes, the  *)
(* read-only requests, and runs of another process.  CancelAll, a loop over *)
(* the runs, is one step.                                                  *)
(***************************************************************************)
EXTENDS Naturals, Sequences

CONSTANTS
    Run,           \* ids of submitted runs
    Client,        \* GET /runs/{id}/events requests
    Question,      \* of each run, the questions its gates ask (q-1, q-2, ...)
    MaxEvents,     \* bound: events a run sends
    Headroom       \* room in a client's channel beyond the history (256)

ASSUME ServerAssumption ==
    /\ MaxEvents \in Nat
    /\ Headroom \in Nat \ {0}

VARIABLES
    srv,           \* how far the server's shutdown is
    run,           \* what the goroutine of each run has done
    posted,        \* submit requests that were accepted but are not registered
    canceled,      \* the run's context is canceled
    halfway,       \* runs whose cancel request has still to cancel the interviewer
    cancelCh,      \* the run's WebInterviewer.cancelCh is closed
    history,       \* Broadcaster.history of each run
    doneCh,        \* Broadcaster.closed and doneCh of each run
    client,        \* the event streams
    ask            \* the questions

vars == <<srv, run, posted, canceled, halfway, cancelCh, history, doneCh, client, ask>>

\* A run's goroutine: not submitted, in RunWithConfig, after SetResult, after
\* broadcaster.Close.
Stages == {"absent", "running", "result", "closed"}
Phases == {"up", "canceling", "draining", "stopped", "exited"}

\* of: the run; chan, open: the channel and whether it is open; room: its
\* capacity; in: it is in b.clients; got: what was written to the response.
Streams == {"none", "streaming", "done", "dropped", "left"}
StreamRecord == [at : Streams, of : Run, chan : Seq(1 .. MaxEvents), open : BOOLEAN,
                 room : Nat, in : BOOLEAN, got : Seq(1 .. MaxEvents)]

\* at: the goroutine of Ask; in: the question is in pending; full: answerCh
\* holds an answer; expired: the timer fired; taken: Answer calls that returned
\* true; result: what Ask returns.
Asking == {"none", "parked", "returning", "returned"}
AskRecord == [at : Asking, in : BOOLEAN, full : BOOLEAN, expired : BOOLEAN, taken : Nat,
              result : {"none", "answer", "timeout"}]

TypeOK ==
    /\ srv \in Phases
    /\ run \in [Run -> Stages]
    /\ posted \subseteq Run
    /\ canceled \in [Run -> BOOLEAN]
    /\ halfway \subseteq Run
    /\ cancelCh \in [Run -> BOOLEAN]
    /\ history \in [Run -> 0 .. MaxEvents]
    /\ doneCh \in [Run -> BOOLEAN]
    /\ client \in [Client -> StreamRecord]
    /\ \A c \in Client : Len(client[c].chan) <= client[c].room
    /\ ask \in [Run -> [Question -> AskRecord]]

Init ==
    /\ srv = "up"
    /\ run = [r \in Run |-> "absent"]
    /\ posted = {}
    /\ canceled = [r \in Run |-> FALSE]
    /\ halfway = {}
    /\ cancelCh = [r \in Run |-> FALSE]
    /\ history = [r \in Run |-> 0]
    /\ doneCh = [r \in Run |-> FALSE]
    /\ client \in [Client -> [at : {"none"}, of : Run, chan : {<< >>}, open : {FALSE},
                              room : {0}, in : {FALSE}, got : {<< >>}]]
    /\ ask = [r \in Run |-> [q \in Question |->
                [at |-> "none", in |-> FALSE, full |-> FALSE, expired |-> FALSE,
                 taken |-> 0, result |-> "none"]]]

\* The process is there, and goroutines run.
Up == srv # "exited"

Registered == {r \in Run : run[r] # "absent"}

-----------------------------------------------------------------------------
(* Broadcaster.                                                            *)

\* Mutant: the channel is closed and stays in b.clients.
ClosedKept(c) == [client[c] EXCEPT !.open = FALSE]

\* Close the channel of client c and forget it.
Closed(c) == [client[c] EXCEPT !.open = FALSE, !.in = FALSE]

Subscribers(r) == {c \in Client : client[c].of = r /\ client[c].in}

\* Mutant: a channel that is full is written to.
SendBlocking(r) ==
    LET ev == history[r] + 1
    IN  IF doneCh[r] THEN UNCHANGED <<history, client>>
        ELSE /\ history' = [history EXCEPT ![r] = ev]
             /\ client' = [c \in Client |->
                  IF c \notin Subscribers(r) THEN client[c]
                  ELSE [client[c] EXCEPT !.chan = Append(@, ev)]]

\* Mutant: a slow client loses the event and stays.
SendSkipping(r) ==
    LET ev == history[r] + 1
    IN  IF doneCh[r] THEN UNCHANGED <<history, client>>
        ELSE /\ history' = [history EXCEPT ![r] = ev]
             /\ client' = [c \in Client |->
                  IF c \in Subscribers(r) /\ Len(client[c].chan) < client[c].room
                  THEN [client[c] EXCEPT !.chan = Append(@, ev)]
                  ELSE client[c]]

Send(r) ==
    LET ev == history[r] + 1
    IN  IF doneCh[r] THEN UNCHANGED <<history, client>>
        ELSE /\ history' = [history EXCEPT ![r] = ev]
             /\ client' = [c \in Client |->
                  IF c \notin Subscribers(r) THEN client[c]
                  ELSE IF Len(client[c].chan) < client[c].room
                  THEN [client[c] EXCEPT !.chan = Append(@, ev)]
                  ELSE Closed(c)]

\* The handler subscribes, so that its channel holds the history to replay.  A
\* request that was accepted before the listener closed gets here at any time.
Subscribe(c) ==
    LET r == client[c].of
    IN  /\ Up
        /\ client[c].at = "none" /\ r \in Registered
        /\ client' = [client EXCEPT ![c] = [@ EXCEPT
             !.at = "streaming",
             !.chan = [i \in 1 .. history[r] |-> i],
             !.room = history[r] + Headroom,
             !.open = ~doneCh[r],
             !.in = ~doneCh[r]]]
        /\ UNCHANGED <<srv, run, posted, canceled, halfway, cancelCh, history, doneCh, ask>>

\* WriteSSE: one event is taken from the channel and written.
Write(c) ==
    /\ Up /\ client[c].at = "streaming" /\ client[c].chan # << >>
    /\ client' = [client EXCEPT ![c].got = Append(@, Head(client[c].chan)),
                                ![c].chan = Tail(@)]
    /\ UNCHANGED <<srv, run, posted, canceled, halfway, cancelCh, history, doneCh, ask>>

\* WriteSSE: the channel is closed and empty.
Finish(c) ==
    /\ Up /\ client[c].at = "streaming" /\ client[c].chan = << >> /\ ~client[c].open
    /\ client' = [client EXCEPT ![c].at = IF doneCh[client[c].of] THEN "done" ELSE "dropped"]
    /\ UNCHANGED <<srv, run, posted, canceled, halfway, cancelCh, history, doneCh, ask>>

\* WriteSSE: the request's context is done; unsub closes the channel unless
\* somebody did.
Leave(c) ==
    /\ Up /\ client[c].at = "streaming"
    /\ client' = [client EXCEPT ![c] = IF @.in THEN [Closed(c) EXCEPT !.at = "left"]
                                               ELSE [@ EXCEPT !.at = "left"]]
    /\ UNCHANGED <<srv, run, posted, canceled, halfway, cancelCh, history, doneCh, ask>>

-----------------------------------------------------------------------------
(* WebInterviewer.                                                         *)

\* Ask up to its select
Ask(r, q) ==
    /\ Up /\ run[r] = "running" /\ ask[r][q].at = "none"
    /\ ask' = [ask EXCEPT ![r][q] = [@ EXCEPT !.at = "parked", !.in = TRUE]]
    /\ UNCHANGED <<srv, run, posted, canceled, halfway, cancelCh, history, doneCh, client>>

\* timer.C
Expire(r, q) ==
    /\ Up /\ ask[r][q].at = "parked" /\ ~ask[r][q].expired
    /\ ask' = [ask EXCEPT ![r][q] = [@ EXCEPT !.expired = TRUE]]
    /\ UNCHANGED <<srv, run, posted, canceled, halfway, cancelCh, history, doneCh, client>>

\* The select of Ask: any of the cases that are ready.
Take(r, q) ==
    /\ Up /\ ask[r][q].at = "parked"
    /\ \/ /\ ask[r][q].full
          /\ ask' = [ask EXCEPT ![r][q] =
                       [@ EXCEPT !.at = "returning", !.result = "answer", !.full = FALSE]]
       \/ /\ ask[r][q].expired \/ cancelCh[r]
          /\ ask' = [ask EXCEPT ![r][q] = [@ EXCEPT !.at = "returning", !.result = "timeout"]]
    /\ UNCHANGED <<srv, run, posted, canceled, halfway, cancelCh, history, doneCh, client>>

\* The deferred delete of Ask.
Forget(r, q) ==
    /\ Up /\ ask[r][q].at = "returning"
    /\ ask' = [ask EXCEPT ![r][q] = [@ EXCEPT !.at = "returned", !.in = FALSE]]
    /\ UNCHANGED <<srv, run, posted, canceled, halfway, cancelCh, history, doneCh, client>>

\* Mutant: the question stays pending until Ask forgets it.
AnswerQuestionKept(r, q) ==
    /\ Up /\ r \in Registered
    /\ ask[r][q].in /\ ~ask[r][q].full
    /\ ask' = [ask EXCEPT ![r][q] = [@ EXCEPT !.full = TRUE, !.taken = ask[r][q].taken + 1]]
    /\ UNCHANGED <<srv, run, posted, canceled, halfway, cancelCh, history, doneCh, client>>

\* handleAnswerQuestion and Answer, when it returns true; the other cases
\* change nothing.
AnswerQuestion(r, q) ==
    /\ Up /\ r \in Registered
    /\ ask[r][q].in /\ ~ask[r][q].full
    /\ ask' = [ask EXCEPT ![r][q] = [@ EXCEPT !.full = TRUE, !.in = FALSE,
                                              !.taken = ask[r][q].taken + 1]]
    /\ UNCHANGED <<srv, run, posted, canceled, halfway, cancelCh, history, doneCh, client>>

-----------------------------------------------------------------------------
(* Runs.                                                                   *)

\* A submit request reaches handleSubmitPipeline.
Post(r) ==
    /\ srv \in {"up", "canceling"}
    /\ posted' = posted \cup {r}
    /\ posted' # posted
    /\ UNCHANGED <<srv, run, canceled, halfway, cancelCh, history, doneCh, client, ask>>

\* Mutant: the context of the run is a child of nothing.
RegisterDetached(r) ==
    /\ Up /\ r \in posted
    /\ posted' = posted \ {r}
    /\ run' = [run EXCEPT ![r] = IF @ = "absent" THEN "running" ELSE @]
    /\ UNCHANGED <<srv, canceled, halfway, cancelCh, history, doneCh, client, ask>>

\* The rest of handleSubmitPipeline: a known id is refused.  The context of the
\* run is a child of s.baseCtx.
Register(r) ==
    /\ Up /\ r \in posted
    /\ posted' = posted \ {r}
    /\ IF r \in Registered THEN UNCHANGED <<run, canceled>>
       ELSE /\ run' = [run EXCEPT ![r] = "running"]
            /\ canceled' = [canceled EXCEPT ![r] = srv = "stopped"]
    /\ UNCHANGED <<srv, halfway, cancelCh, history, doneCh, client, ask>>

\* The engine appends an event and calls its progress sink.
Emit(r) ==
    /\ Up /\ run[r] = "running" /\ history[r] < MaxEvents
    /\ Send(r)
    /\ UNCHANGED <<srv, run, posted, canceled, halfway, cancelCh, doneCh, ask>>

\* RunWithConfig returns, with every branch joined; ps.SetResult.
SetResult(r) ==
    /\ Up /\ run[r] = "running"
    /\ \A q \in Question : ask[r][q].at \in {"none", "returned"}
    /\ run' = [run EXCEPT ![r] = "result"]
    /\ UNCHANGED <<srv, posted, canceled, halfway, cancelCh, history, doneCh, client, ask>>

\* Mutant: the broadcaster is closed before the result is set.
CloseEarly(r) ==
    /\ Up /\ run[r] \in {"running", "result"} /\ (run[r] = "running" => ~doneCh[r])
    /\ run' = [run EXCEPT ![r] = IF @ = "result" THEN "closed" ELSE @]
    /\ doneCh' = [doneCh EXCEPT ![r] = TRUE]
    /\ client' = [c \in Client |-> IF c \in Subscribers(r) THEN Closed(c) ELSE client[c]]
    /\ UNCHANGED <<srv, posted, canceled, halfway, cancelCh, history, ask>>

\* Mutant: the channels of the clients stay open.
CloseSilent(r) ==
    /\ Up /\ run[r] = "result"
    /\ run' = [run EXCEPT ![r] = "closed"]
    /\ doneCh' = [doneCh EXCEPT ![r] = TRUE]
    /\ UNCHANGED <<srv, posted, canceled, halfway, cancelCh, history, client, ask>>

\* The deferred broadcaster.Close
Close(r) ==
    /\ Up /\ run[r] = "result"
    /\ run' = [run EXCEPT ![r] = "closed"]
    /\ doneCh' = [doneCh EXCEPT ![r] = TRUE]
    /\ client' = [c \in Client |-> IF c \in Subscribers(r) THEN Closed(c) ELSE client[c]]
    /\ UNCHANGED <<srv, posted, canceled, halfway, cancelCh, history, ask>>

\* handleCancelPipeline: ps.Cancel, ...
CancelPipeline(r) ==
    /\ Up /\ r \in Registered
    /\ canceled' = [canceled EXCEPT ![r] = TRUE]
    /\ halfway' = halfway \cup {r}
    /\ UNCHANGED <<srv, run, posted, cancelCh, history, doneCh, client, ask>>

\* Mutant: the interviewer is not canceled.
CancelInterviewerNot(r) ==
    /\ Up /\ r \in halfway
    /\ halfway' = halfway \ {r}
    /\ UNCHANGED <<srv, run, posted, canceled, cancelCh, history, doneCh, client, ask>>

\* ... then ps.Interviewer.Cancel.
CancelInterviewer(r) ==
    /\ Up /\ r \in halfway
    /\ halfway' = halfway \ {r}
    /\ cancelCh' = [cancelCh EXCEPT ![r] = TRUE]
    /\ UNCHANGED <<srv, run, posted, canceled, history, doneCh, client, ask>>

-----------------------------------------------------------------------------
(* Shutdown.                                                               *)

\* The signal goroutine calls Shutdown: CancelAll, under the registry's lock.
CancelAll ==
    /\ srv = "up"
    /\ srv' = "canceling"
    /\ canceled' = [r \in Run |-> canceled[r] \/ r \in Registered]
    /\ cancelCh' = [r \in Run |-> cancelCh[r] \/ r \in Registered]
    /\ UNCHANGED <<run, posted, halfway, history, doneCh, client, ask>>

\* httpSrv.Shutdown closes the listener; requests under way go on.
Drain ==
    /\ srv = "canceling"
    /\ srv' = "draining"
    /\ UNCHANGED <<run, posted, canceled, halfway, cancelCh, history, doneCh, client, ask>>

\* s.cancel(), when the requests are over or after 15 seconds
Stop ==
    /\ srv = "draining"
    /\ srv' = "stopped"
    /\ canceled' = [r \in Run |-> canceled[r] \/ r \in Registered]
    /\ UNCHANGED <<run, posted, halfway, cancelCh, history, doneCh, client, ask>>

\* ListenAndServe returned when the listener was closed, and main returns.
Exit ==
    /\ srv \in {"draining", "stopped"}
    /\ srv' = "exited"
    /\ UNCHANGED <<run, posted, canceled, halfway, cancelCh, history, doneCh, client, ask>>

Asks(r, q) == Ask(r, q) \/ Expire(r, q) \/ Take(r, q) \/ Forget(r, q)

Next ==
    \/ \E c \in Client : Subscribe(c) \/ Write(c) \/ Finish(c) \/ Leave(c)
    \/ \E r \in Run : \E q \in Question : Asks(r, q) \/ AnswerQuestion(r, q)
    \/ \E r \in Run : Post(r) \/ Register(r) \/ Emit(r) \/ SetResult(r) \/ Close(r)
                        \/ CancelPipeline(r) \/ CancelInterviewer(r)
    \/ CancelAll \/ Drain \/ Stop \/ Exit

Spec == Init /\ [][Next]_vars

\* Goroutines that can go on do, and a client that does not leave reads what is
\* written to it (there is no write timeout); an engine whose context is canceled
\* returns.  Nothing makes a user answer, a timer fire, a client leave, an engine
\* return by itself, or main return late.
FairSpec ==
    /\ Spec
    /\ \A c \in Client : WF_vars(Write(c)) /\ WF_vars(Finish(c))
    /\ \A r \in Run :
         /\ WF_vars(Register(r)) /\ WF_vars(CancelInterviewer(r))
         /\ WF_vars(canceled[r] /\ SetResult(r))
         /\ WF_vars(Close(r))
         /\ \A q \in Question : WF_vars(Take(r, q)) /\ WF_vars(Forget(r, q))
    /\ WF_vars(Drain) /\ WF_vars(Stop)

-----------------------------------------------------------------------------
(* Properties.                                                             *)

First(n) == [i \in 1 .. n |-> i]

\* Send, unsub and Close never send on a closed channel and close none twice,
\* which would panic the server: the channels in b.clients are the open ones
\* (sse.go:38, 76, 90).
ClientsAreOpen == \A c \in Client : client[c].in = client[c].open

\* A stream replays the history and goes on with what is sent later: no event is
\* lost, repeated or out of order between the replay and the live events, and a
\* client is behind by what its channel holds (sse.go:61-72).
StreamInOrder ==
    \A c \in Client : client[c].at # "none" =>
        LET had == client[c].got \o client[c].chan
        IN  /\ had = First(Len(had))
            /\ client[c].in => Len(had) = history[client[c].of]

\* A stream that the server ends lacks an event only if its client was more than
\* Headroom events behind, and a reader who is told "done" finds the run's
\* result when it asks for it (sse.go:128-139, handlers.go:205, 230).
EndedStreams ==
    \A c \in Client : client[c].at \in {"done", "dropped"} =>
        /\ \/ Len(client[c].got) >= client[c].room
           \/ client[c].at = "done" /\ Len(client[c].got) = history[client[c].of]
        /\ client[c].at = "done" => run[client[c].of] \in {"result", "closed"}

\* A question takes one answer at most, no answer once Ask has returned, and Ask
\* returns an answer only if somebody was told that it was taken; a run that is
\* over has no question pending (interviewer.go:61, 134-144).
QuestionsSettle ==
    \A r \in Run : \A q \in Question :
        /\ ask[r][q].taken <= 1
        /\ ask[r][q].result = "answer" => ask[r][q].taken = 1
        /\ ask[r][q].at = "returned" \/ run[r] \in {"result", "closed"} => ~ask[r][q].in

\* A run that is submitted while the server shuts down, after CancelAll, is
\* canceled all the same, by the base context (handlers.go:184, server.go:160).
StopReachesAll == srv = "stopped" => \A r \in Registered : canceled[r]

\* A run that somebody cancels, or that CancelAll finds, ends, also when it is
\* waiting for people who never answer (interviewer.go:118).
CancelEnds ==
    \A r \in Run : (canceled[r] /\ srv \in {"up", "canceling", "draining"})
                      ~> (run[r] = "closed" \/ srv = "exited")

\* The streams of a run that is over end.
StreamsEnd ==
    \A c \in Client : (client[c].at = "streaming" /\ run[client[c].of] = "closed")
                         ~> (client[c].at # "streaming" \/ srv = "exited")

\* "Shutdown gracefully stops the server and all running pipelines"
\* (server.go:149): no run is cut off by the end of the process.
GracefulStop == srv = "exited" => \A r \in Registered : run[r] = "closed"
=============================================================================
