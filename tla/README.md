# Kilroy's attractor in TLA+

Kilroy runs a directed graph of stages (agents, shell commands, human gates)
against a git worktree. It is meant to be killed and resumed: every completed
stage is committed and checkpointed, and a later process continues from there.
A server runs graphs in goroutines and shows them in a browser. This directory
models the parts whose correctness depends on an order: of writes and crashes
between them, of goroutines, of messages between a page and its workers, and of
processes that meet on disk.

Paths below are relative to `src/internal/attractor/` unless they start with
`cmd/` or `internal/`.

## Inventory

| Component | State | Operations | What makes it correct |
| --- | --- | --- | --- |
| Run ownership lock, `engine/run_ownership_lock.go` | `run.lock.json` in a logs root | acquire, release, take over a stale lock | one live owner; a live owner's record stays on disk; no record of a live process leaks; acquire returns |
| Routing, `engine/engine.go`, `next_hop.go`, `parallel_handlers.go`, `cond` | none | edge selection, fan-in policy, retry targets, search for a join, goal gates | the same choice in the forward path and on resume |
| Run loop, `engine/engine.go`, `loop_restart_policy.go` | current node, outcomes, context, visit and failure counts, restart count | visit, execute, record, checkpoint, route, restart, end | gates, budgets and breakers hold across crashes; it ends |
| Durable state, `runtime/` and git | `checkpoint.json`, `status.json`, `final.json` per logs root; run branch; worktree | atomic replace, commit | checkpoint and commit belong together; `final.json` is true |
| Resume, `engine/resume.go`, `resume_sources.go` | what it restores from the files | find a logs root, restore, route, continue | the resumed run is a continuation of the crashed one |
| Stage retries, `engine/engine.go`, `backoff.go`, `escalation.go` | retry counts, model attributes | attempt, classify, back off, escalate, downgrade | attempts bounded; attributes restored; `status.json` equals the outcome returned |
| Parallel branches, `engine/parallel_handlers.go`, `parallel_policy.go` | a worktree and branch per edge, results | dispatch, run, join policy, pick a winner, fast-forward | all branches end before the join; only the winner reaches the run branch |
| Concurrent regions, `engine/concurrent.go` | a goroutine per branch, shared context and maps | split, run branches, fail fast, join | the join waits for all; a failure is never joined as a success; nobody is canceled without a cause |
| Loop primitive, `engine/loop.go` | iteration counters in engine and context | iterate, jump back, stop | at most the declared number of iterations |
| Stall watchdog, `engine/engine.go`, `progress.go` | time of the last progress | tick, cancel | an idle run is ended |
| CXDB sink, `engine/cxdb_*.go`, `internal/cxdb` | turns of a context | append events and artifacts | the last checkpoint can be found |
| Run database, `rundb/` | rows of runs and nodes | start, complete, reconcile, prune | a finished run is not "running" for ever, nor a running one "interrupted" |
| HTTP server, `internal/server/*.go` | run registry, pending questions, event history and subscribers | submit, cancel, ask, answer, subscribe, shut down | a stream is the history in order; a question takes one answer; canceled runs and their streams end |
| Dashboard, `internal/server/ui/index.html` | the view shown, the run it last heard of, requests under way | open, poll, cancel, draw, leave | a pane shows its own run's newest graph |
| Graph drawing, `internal/server/ui/viz.js`, `viz-render.js` | worker, request ids, listeners | post, answer, settle, replace the worker | every call is answered once, with its own drawing |
| Agent session, `internal/agent` | turns, tool calls, queue of follow-ups | loop over model and tools, steer, abort | every tool call gets a result; abort ends it |
| LLM clients, `internal/llm` | streams, retry state | retry, stream, close | bounded retries; a stream ends once |
| Stop, detach, status, `cmd/kilroy`, `runstate/` | `run.pid`, `stop_request.json` | signal, wait, persist an outcome | the right process is signalled |
| Parsing, validation, stylesheet, model database, ingest, review | none shared | pure or one-shot | unit tests fit better than a model |

How they interact: `run` and `resumeFromLogsRoot` acquire the ownership lock of
one logs root and call `runLoop`. `runLoop` calls a stage, the stage writes
`status.json`, `checkpoint` commits to the run branch and then replaces
`checkpoint.json`, then CXDB is told. The routing rules pick the next node.
A `loop_restart` edge opens `restart-k` below the base logs root. The end of a
run writes `final.json` into both roots and then the run database. Another
process finds the checkpoint through CXDB, the branch name or a path, restores
what the files hold and calls `runLoop` again.

Inside `runLoop`, `executeWithRetry` repeats a stage, and a `concurrent.split`
hands control to one goroutine per branch until all are back. The stall watchdog
is a goroutine beside the loop that cancels its context. In the server, a run is
a goroutine that calls the engine; events go to a `Broadcaster` that HTTP
handlers read from, human gates wait in a `WebInterviewer` that HTTP handlers
answer. The page polls the server and hands graphs to a web worker.

What is hard: a crash between any two of these writes; the second copy of the
routing code in `resume.go`; files of one visit read by another; restart
directories that nothing clears; a lock that is judged and then removed by path; a slow
reader of a stream that still grows; an answer that races its own timeout; a
worker that one bad graph spoils for the good one behind it; a branch that fails
while its siblings run; a stage that hangs.

## Modules

| Module | Models |
| --- | --- |
| `RunOwnership` | the lock, one system call per step, for any runners and processes |
| `Routing` | the pure routing rules as operators on a graph record |
| `RunLoop` | `runLoop`, `checkpoint`, `loopRestart`, `persistTerminalOutcome`, crash, cancellation, resume |
| `Walk` | abstract specification: the checkpoints are one walk through the graph |
| `RunHistory` | two history variables no code reads, the properties that hold, the refinement of `Walk` |
| `RunClaims` | sentences of the documents that resume does not keep |
| `StageRetry` | the decisions of `executeWithRetry` as operators |
| `Region` | a concurrent region, the attempts of its stages, the watchdog, cancellation |
| `PipelineServer` | registry, broadcaster, interviewer, cancellation and shutdown of the server |
| `Rendering` | abstract specification: what drawing a graph promises the page |
| `Viz` | the page's and the worker's side of drawing; the refinement of `Rendering` |
| `Dashboard` | the run page over `Viz`: views, requests and answers that overtake each other |
| `*Proofs` | the theorems about the module they are named after |
| `MC*` | the instances for TLC |

`RunLoop` extends `Routing`; `RunHistory` extends `RunLoop` and instantiates
`Walk`; `RunClaims` extends `RunHistory`; `MCRun` extends `RunClaims`.
`RunLoopProofs` extends `RunHistory` and `RoutingProofs`, and `RunHistoryProofs`
extends `RunLoopProofs`; `DashboardProofs` extends `VizProofs`. `Region` extends `StageRetry`. `Dashboard` extends
`Viz`, which instantiates `Rendering`; every step of `Dashboard` is a step of
`Viz` or leaves its variables alone (`PageDraws`), so the runs of `Dashboard`
check `Viz` too.

### RunOwnership

A *runner* is one call of `acquireRunOwnership` with the release function it
returns. Several runners may share a process, because the server runs graphs in
goroutines, so `PidOf` maps runners to pids. `lock` is the file at the path.
Create, write and close are three steps, as are read, judge and remove, because
other runners act between them. The file carries two ghost fields, `by` and
`life`, that name its creator; no guard reads them. `Die` and `Spawn` end a
process and give its pid to a new one with a later start time. `theft` records
that a remove by path hit a file other than the one that was judged.

### RunLoop

Three kinds of state, as in the code: `e`, `cause` and `verdict` are the
variables of a process and vanish in a crash; `checkpoint`, `status`, `final`,
`roots`, `pointer`, `rundb` are durable; `head` and `dirty` are the run branch
and the worktree. `pc` marches through the durable effects of one visit:

    enter -> stage -> record -> commit -> save -> announce -> route -> enter ...
                                  persist -> persist_base -> complete -> ended

Each arrow is one action with a crash possible before and after it. `RouteHop`,
`RouteEnd`, `RefuseRestart` and `LoopRestart` act on `Decide`, the cases of
lines 923 to 1073 of `engine.go` in their order. The four `Resume...` actions
are the four ways out of `resumeFromLogsRoot`: an error before there is an
engine, an error after, nothing to do, and `runLoop`. Resume uses the same
`Decide`: its lines 344 to 460 have the same cases in the same order, with the
one difference that a restart edge is followed like any other.

A graph is data of the model: nodes with their kind, gates and retry targets,
edges with the set of outcomes their condition holds for. An outcome is its
status, failure class, preferred label, suggested ids and whether it sets
`parallel.join_node`. The cycle breaker counts a failure under the node and its
class, deterministic or structural; only the first of these bars the retry target.
The code's signature also holds the message of the failure, which the model leaves
out: it counts two different messages as one. `FreshGit` is the set of answers to
whether a fresh run finds a repository, without which it commits nothing and its
checkpoints name no commit.

### Walk

What a user relies on: read in order, the announced checkpoints are a path that
the routing rules allow, each node completed once for each time it appears, no
matter how many processes it took. `RunHistory!WalkSpec` maps `last` to the
node of the checkpoint CXDB points to, `out` and `seen` to the outcomes last
checkpointed in that root, `join` to the checkpointed context key. A step of
`RunLoop` that writes a checkpoint to that root, or announces the first one of a
new root, is a step of the walk; every other step, crashes and resumes included,
stutters. It is model-checked (`WalkSpec`) and proved (`RunIsAWalk`).

### Region and StageRetry

`at` is where the goroutine of a branch stands. A step runs to the next place
where the code waits: `Top` to the handler of a stage, `Finish` or `Unhang` from
the handler to the backoff timer or out of `executeWithRetry`, `Wake` from the
timer to the handler, then `AfterStage`, and `Leave`, the goroutine's last lines.
`Judge` is the body of the retry loop after an attempt, and calls the operators
of `StageRetry` in the order of the code. `status` is what `status.json` holds.

A result of an attempt is told apart only as far as the loop does: success, a
success whose declared outputs are missing, a failure that may be retried, one
that may be retried on another model, one that may not. The watchdog's clock is
abstracted to `recent`: was there progress since it looked. `Hang` is a handler
that returns only when its context is done; there is no fairness on it.

Branches are disjoint chains of stages. If branches met before the join, the
shared stage would run twice at once in one directory; that is listed among the
hazards and not modelled. `split` is chosen at the start, so one run looks at
strict and partial splits and at branches that do not reach the join; such a
branch fails right after its last stage.

A region works on the maps of the main loop, so `before`, chosen from `Carried`, is
what earlier visits of the stages left in them. `retries` is `nodeRetries`, `key`
the context keys `internal.retry_count.<node>` that a checkpoint stores.

### PipelineServer

A step is one critical section, one select or one channel operation. `run[r]`
is the goroutine of a submitted run: in the engine, after `SetResult`, after
`broadcaster.Close`. Submitting takes two steps, `Post` and `Register`, because
shutdown can fall between. A client's channel is a sequence with its capacity
`room`; `in` says that it is in `b.clients`, `open` that it is not closed, and
`Send`, `Leave` and `Close` change them separately or together as the code does.
`Ask` is four steps: park, timer, select, deferred delete; the select takes any
case that is ready. `srv` follows `Shutdown`, and `Exit` is main returning, which
the code allows as soon as the listener is closed. A client may subscribe while
`Shutdown` waits, by a request that was accepted before. A cancel request cancels
the run's context and then its interviewer, in two steps; `CancelAll` is one step,
though it is a loop over the runs that does both to each.

### Viz and Dashboard

Two threads and two queues for each `Viz` object. A `Viz` is replaced when a
call fails, and the old one's calls stay under way. `Load` lets a worker's script
fail to load, which nobody hears of. That a worker which refused one graph may
refuse any later one is taken from the comment in `GraphRenderer.render`; the
worker's Graphviz is not modelled. `viz.js` is vendored; it is here because the
run page rests on its ids and listeners.

`Dashboard` numbers views in the order they are shown. `asked` is a set of
requests, so answers arrive in any order; a request is read by the server in
`Serve` and answered later. `pane` is the drawing a view shows. `Redraw` stands for
everything that draws a view's graph again without asking the server: a node or
the run log is chosen, or the timer of the run log ticks.

`Rendering` has neither workers nor messages: a call is answered once, with the
drawing of its own source or a failure, and it may fail only when its own graph
is bad or when it was asked for while a bad one was waiting. `Viz!Seen` is the
refinement mapping: it hides the object and the id of each call.

## Runs

All bounds are constants of the model. `MaxCrashes`, `MaxResumes` and
`MaxCancels` bound the environment of a run, `MaxStart` and `MaxFaults` the reuse
of a pid and failing writes, `MaxEvents` the events of a run, `MaxCalls`,
`MaxViews` and `MaxRequests` the user of the page. Visit, signature, restart,
retry and channel limits are parameters of the program itself.

| Run | Question | Bounds and why they are enough |
| --- | --- | --- |
| `ownership` | lock properties, `AcquireReturns` | 3 runners in 2 processes, 2 attempts, each pid reused once, one failing write: the smallest set with a shared process, a stale lock, a taker and a third party |
| `gates` | gate retries under crashes | two resumes let a crash fall on a resumed run; visit limit 4 lets a gate be retried twice |
| `restarts` | budgets and breakers under restarts, with and without git on resume | two restarts, so that a resume can restart again; signature limit 4, one more than the visits of one pass |
| `fans` | implicit and explicit fan-out | a fan-in that goes back to the fork on a structural failure and ends the run on a deterministic one, a parallel node that may dispatch nothing; with and without a repository; signature limit 3, so that failures of two classes add up to more than the limit of one |
| `region` | retries, escalation, fail-fast, watchdog | two branches, one of two stages, so that a sibling can fail before, during and after a stage; four attempts and a budget of one failure per model, so that an agent is escalated and fails again; a tool and a stage with `allow_partial`; all splits; two stages may hang; a first visit, and one after a visit that left a count of one (a failed stage) and a stale key (one that succeeded) |
| `server` | streams, questions, cancellation, shutdown | one run, because runs share nothing but the registry's lock; two clients, one slow and one not; headroom 1 and two events, so that a channel fills, with and without a replay; one question |
| `dashboard` | drawing and the run page | three calls: a bad graph, one behind it and one on the fresh worker; two views, a run of this server whose graph can be drawn and a run of the command line whose graph cannot; two requests, so that one can overtake the other |
| `claim_*` | one sentence each that the code does not keep | as the passing runs; the counterexamples are short |

`CHECK_DEADLOCK FALSE` everywhere: a run that ended and may not be resumed any
more, a runner that returned, a region that was joined, a server that exited and
a user with no views left are meant to stop.

Fairness, by run:

* `RunTerminates`: `WF_vars(Engine)` says that a process that is not killed goes
  on and that a stage which started ends. The code gives a stage a timeout when
  the node or `StageTimeout` sets one; where neither does, only the watchdog of
  a fresh run ends an idle stage. Crash, cancel and resume are not fair.
* `AcquireReturns`: the steps of each runner inside the two functions, which are
  plain code without blocking calls.
* `RegionReturns`: goroutines go on, timers fire, the watchdog looks again and
  again; a handler that hangs gets none. It holds because `StallTimeout` is
  TRUE: a resumed run starts no watchdog (`engine/resume.go` never calls
  `runStallWatchdog`) and would wait for ever.
* `CancelEnds`, `StreamsEnd`: goroutines go on, and an engine whose context is
  canceled returns once its questions have. `WF_vars(Write(c))` also says that a
  client which does not leave reads what is written to it: the server sets no
  write timeout (`server.go:86`), so one that keeps its connection and never reads
  holds up its own handler for ever, and `StreamsEnd` promises it nothing. No
  fairness of users, of clients that leave, of the timer of a question, of an engine
  that nobody canceled, or of `Exit`.
* `EveryCallSettles`: a browser goes on running handlers. A worker whose script
  never loads answers nothing, so calls sent to it are excepted.

What the runs show:

* `GateSoundness`: a run that ends well at an exit has no gate whose last
  checkpoint in this root failed, on a graph that retries the gate from a node
  before it; what graphs it holds for in general is `GatesRetriedElsewhere` (see
  Proofs). `claim_gate` checks a like formula on a graph whose gate is its
  own retry target and refutes it: a crash while the gate is attempted again
  leaves it without a status file, and the resumed run takes it for a node that
  was never reached.
* `BreakerNeverForgets`: a failure the breaker counts is in the count of every
  later process once its checkpoint was announced.
* `RestartsCounted`, `TypeOK`: the count in a checkpoint is the number of its
  root; no root past the budget is ever used.
* `CommittedCode`: checkpoint and commit belong together. `ResumeGit` is a set:
  the code's own callers give resume no git operations, and `restarts` looks at
  both.
* `SuccessIsFinal`: a success in the base root's `final.json` is true.
* `WalkSpec`, `RunTerminates`: as above.
* `StatusIsOutcome`, `EscalationEarned`: whichever way a stage ends, its file and
  its model agree with what the branch goes by.
* `RetriesCounted`: over the visits of a stage, its count in `nodeRetries` goes on
  from what earlier visits left, counts each attempt but the first once, and begins
  anew with a success only; the context key follows the count at each retry and at
  no other time, so a success leaves it as it was, as
  `retry_count_context_test.go:136-143` demands.
* `CancelHasCause`, `JoinedMeansAll`: fail-fast never turns into branches that
  cancel each other, and a join is of complete branches.
* `StreamInOrder`, `EndedStreams`, `ClientsAreOpen`: replay and live events meet
  without a gap or a repetition, whoever is dropped was really behind, and the
  three places that close a channel never meet.
* `QuestionsSettle`, `StopReachesAll`: one answer, none too late; a submit that
  slips past `CancelAll` is still canceled by the base context.
* `ListenersMatchMessages`, `RendersAsPromised`, `PaneInStep`: ids, messages and
  listeners stay in step while workers are replaced.

### Divergences

Where a document or a comment and the code part. Those with a run are findings:

| Run | Says | The code |
| --- | --- | --- |
| `claim_second_crash` | a crash resumes from the last checkpoint | not from a checkpoint saved by a resumed run |
| `claim_gate` | a gate must succeed before the exit | a crash during its retry forgets it |
| `claim_lock` | a live owner cannot be displaced | two contenders for a stale lock can both win |
| `claim_shutdown` | Shutdown stops all running pipelines gracefully | the process exits without waiting for them |
| `claim_canceled` | a run canceled from outside is `canceled` | it is `fail` in a region, after a signal and over HTTP |

Read off the code while modelling, without a run:

* A resume resets the worktree (`kilroy-metaspec.md`): no caller gives it git
  operations, so it never does.
* A restart has a fresh log directory: not when a resume follows the edge.
* Unconditional edges are not used for failed fan-ins: they are fanned out when
  they converge (`engine.go:939` is before the fan-in policy).
* A success resets the failure tracker (comment, `engine.go:816`): nothing does.
* Escalation counts consecutive failures (comment, `engine.go:1457`): a
  transient failure in between does not reset the count.
* "retries exhausted, partial accepted" (`engine.go:1639`) is also the note of a
  failure that was never retried; "Fall through to the retry logic"
  (`engine.go:1519`) retries a missing output only for tool nodes.
* A stage that fails, or is accepted as partial, after it was retried keeps its count
  in `nodeRetries` (only `engine.go:1532` resets it), so a later visit counts on
  from there: its count is not the number of retries of that visit, and may exceed
  `max_retries`. The attempts themselves are counted afresh.
* The context key of a stage is set to its count when `runLoop` begins a visit
  (`engine.go:684`), but not when a branch of a region does: there it is still the
  one of the visit before during the first attempt, also when that visit succeeded
  and the count is zero.
* `Answer` reports success for an answer that `Ask` drops when its timer or a
  cancellation is ready at the same time.
* A slow client that was dropped is told "done" when the run ends before its
  channel is drained (`sse.go:132`; the comment says such a client is
  disconnected silently).
* A poll's answer that is overtaken by the terminal one leaves the page with a
  running run that nobody asks about again (`index.html:1941`).

## Proofs

`RunOwnershipProofs` proves, for every set of runners and processes, every
attempt limit, with and without `/proc`, from `OwnershipAssumption` alone:
`TypeCorrect`, `Exclusion`, `OwnerIsOnDisk`, `NoLeak`.

The argument. Mutual exclusion is not inductive. `IInv` adds: files tell the
truth about their creator (`FilesHonest`); what a runner is about to remove was
created in a process life that is over (`RemoverIsRight`); a runner between
write and unlink has its own file at the path (`HolderHasLock`). A remover can
hit a holder's file only as a theft: without one, the file at the path is the
one it judged, whose creator's life is over, whereas a holder's process is
alive (`HoldersLive`). `LiveRecordIsHeld` is the converse and gives `NoLeak`:
any record of a life that goes on has a holder.

`RoutingProofs` assumes a graph as the validator accepts it (`IsGraph`: finite,
edges between nodes, retry targets that exist; of the last the validator only
warns) and an order of node ids that tells them apart. `EligibleEdges`: the
selection returns edges out of the node, and some whenever there are any.
`DecisionType`: a decision ends the run or names a node. The work is in showing
that the engine's sort orders are total on their candidates, by
`LeastOfFinite`, so that "the best edge" and "the nearest join" exist in every
graph. `BestEdgeUnique` says which edge: only one
sorts before all others, so the pick does not depend on the sort being stable
(edges carry the number of their declaration, which tells them apart).
The theorems about the searches of the graph are
stated by walks (`Path`) alone. `WithinIsDistance`: round k of a breadth-first
search has met exactly the nodes a walk of at most k edges leads to.
`ReachableIsAll`: as many rounds as there are nodes are enough, so `Reachable`
has every node that any walk leads to; a round that meets nothing new is the last
(`SearchCloses`). `JoinIsNearest`: the join of a fan-out is a fan-in all branches
reach, else a node strictly below all of them, and there is none only if the graph
has neither; of the candidates it has the least largest distance from a branch,
then the least sum of distances, then the first name. Both searches recurse, and
the induction theorems of the library take an operator no prover here can
instantiate. `UpTo` is induction up to a given number by a least counterexample
in a finite set, and `Iterates` gives from it that the recursive function exists.

`RunLoopProofs` proves `TypeOK`, `CommittedCode` and `RestartsCounted` from
`RoutingAssumption` and `RunAssumption`, for every graph, every limit, all three
ways to find the root to resume and unbounded crashes and resumes (the bounds
are ordinary constants there). The files alone are not inductive: a checkpoint
is written from the engine's variables and these are restored from a
checkpoint. `IInv` adds the same facts about the engine: `ShaOfNode` between
commit and save, `RootIsRestarts` while it runs, and `StageReturned`, without
which `parallel.join_node` would have no type.

`RunStepsAreFew` is the part of `RunTerminates` that needs no fairness: with a
visit limit, on every graph and whatever the stages return, each step of the
engine lowers `StepsAhead`, a cancellation leaves it, and it is always below
`(max_restarts + 1) * (nodes * max_node_visits + 1) * 11`. It adds up three
budgets, where one unit of an earlier one outweighs what it frees of the later:
restarts left; visits left, since `nodeVisits` begins anew in each loop; points
up to the end of the visit. Only a resume, a new engine, begins to count anew.
`max_node_visits` is needed: by default it is 0
(`loop_restart_policy.go:20`), which sets no limit, and then a cycle of successes
goes on for ever. What is left to TLC is that the engine always has a step.

`RunHistoryProofs` proves four properties for every graph under
`ResumeFrom = "cxdb"`. That hypothesis is needed: a resume of an older root, as
`Resume` and `ResumeFromBranch` allow, takes older counts and may run again after
a success. They also use `CheckpointAssumption`: a checkpoint that is not there
differs from all that are.

* `FailuresAreKept` (`BreakerNeverForgets`), by an order of writes
  (`CountedFirst`, `SavedCounts`, `PointerCounts`).
* `SuccessIsTrue` (`SuccessIsFinal`), for graphs with `ExitsEnd`, which the
  validator and the exit handler give. `OnDisk` says that the outcome the engine
  routes by is the one a resume would read (`OutcomeOnDisk`, `RouteOnDisk`);
  after a success that outcome leads nowhere (`Finished`).
* `GatesHold` (`GateSoundness`), for graphs with `GatesRetriedElsewhere`: no gate
  follows itself, is retried at a gate, or is a terminal node. A resume rebuilds
  the outcomes of the gates from status files, and an attempt that was cut short
  has changed its file without a checkpoint. `GatesRestorable` says that this
  can be wrong for one gate only, the one the resumed run attempts next, and that
  the run was not left at it: then the engine knows every gate but the one it is
  at (`GateLeg`), and has no gate to learn about when it stands at a terminal
  node. Without the hypothesis this breaks down: `claim_gate` is a gate
  retried at itself.
* `RunIsAWalk` (`WalkSpec`), the refinement of `Walk`, for graphs with
  `RetriedElsewhere`: no node at all follows itself, directly or by way of a
  terminal node with an unsatisfied gate. On its way from one announced checkpoint
  to the next the engine may be at any of the nodes the routing rules allow from
  there (`Landings`), with the join (`Carried`) and the nodes done (`DoneBefore`)
  it set out with (`Underway`); a resume sets out in the same way, since the
  status file it routes by is not one of those that attempts since then have
  touched (`Open`, `Restorable`). The hypothesis is needed here too: a node with
  an edge to itself, cut short while it is attempted again, is resumed by the
  outcome of an attempt that was never checkpointed, and TLC finds the run that
  leaves the walk. The validator refuses no such graph. Each instance of `MCRun`
  but that of `claim_gate` is checked against the hypotheses (`InstanceRetries`).
  `WalkEndsPastGates` carries the invariant of `Walk` over to the run: an
  announced checkpoint of a terminal node has only satisfied gates behind it.

`PipelineServerProofs` proves every invariant of the `server` run, for any runs,
clients, questions, event counts and headroom, from `ServerAssumption`. Two
strengthenings carry it. `StreamInOrder` needs to know what a stream has lost:
a client in `b.clients` has the whole history, one that was closed as slow had
its channel full when it was, and one closed by the end of the run has all of
it. `EndedStreams` follows from these by counting what was written and what is
still in the channel. `QuestionsSettle` needs the life of a question: what is in
`pending` was not answered, a full channel was answered once, a run that is over
has none parked.

`RegionProofs` proves every invariant of the `region` run, for any stages,
chains, retry limits, escalation chains and splits, from `StageAssumption` and
`RegionAssumption`. `EscalationEarned` is not inductive because it forgets the
failures of the model in use; the strengthening counts
`idx * (RBE + 1) + fails <= caps`. `RetriesCounted` is proved for whatever counts and
keys the region is called with, of which it only assumes that a count is zero or
that of its key, as every visit before leaves it. It and `StatusIsOutcome` lean on
the chains being disjoint, so that a step of one branch leaves every stage of
the others alone. `CancelHasCause` needs that `failFast` itself was caused by a
branch that failed by itself: canceled siblings never are the first. `JoinedMeansAll`
needs the same of every stage a branch has passed. `BranchesComeToAnEnd` is
the part of `RegionReturns` without fairness: each step of a branch leaves it
fewer stages, or as many and fewer tries, or as many and fewer places to the end of
the try, and no step of a sibling, the watchdog or the run moves it back. So no
retry, escalation or cancellation keeps a branch going; that it goes on at all,
out of a handler that hangs above all, is liveness.

`VizProofs` proves the refinement of `Rendering`, `ListenersMatchMessages` and
`TypeOK` from `VizAssumption`, for any sources and any number of calls. The ids
under way form an interval that grows at one end and shrinks at the other
(`Match`), and each message belongs to a call that waits (`Heard`, `Mail`). The
hard step is a failure of a good graph: `Blamed` names a bad graph the same
worker was given before, and `Rendering` wants one the later call was waiting
behind. They agree because a failure replaces the `Viz`: a call that shares its
worker with an earlier one was made while that one was waiting or was drawn
(`Ordered`). The type invariant counts failures (`Counted`), since the page may
not need more objects than there are.

`DashboardProofs` adds the page: `PageDraws`, that every step of the page is a
step of `Viz` or leaves it alone, by which the theorems of `VizProofs` hold of
the page; `DashTypeOK`; and `PaneInStep`. The last needs which view each call
draws for (`Purpose`, `Panes`) and that, while no graph failed, there is one
worker, whose drawings arrive in the order they were asked for.

Every invariant and every action property of the passing runs is a theorem. Only
checked by TLC is liveness, which is out of the prover's reach, as is the ENABLED
that fairness is about: `RunTerminates`,
`AcquireReturns`, `RegionReturns`, `CancelEnds`, `StreamsEnd`,
`EveryCallSettles`.

## Not modelled

Listed in `PROJECT.json` with reasons, per component. Within what is modelled:

* `RunLoop`: the loop and concurrent primitives; what branches of a git fan-out
  do between dispatch and join; all attempts of a stage are one step (`Region`
  has them); failing writes of checkpoints and CXDB events; conditions on context
  keys other than outcome and class; validation of paths and configuration on
  resume; the lock (one process at a time is what `RunOwnership` is for).
* `Region`: branches that share a stage, custom outcomes, handlers that run once
  without retries, node timeouts, the files of earlier attempts, checkpoints.
  `nodeRetries` and `nodeOutcomes` are Go maps that branches write without a
  lock; each branch writes its own keys here, and what the race does to the map
  itself is left out.
* `PipelineServer`: read-only requests, prefixes of run ids, cancellation of a
  run of another process, events that do not encode.
* `Dashboard`: lists, header, sidebar, panel, failed requests, the event stream
  (the page tests for event names the engine does not send). `Viz`: Graphviz,
  image files, the synchronous wrapper.

Further hazards that no property covers: a resume by branch that takes the base
root although a later checkpoint is in `restart-k`; a resume with nothing to do
that leaves no `final.json`; branch names of a fan-out that are reused after a
resume (`engine.go:308`); a CXDB error after the exit node's checkpoint
(`engine.go:737`); two resumes that lock different roots over one worktree
(`resume.go:101`); a branch cycle without visit limit (`concurrent.go:191`); an
answer that names no option of a gate and selects the first (`human_gate.go:88`);
a run that fails before its first database row and is then not found
(`handlers.go:241`); a click on a graph that is looked up in the list of an older
render (`index.html:1260`).

What could be added: regions and the loop primitive inside `RunLoop`, with resume;
the workers, winner and merge of a git fan-out; `RunLoop` with two processes under
`RunOwnership`; the run database with its reconciliation.
