------------------------------ MODULE RunLoop ------------------------------
(***************************************************************************)
(* One run of a graph: runLoop, checkpoint, loopRestart and the terminal   *)
(* outcome (engine.go), crashes, and resumeFromLogsRoot (resume.go).       *)
(*                                                                         *)
(* A run keeps its state in three places.  The engine's variables die with *)
(* the process.  Each logs root, the base root 0 and restart-k for the     *)
(* k-th loop restart, holds checkpoint.json, one status.json per node and  *)
(* final.json.  The run branch has one commit per completed node.          *)
(*                                                                         *)
(* A step is one durable effect or one decision between two of them, so    *)
(* that a crash can fall between any two writes.  All attempts of          *)
(* executeWithRetry are one step: a failed attempt leaves the same files   *)
(* as a failed stage.  A commit is named by the node it was made for.  A   *)
(* failure signature is the node and the class of its failure.  Graph has  *)
(* no loop and no concurrent nodes; what a parallel node's branches do is  *)
(* left out.                                                               *)
(***************************************************************************)
EXTENDS Routing

CONSTANTS
    Graph,          \* the graph, with the fields Routing names
    Start,          \* findStartNodeID
    Terminal,       \* the nodes isTerminal holds for
    Outcomes,       \* by node, the outcomes its stage can have
    Canceled,       \* the outcome canceledOutcomeForRetry makes
    NoCheckpoint,   \* no checkpoint.json
    VisitLimit,     \* max_node_visits, 0 when it is not set
    SignatureLimit, \* loop_restart_signature_limit
    MaxRestarts,    \* max_restarts
    FreshGit,       \* is a fresh run in a git repository
    ResumeGit,      \* may ResumeOverrides.GitOps be set; no entry point sets it
    ResumeFrom,     \* how the logs root to resume is found: see Resumable
    MaxCrashes,     \* bound: crashes
    MaxResumes,     \* bound: resumes
    MaxCancels      \* bound: cancellations

ASSUME RunAssumption ==
    /\ IsGraph(Graph)
    /\ Start \in Node
    /\ Terminal \subseteq Node
    /\ VisitLimit \in Nat
    /\ SignatureLimit \in Nat \ {0}
    /\ MaxRestarts \in Nat
    /\ \A n \in Node : \A o \in Outcomes[n] : o.join \in AnyNode /\ o # NoOutcome
    /\ FreshGit \subseteq BOOLEAN
    /\ ResumeGit \subseteq BOOLEAN
    /\ ResumeFrom \in {"cxdb", "branch", "logs"}

VARIABLES
    pc,          \* where the engine stands; "down" and "ended": it is gone
    e,           \* the engine's variables
    cause,       \* the outcome that the cause of its context makes, once it is done
    verdict,     \* the terminal outcome it is about to write
    checkpoint,  \* checkpoint.json of each logs root
    status,      \* status.json of each node in each logs root
    final,       \* the status in final.json of each logs root
    roots,       \* the logs roots that exist
    pointer,     \* the logs root of the last CheckpointSaved event in CXDB
    rundb,       \* the status column of the run database
    head,        \* the commit at the head of the run branch
    dirty,       \* the worktree has changes that are not committed
    crashes, resumes, cancels

files == <<checkpoint, status, final, roots, pointer, rundb>>
work == <<head, dirty>>
counts == <<crashes, resumes, cancels>>
vars == <<pc, e, cause, verdict, files, work, counts>>

Root == 0 .. MaxRestarts
NoSha == NoNode
Gone == {"down", "ended"}
Point == {"enter", "stage", "record", "commit", "save", "announce", "route",
          "persist", "persist_base", "complete"} \cup Gone
NoCounts == [n \in Node |-> 0]
NoStatus == [n \in Node |-> NoOutcome]

\* The failures the cycle breaker counts, those of isSignatureTrackedFailureClass.
Breaking == {"deterministic", "structural"}
Signature == Node \X Breaking
NoSigs == [s \in Signature |-> 0]

FreshEngine ==
    [cur |-> Start, root |-> 0, fresh |-> TRUE, git |-> TRUE,
     out |-> NoOutcome, done |-> {}, seen |-> NoStatus, visits |-> NoCounts,
     loopSigs |-> NoSigs, restartSigs |-> NoCounts, restarts |-> 0,
     join |-> NoNode, sha |-> NoSha]

\* The engine of a fresh run, with git operations when there is a repository.
Started(git) == [FreshEngine EXCEPT !.git = git]

AnyOutcome == (UNION {Outcomes[n] : n \in Node}) \cup {Canceled, NoOutcome}
Counts == [Node -> Nat]
SigCounts == [Signature -> Nat]
EngineVars ==
    [cur : Node, root : Root, fresh : BOOLEAN, git : BOOLEAN, out : AnyOutcome,
     done : SUBSET Node, seen : [Node -> AnyOutcome], visits : Counts,
     loopSigs : SigCounts, restartSigs : Counts, restarts : Root,
     join : AnyNode, sha : AnyNode]
Checkpoint ==
    [node : Node, done : SUBSET Node, sha : AnyNode, join : AnyNode, restarts : Root,
     restartSigs : Counts, loopSigs : SigCounts]

\* A file that is not there is told apart from every file that is.
ASSUME CheckpointAssumption == NoCheckpoint \notin Checkpoint

\* The engine works in a logs root that the restart budget allows, its limits
\* count what they should, and the files hold what the types say.
TypeOK ==
    /\ pc \in Point
    /\ e \in EngineVars
    /\ cause \in {"none", "canceled", "fail"}
    /\ verdict \in {"none", "success", "fail", "canceled"}
    /\ checkpoint \in [Root -> Checkpoint \cup {NoCheckpoint}]
    /\ status \in [Root -> [Node -> AnyOutcome]]
    /\ final \in [Root -> {"none", "success", "fail", "canceled"}]
    /\ roots \subseteq Root
    /\ pointer \in Root
    /\ rundb \in {"running", "success", "fail"}
    /\ head \in AnyNode
    /\ dirty \in BOOLEAN
    /\ crashes \in Nat /\ resumes \in Nat /\ cancels \in Nat

Init ==
    /\ pc = "enter"
    /\ \E git \in FreshGit : e = Started(git)
    /\ cause = "none"
    /\ verdict = "none"
    /\ checkpoint = [k \in Root |-> NoCheckpoint]
    /\ status = [k \in Root |-> NoStatus]
    /\ final = [k \in Root |-> "none"]
    /\ roots = {0}
    /\ pointer = 0
    /\ rundb = "running"
    /\ head = NoSha
    /\ dirty = FALSE
    /\ crashes = 0 /\ resumes = 0 /\ cancels = 0

\* The engine is about to write a terminal outcome.
Conclude(result) ==
    /\ pc' = "persist"
    /\ verdict' = result

-----------------------------------------------------------------------------
(* runLoop, from the top to the end of the stage *)

\* Mutant: the visit is not counted.
VisitedUncounted == e.visits

\* nodeVisits is only looked at when a limit is set.
Visited == IF VisitLimit = 0 THEN e.visits ELSE [e.visits EXCEPT ![e.cur] = @ + 1]
Done == cause # "none"
Stuck == VisitLimit > 0 /\ Visited[e.cur] >= VisitLimit
GatesToRetry == IF e.cur \in Terminal THEN FailedGates(Graph, e.seen) ELSE {}

EnterCanceled ==
    /\ pc = "enter"
    /\ Done
    /\ Conclude(cause)
    /\ UNCHANGED <<e, cause, files, work, counts>>

EnterStuck ==
    /\ pc = "enter"
    /\ ~Done
    /\ Stuck
    /\ Conclude("fail")
    /\ UNCHANGED <<e, cause, files, work, counts>>

\* A terminal node with an unsatisfied gate: jump to the gate's retry target.
GateRetry ==
    /\ pc = "enter"
    /\ ~Done /\ ~Stuck
    /\ \E gate \in GatesToRetry :
          LET target == ResolveRetryTarget(Graph, gate)
          IN  IF target = NoNode
              THEN Conclude("fail") /\ UNCHANGED e
              ELSE /\ e' = [e EXCEPT !.cur = target, !.visits = Visited]
                   /\ UNCHANGED <<pc, verdict>>
    /\ UNCHANGED <<cause, files, work, counts>>

\* archivePriorVisitDir and executeNode take the status of an earlier visit away.
StartStage ==
    /\ pc = "enter"
    /\ ~Done /\ ~Stuck
    /\ GatesToRetry = {}
    /\ e' = [e EXCEPT !.visits = Visited]
    /\ status' = [status EXCEPT ![e.root][e.cur] = NoOutcome]
    /\ pc' = "stage"
    /\ UNCHANGED <<cause, verdict, checkpoint, final, roots, pointer, rundb, work, counts>>

\* The handler returns; executeNode writes status.json.
EndStage ==
    /\ pc = "stage"
    /\ \E o \in Outcomes[e.cur] :
          /\ e' = [e EXCEPT !.out = o]
          /\ status' = [status EXCEPT ![e.root][e.cur] = o]
    /\ dirty' = TRUE
    /\ pc' = "record"
    /\ UNCHANGED <<cause, verdict, checkpoint, final, roots, pointer, rundb, head, counts>>

\* The context was done and the stage is not recorded.  executeWithRetry rewrites
\* the status as canceled, unless it had already looked at the context, or the
\* node is executed without retries, as a terminal node is.
StageCanceled ==
    /\ pc = "record"
    /\ Done
    /\ Conclude(cause)
    /\ \/ UNCHANGED status
       \/ /\ e.cur \notin Terminal
          /\ status' = [status EXCEPT ![e.root][e.cur] = Canceled]
    /\ UNCHANGED <<e, cause, checkpoint, final, roots, pointer, rundb, work, counts>>

Tracked(o) == Failing(o) /\ o.class \in Breaking

\* Its message is left out.
restartFailureSignature == <<e.cur, e.out.class>>

\* The outcome is recorded; the cycle breaker may end the run before the
\* checkpoint.
RecordStage ==
    /\ pc = "record"
    /\ ~Done
    /\ LET tracked == e.cur \notin Terminal /\ Tracked(e.out)
           sigs == IF tracked THEN [e.loopSigs EXCEPT ![restartFailureSignature] = @ + 1]
                   ELSE e.loopSigs
       IN  /\ e' = [e EXCEPT !.done = @ \cup {e.cur},
                             !.seen[e.cur] = e.out,
                             !.join = IF e.out.join # NoNode THEN e.out.join ELSE @,
                             !.loopSigs = sigs]
           /\ IF tracked /\ sigs[restartFailureSignature] >= SignatureLimit
              THEN Conclude("fail")
              ELSE pc' = "commit" /\ UNCHANGED verdict
    /\ UNCHANGED <<cause, files, work, counts>>

-----------------------------------------------------------------------------
(* checkpoint *)

\* Mutant: the head is read before the commit is made.
CommitShaOld == head

CommitSha == IF e.git THEN e.cur ELSE NoSha

\* The git commit comes first.
Commit ==
    /\ pc = "commit"
    /\ e' = [e EXCEPT !.sha = CommitSha]
    /\ head' = IF e.git THEN e.cur ELSE head
    /\ dirty' = (dirty /\ ~e.git)
    /\ pc' = "save"
    /\ UNCHANGED <<cause, verdict, files, counts>>

\* checkpoint.json is replaced by an atomic rename.
SaveCheckpoint ==
    /\ pc = "save"
    /\ checkpoint' = [checkpoint EXCEPT ![e.root] =
           [node |-> e.cur, done |-> e.done, sha |-> e.sha, join |-> e.join,
            restarts |-> e.restarts, restartSigs |-> e.restartSigs,
            loopSigs |-> e.loopSigs]]
    /\ pc' = "announce"
    /\ UNCHANGED <<e, cause, verdict, status, final, roots, pointer, rundb, work, counts>>

\* cxdbCheckpointSaved.  After a terminal node nothing is left but the outcome.
Announce ==
    /\ pc = "announce"
    /\ pointer' = e.root
    /\ IF e.cur \in Terminal
       THEN Conclude("success")
       ELSE pc' = "route" /\ UNCHANGED verdict
    /\ UNCHANGED <<e, cause, checkpoint, status, final, roots, rundb, work, counts>>

-----------------------------------------------------------------------------
(* Routing *)

Decision == Decide(Graph, e.cur, e.out, e.join)

\* Mutant: the join of an implicit fan-out does not reach the context.
RouteHopJoinless ==
    /\ pc = "route"
    /\ Decision.kind \in {"hop", "fan_out"}
    /\ e' = [e EXCEPT !.cur = Decision.to]
    /\ pc' = "enter"
    /\ UNCHANGED <<cause, verdict, files, work, counts>>

RouteHop ==
    /\ pc = "route"
    /\ Decision.kind \in {"hop", "fan_out"}
    /\ e' = [e EXCEPT !.cur = Decision.to,
                      !.join = IF Decision.kind = "fan_out" THEN Decision.to ELSE @]
    /\ pc' = "enter"
    /\ UNCHANGED <<cause, verdict, files, work, counts>>

\* Mutant: a node without a next hop always ends the run well.
RouteEndForgiving ==
    /\ pc = "route"
    /\ Decision.kind \in {"finish", "fail", "error"}
    /\ Conclude("success")
    /\ UNCHANGED <<e, cause, files, work, counts>>

RouteEnd ==
    /\ pc = "route"
    /\ Decision.kind \in {"finish", "fail", "error"}
    /\ Conclude(IF Decision.kind = "finish" THEN "success" ELSE "fail")
    /\ UNCHANGED <<e, cause, files, work, counts>>

\* loopRestart refuses a failure that is not transient, a transient failure
\* that repeated too often, and one restart too many.
RestartSigs == IF Failing(e.out) THEN [e.restartSigs EXCEPT ![e.cur] = @ + 1] ELSE e.restartSigs

\* Mutant: the budget is checked before the restart is counted.
RestartRefusedLate ==
    \/ Failing(e.out) /\ e.out.class # "transient_infra"
    \/ Failing(e.out) /\ RestartSigs[e.cur] >= SignatureLimit
    \/ e.restarts > MaxRestarts

RestartRefused ==
    \/ Failing(e.out) /\ e.out.class # "transient_infra"
    \/ Failing(e.out) /\ RestartSigs[e.cur] >= SignatureLimit
    \/ e.restarts + 1 > MaxRestarts

RefuseRestart ==
    /\ pc = "route"
    /\ Decision.kind = "restart"
    /\ RestartRefused
    /\ Conclude("fail")
    /\ UNCHANGED <<e, cause, files, work, counts>>

\* Mutants: the relaunched loop forgets the failures, or begins at the start node.
RelaunchedClean ==
    [e EXCEPT !.restarts = @ + 1, !.root = e.restarts + 1, !.cur = Decision.to,
              !.restartSigs = RestartSigs, !.loopSigs = NoSigs, !.done = {},
              !.seen = NoStatus, !.visits = NoCounts, !.join = NoNode]
RelaunchedAtStart ==
    [e EXCEPT !.restarts = @ + 1, !.root = e.restarts + 1, !.cur = Start,
              !.restartSigs = RestartSigs, !.done = {}, !.seen = NoStatus,
              !.visits = NoCounts, !.join = NoNode]

\* A fresh context and a fresh loop; loopSigs is kept.
Relaunched ==
    [e EXCEPT !.restarts = @ + 1, !.root = e.restarts + 1, !.cur = Decision.to,
              !.restartSigs = RestartSigs, !.done = {}, !.seen = NoStatus,
              !.visits = NoCounts, !.join = NoNode]

\* Nothing clears the new logs root if it was there.
LoopRestart ==
    /\ pc = "route"
    /\ Decision.kind = "restart"
    /\ ~RestartRefused
    /\ e' = Relaunched
    /\ roots' = roots \cup {e.restarts + 1}
    /\ pc' = "enter"
    /\ UNCHANGED <<cause, verdict, checkpoint, status, final, pointer, rundb, work, counts>>

-----------------------------------------------------------------------------
(* persistTerminalOutcome: final.json of the current root, then of the base *)
(* root; then the run database, which a resumed engine does not have.       *)

PersistCurrent ==
    /\ pc = "persist"
    /\ final' = [final EXCEPT ![e.root] = verdict]
    /\ pc' = IF e.root = 0 THEN "complete" ELSE "persist_base"
    /\ UNCHANGED <<e, cause, verdict, checkpoint, status, roots, pointer, rundb, work, counts>>

PersistBase ==
    /\ pc = "persist_base"
    /\ final' = [final EXCEPT ![0] = verdict]
    /\ pc' = "complete"
    /\ UNCHANGED <<e, cause, verdict, checkpoint, status, roots, pointer, rundb, work, counts>>

\* rundbRecordRunComplete: a canceled run is recorded as failed.
CompleteRun ==
    /\ pc = "complete"
    /\ rundb' = CASE ~e.fresh -> rundb
                  [] e.fresh /\ verdict = "success" -> "success"
                  [] OTHER -> "fail"
    /\ pc' = "ended"
    /\ UNCHANGED <<e, cause, verdict, checkpoint, status, final, roots, pointer, work, counts>>

-----------------------------------------------------------------------------
(* Cancellation, crashes *)

\* The context the engine was given is done.  The stop command, a signal, the
\* server and the stall watchdog cancel it with a cause of their own, which
\* counts as a failure; an embedding program may cancel it with none.
Cancel ==
    /\ pc \notin Gone
    /\ ~Done
    /\ cancels < MaxCancels
    /\ cancels' = cancels + 1
    /\ cause' \in {"canceled", "fail"}
    /\ UNCHANGED <<pc, e, verdict, files, work, crashes, resumes>>

Crash ==
    /\ pc \notin Gone
    /\ crashes < MaxCrashes
    /\ crashes' = crashes + 1
    /\ pc' = "down"
    /\ e' = FreshEngine
    /\ cause' = "none"
    /\ verdict' = "none"
    /\ UNCHANGED <<files, work, resumes, cancels>>

-----------------------------------------------------------------------------
(* resumeFromLogsRoot *)

\* ResumeFromCXDB follows the last CheckpointSaved event, ResumeFromBranch goes
\* to the default root of the run id, Resume takes any root.
Resumable(k) ==
    CASE ResumeFrom = "cxdb" -> k = pointer
      [] ResumeFrom = "branch" -> k = 0
      [] OTHER -> k \in roots

BeginResume(k) ==
    /\ pc \in Gone
    /\ Resumable(k)
    /\ resumes < MaxResumes
    /\ resumes' = resumes + 1
    /\ cause' = "none"
    /\ UNCHANGED <<roots, pointer, rundb, crashes, cancels>>

\* The checkpoint names a commit.
Loadable(k) == checkpoint[k] # NoCheckpoint /\ checkpoint[k].sha # NoSha

\* Mutant: a resumed run counts its restarts from zero.
RestoredRestartsZero(k) == 0

\* restoreRestartState: the directory name can only raise the count.
RestoredRestarts(k) ==
    IF checkpoint[k].restarts = 0 \/ k > checkpoint[k].restarts
    THEN IF k = 0 THEN checkpoint[k].restarts ELSE k
    ELSE checkpoint[k].restarts

LastOutcome(k) == status[k][checkpoint[k].node]

\* Mutant: a resumed run starts without outcomes.
RestoredSeenNone(k) == NoStatus

\* Outcomes come back from the status files of the completed nodes.
RestoredSeen(k) ==
    [n \in Node |-> IF n \in checkpoint[k].done THEN status[k][n] ELSE NoOutcome]

Restored(k, git) ==
    [FreshEngine EXCEPT
        !.root = k, !.fresh = FALSE, !.git = git,
        !.done = checkpoint[k].done,
        !.seen = RestoredSeen(k),
        !.loopSigs = checkpoint[k].loopSigs, !.restartSigs = checkpoint[k].restartSigs,
        !.restarts = RestoredRestarts(k),
        !.join = checkpoint[k].join, !.sha = checkpoint[k].sha]

\* Mutant: the node of the checkpoint is run again.
ResumeDecisionAgain(k) == HopTo(checkpoint[k].node)

ResumeDecision(k) == Decide(Graph, checkpoint[k].node, LastOutcome(k), checkpoint[k].join)

\* ResumeWorkspace cannot move the branch while the base root's worktree has it.
WorkspaceRefused(k, git) == git /\ k # 0

\* No engine yet: the error goes to the final.json of this root only.
ResumeUnloadable(k) ==
    /\ BeginResume(k)
    /\ ~Loadable(k)
    /\ final' = [final EXCEPT ![k] = "fail"]
    /\ pc' = "ended"
    /\ e' = [FreshEngine EXCEPT !.root = k, !.fresh = FALSE]
    /\ verdict' = "fail"
    /\ UNCHANGED <<checkpoint, status, work>>

ResetWorktree(k, git) ==
    /\ head' = IF git THEN checkpoint[k].sha ELSE head
    /\ dirty' = (dirty /\ ~git)

\* An engine, but no next node.
NoNextNode(k) ==
    LastOutcome(k) # NoOutcome => ResumeDecision(k).kind \in {"fail", "error"}

ResumeFails(k, git) ==
    /\ BeginResume(k)
    /\ Loadable(k)
    /\ WorkspaceRefused(k, git) \/ NoNextNode(k)
    /\ e' = Restored(k, git)
    /\ Conclude("fail")
    /\ IF WorkspaceRefused(k, git) THEN UNCHANGED work ELSE ResetWorktree(k, git)
    /\ UNCHANGED <<checkpoint, status, final>>

\* "Nothing to do; treat as completed": success is returned, nothing written.
ResumeNothing(k, git) ==
    /\ BeginResume(k)
    /\ Loadable(k) /\ ~WorkspaceRefused(k, git) /\ ~NoNextNode(k)
    /\ ResumeDecision(k).kind = "finish"
    /\ e' = Restored(k, git)
    /\ pc' = "ended"
    /\ verdict' = "success"
    /\ ResetWorktree(k, git)
    /\ UNCHANGED <<checkpoint, status, final>>

\* A restart edge is followed like any other edge.
ResumeRuns(k, git) ==
    /\ BeginResume(k)
    /\ Loadable(k) /\ ~WorkspaceRefused(k, git) /\ ~NoNextNode(k)
    /\ ResumeDecision(k).kind \in {"hop", "fan_out", "restart"}
    /\ e' = [Restored(k, git) EXCEPT
                !.cur = ResumeDecision(k).to,
                !.join = IF ResumeDecision(k).kind = "fan_out" THEN ResumeDecision(k).to ELSE @]
    /\ pc' = "enter"
    /\ verdict' = "none"
    /\ ResetWorktree(k, git)
    /\ UNCHANGED <<checkpoint, status, final>>

-----------------------------------------------------------------------------

Engine ==
    \/ EnterCanceled \/ EnterStuck \/ GateRetry \/ StartStage
    \/ EndStage \/ StageCanceled \/ RecordStage
    \/ Commit \/ SaveCheckpoint \/ Announce
    \/ RouteHop \/ RouteEnd \/ RefuseRestart \/ LoopRestart
    \/ PersistCurrent \/ PersistBase \/ CompleteRun

Resume ==
    \E k \in Root :
        \/ ResumeUnloadable(k)
        \/ \E git \in ResumeGit :
              ResumeFails(k, git) \/ ResumeNothing(k, git) \/ ResumeRuns(k, git)

Next == Engine \/ Cancel \/ Crash \/ Resume

Spec == Init /\ [][Next]_vars

\* A process that is not killed keeps running; stages end (they have timeouts).
FairSpec == Spec /\ WF_vars(Engine)
=============================================================================
