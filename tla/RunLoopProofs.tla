--------------------------- MODULE RunLoopProofs ---------------------------
(***************************************************************************)
(* Types, commits and restart counts of a run, for every graph, every      *)
(* limit, every way to find the root to resume, and any number of crashes, *)
(* resumes and cancellations; and how many steps the limits leave a run.   *)
(*                                                                         *)
(* A checkpoint is built from the engine's variables, which a resume       *)
(* builds from a checkpoint: ShaOfNode and RootIsRestarts say of the       *)
(* engine what CommittedCode and RestartsCounted say of the files.         *)
(***************************************************************************)
EXTENDS RunHistory, RoutingProofs

\* The stage that just ended returned one of its outcomes.
StageReturned == pc = "record" => e.out \in Outcomes[e.cur]

LEMMA OutcomeType ==
    /\ \A n \in Node : \A o \in Outcomes[n] : o.join \in AnyNode /\ o \in AnyOutcome
    /\ Canceled \in AnyOutcome /\ NoOutcome \in AnyOutcome
  BY RunAssumption DEF AnyOutcome

LEMMA CountsType ==
    /\ NoCounts \in Counts
    /\ \A c \in Counts, n \in Node : [c EXCEPT ![n] = @ + 1] \in Counts
  BY DEF NoCounts, Counts

LEMMA SigsType ==
    /\ NoSigs \in SigCounts
    /\ \A c \in SigCounts, s \in Signature : [c EXCEPT ![s] = @ + 1] \in SigCounts
  BY DEF NoSigs, SigCounts

\* A failure that the cycle breaker counts has a signature.
LEMMA TrackedSigned ==
    ASSUME e.cur \in Node, Tracked(e.out)
    PROVE  restartFailureSignature \in Signature
  BY DEF Tracked, restartFailureSignature, Signature

LEMMA FreshType == FreshEngine \in EngineVars /\ NoStatus \in [Node -> AnyOutcome]
  <1>1. NoStatus \in [Node -> AnyOutcome]
    BY OutcomeType DEF NoStatus
  <1>2. 0 \in Root
    BY RunAssumption DEF Root
  <1> QED
    BY <1>1, <1>2, RunAssumption, OutcomeType, CountsType, SigsType DEF FreshEngine, EngineVars, AnyNode, NoSha

\* What a fresh run starts with, whether there is a repository or not.
LEMMA StartedType ==
    ASSUME NEW git \in FreshGit
    PROVE  /\ Started(git) \in EngineVars
           /\ Started(git).cur = Start /\ Started(git).root = 0
           /\ Started(git).restarts = 0 /\ Started(git).out = NoOutcome
           /\ Started(git).done = {} /\ Started(git).seen = NoStatus
           /\ Started(git).loopSigs = NoSigs /\ Started(git).join = NoNode
           /\ Started(git).sha = NoSha /\ Started(git).fresh
  <1>1. git \in BOOLEAN
    BY RunAssumption
  <1>2. FreshEngine \in EngineVars
    BY FreshType
  <1>3. Started(git) \in EngineVars
    BY <1>1, <1>2 DEF Started, EngineVars
  <1> QED BY <1>3 DEF Started, FreshEngine

LEMMA TypeInit == Init => TypeOK
  <1> SUFFICES ASSUME Init PROVE TypeOK
    OBVIOUS
  <1>1. 0 \in Root
    BY RunAssumption DEF Root
  <1> QED
    BY <1>1, FreshType, StartedType, OutcomeType DEF Init, TypeOK, Point, AnyNode, NoSha

\* What a resume restores is typed.
LEMMA RestoredType ==
    ASSUME TypeOK, NEW k \in Root, NEW git \in ResumeGit, checkpoint[k] # NoCheckpoint
    PROVE  /\ Restored(k, git) \in EngineVars
           /\ RestoredSeen(k) \in [Node -> AnyOutcome]
           /\ checkpoint[k] \in Checkpoint
  <1>1. checkpoint[k] \in Checkpoint
    BY DEF TypeOK
  <1>2. RestoredSeen(k) \in [Node -> AnyOutcome]
    BY OutcomeType DEF TypeOK, RestoredSeen
  <1>3. RestoredRestarts(k) \in Root
    BY <1>1 DEF RestoredRestarts, Checkpoint
  <1> QED
    BY <1>1, <1>2, <1>3, FreshType, RunAssumption DEF Restored, EngineVars, FreshEngine, Checkpoint

LEMMA DecisionMoves ==
    ASSUME TypeOK
    PROVE  /\ \/ Decision.kind \in Moves /\ Decision.to \in Node
              \/ Decision.kind \in Ends
           /\ \A k \in Root : checkpoint[k] # NoCheckpoint =>
                  \/ ResumeDecision(k).kind \in Moves /\ ResumeDecision(k).to \in Node
                  \/ ResumeDecision(k).kind \in Ends
  <1>1. e.cur \in Node /\ e.join \in AnyNode
    BY DEF TypeOK, EngineVars
  <1>2. \A k \in Root : checkpoint[k] # NoCheckpoint =>
            checkpoint[k].node \in Node /\ checkpoint[k].join \in AnyNode
    BY DEF TypeOK, Checkpoint
  <1> QED BY <1>1, <1>2, DecisionType, RunAssumption DEF Decision, ResumeDecision

LEMMA TypeStep == TypeOK /\ StageReturned /\ [Next]_vars => TypeOK'
  <1> SUFFICES ASSUME TypeOK, StageReturned, [Next]_vars PROVE TypeOK'
    OBVIOUS
  <1> USE DEF TypeOK, Point, Gone, Conclude, files, work, counts
  <1>e. e \in EngineVars
    OBVIOUS
  <1>v. Visited \in Counts
    BY <1>e, CountsType DEF Visited, EngineVars
  <1>1. CASE EnterCanceled
    BY <1>1 DEF EnterCanceled, Done
  <1>2. CASE EnterStuck
    BY <1>2 DEF EnterStuck
  <1>3. CASE GateRetry
    <2>1. GatesToRetry \subseteq Node
      BY RunAssumption DEF GatesToRetry, FailedGates, IsGraph
    <2>2. \A gate \in GatesToRetry : ResolveRetryTarget(Graph, gate) \in AnyNode
      BY <2>1, RetryTargetType, RunAssumption
    <2>3. PICK gate \in GatesToRetry :
              LET target == ResolveRetryTarget(Graph, gate)
              IN  IF target = NoNode
                  THEN Conclude("fail") /\ UNCHANGED e
                  ELSE /\ e' = [e EXCEPT !.cur = target, !.visits = Visited]
                       /\ UNCHANGED <<pc, verdict>>
      BY <1>3 DEF GateRetry
    <2>4. UNCHANGED <<cause, files, work, counts>>
      BY <1>3 DEF GateRetry
    <2> DEFINE target == ResolveRetryTarget(Graph, gate)
    <2>5. target \in AnyNode
      BY <2>2
    <2>6. CASE target = NoNode
      <3>1. Conclude("fail") /\ UNCHANGED e
        BY <2>3, <2>6
      <3> QED BY <3>1, <2>4
    <2>7. CASE target # NoNode
      <3>1. /\ e' = [e EXCEPT !.cur = target, !.visits = Visited]
            /\ UNCHANGED <<pc, verdict>>
        BY <2>3, <2>7
      <3>2. target \in Node
        BY <2>5, <2>7 DEF AnyNode
      <3> HIDE DEF target
      <3>3. e' \in EngineVars
        BY <3>1, <3>2, <1>e, <1>v DEF EngineVars
      <3> QED BY <3>1, <3>3, <2>4
    <2> QED BY <2>6, <2>7
  <1>4. CASE StartStage
    BY <1>4, <1>v, OutcomeType DEF StartStage, EngineVars
  <1>5. CASE EndStage
    <2>1. PICK o \in Outcomes[e.cur] :
              /\ e' = [e EXCEPT !.out = o]
              /\ status' = [status EXCEPT ![e.root][e.cur] = o]
      BY <1>5 DEF EndStage
    <2>2. o \in AnyOutcome
      BY OutcomeType DEF EngineVars
    <2>3. e' \in EngineVars
      BY <2>1, <2>2 DEF EngineVars
    <2>4. status' \in [Root -> [Node -> AnyOutcome]]
      BY <2>1, <2>2 DEF EngineVars
    <2> QED BY <1>5, <2>3, <2>4 DEF EndStage
  <1>6. CASE StageCanceled
    <2>1. status' \in [Root -> [Node -> AnyOutcome]]
      <3>1. CASE status' = [status EXCEPT ![e.root][e.cur] = Canceled]
        BY <3>1, OutcomeType DEF EngineVars
      <3> QED BY <1>6, <3>1 DEF StageCanceled
    <2>2. verdict' \in {"success", "fail", "canceled"}
      BY <1>6 DEF StageCanceled, Done
    <2> QED BY <1>6, <2>1, <2>2 DEF StageCanceled
  <1>7. CASE RecordStage
    <2>1. PICK sigs \in SigCounts :
              e' = [e EXCEPT !.done = @ \cup {e.cur}, !.seen[e.cur] = e.out,
                             !.join = IF e.out.join # NoNode THEN e.out.join ELSE @,
                             !.loopSigs = sigs]
      <3>1. e.cur \in Node /\ e.loopSigs \in SigCounts
        BY <1>e DEF EngineVars
      <3>2. Tracked(e.out) => [e.loopSigs EXCEPT ![restartFailureSignature] = @ + 1] \in SigCounts
        BY <3>1, SigsType, TrackedSigned
      <3> QED BY <1>7, <3>1, <3>2 DEF RecordStage
    <2>2. e.out \in AnyOutcome /\ e.out.join \in AnyNode
      BY <1>7, <1>e, OutcomeType DEF RecordStage, EngineVars, StageReturned
    <2>3. e' \in EngineVars
      BY <2>1, <2>2, <1>e DEF EngineVars
    <2> QED BY <1>7, <2>3 DEF RecordStage
  <1>8. CASE Commit
    BY <1>8 DEF Commit, CommitSha, EngineVars, AnyNode, NoSha
  <1>9. CASE SaveCheckpoint
    BY <1>9 DEF SaveCheckpoint, EngineVars, Checkpoint
  <1>10. CASE Announce
    BY <1>10 DEF Announce, EngineVars
  <1>11. CASE RouteHop
    BY <1>11, DecisionMoves DEF RouteHop, EngineVars, AnyNode, Ends
  <1>12. CASE RouteEnd
    BY <1>12 DEF RouteEnd
  <1>13. CASE RefuseRestart
    BY <1>13 DEF RefuseRestart
  <1>14. CASE LoopRestart
    <2>1. e.restarts + 1 \in Root
      BY <1>14, RunAssumption DEF LoopRestart, RestartRefused, Root, EngineVars
    <2>2. RestartSigs \in Counts
      BY CountsType DEF RestartSigs, EngineVars
    <2>3. Decision.to \in Node
      BY <1>14, DecisionMoves DEF LoopRestart, Ends
    <2>4. NoStatus \in [Node -> AnyOutcome] /\ NoCounts \in Counts /\ NoNode \in AnyNode
      BY FreshType, CountsType DEF AnyNode
    <2>5. e' \in EngineVars
      <3>1. e' = Relaunched
        BY <1>14 DEF LoopRestart
      <3> QED BY <3>1, <2>1, <2>2, <2>3, <2>4, <1>e DEF Relaunched, EngineVars
    <2> QED BY <1>14, <2>1, <2>5 DEF LoopRestart
  <1>15. CASE PersistCurrent
    BY <1>15 DEF PersistCurrent, EngineVars
  <1>16. CASE PersistBase
    BY <1>16 DEF PersistBase
  <1>17. CASE CompleteRun
    BY <1>17 DEF CompleteRun
  <1>18. CASE Cancel
    BY <1>18 DEF Cancel
  <1>19. CASE Crash
    BY <1>19, FreshType DEF Crash
  <1>20. ASSUME NEW k \in Root, ResumeUnloadable(k) PROVE TypeOK'
    <2>1. e' \in EngineVars
      BY <1>20, FreshType DEF ResumeUnloadable, EngineVars
    <2> QED BY <1>20, <2>1 DEF ResumeUnloadable, BeginResume
  <1>21. ASSUME NEW k \in Root, NEW git \in ResumeGit, Loadable(k), ResetWorktree(k, git)
         PROVE  head' \in AnyNode /\ dirty' \in BOOLEAN
    BY <1>21, RestoredType DEF Loadable, ResetWorktree, Checkpoint
  <1>22. ASSUME NEW k \in Root, NEW git \in ResumeGit, ResumeFails(k, git) PROVE TypeOK'
    BY <1>21, <1>22, RestoredType DEF ResumeFails, BeginResume, Loadable
  <1>23. ASSUME NEW k \in Root, NEW git \in ResumeGit, ResumeNothing(k, git) PROVE TypeOK'
    BY <1>21, <1>23, RestoredType DEF ResumeNothing, BeginResume, Loadable
  <1>24. ASSUME NEW k \in Root, NEW git \in ResumeGit, ResumeRuns(k, git) PROVE TypeOK'
    <2>1. ResumeDecision(k).to \in Node
      BY <1>24, DecisionMoves DEF ResumeRuns, Loadable, Ends
    <2>2. e' \in EngineVars
      <3> DEFINE was == Restored(k, git)
                 to == ResumeDecision(k).to
      <3>1. was \in EngineVars
        BY <1>24, RestoredType DEF ResumeRuns, Loadable
      <3>2. e' = [was EXCEPT !.cur = to,
                             !.join = IF ResumeDecision(k).kind = "fan_out" THEN to ELSE @]
        BY <1>24 DEF ResumeRuns
      <3>3. to \in Node
        BY <2>1
      <3> HIDE DEF was, to
      <3> QED BY <3>1, <3>2, <3>3 DEF EngineVars, AnyNode
    <2> QED BY <1>21, <1>24, <2>2 DEF ResumeRuns, BeginResume
  <1>25. CASE UNCHANGED vars
    BY <1>25 DEF vars
  <1> HIDE DEF TypeOK, Point, Gone, Conclude, files, work, counts
  <1>26. CASE Engine
    BY <1>26, <1>1, <1>2, <1>3, <1>4, <1>5, <1>6, <1>7, <1>8, <1>9, <1>10, <1>11, <1>12,
       <1>13, <1>14, <1>15, <1>16, <1>17 DEF Engine
  <1>27. CASE Resume
    BY <1>27, <1>20, <1>22, <1>23, <1>24 DEF Resume
  <1> QED
    BY <1>18, <1>19, <1>25, <1>26, <1>27 DEF Next

-----------------------------------------------------------------------------
(* Commits and restart counts *)

\* The commit a checkpoint is about to name is the one of its own node.
ShaOfNode == pc = "save" => e.sha \in {NoSha, e.cur}

\* A running engine counts the restarts that its logs root is named for.
RootIsRestarts == Running => e.restarts = e.root

IInv ==
    /\ TypeOK
    /\ StageReturned
    /\ ShaOfNode
    /\ CommittedCode
    /\ RootIsRestarts
    /\ RestartsCounted

LEMMA StageReturnedStep == TypeOK /\ StageReturned /\ [Next]_vars => StageReturned'
  <1> SUFFICES ASSUME TypeOK, StageReturned, [Next]_vars, pc' = "record"
               PROVE  e'.out \in Outcomes[e'.cur]
    BY DEF StageReturned
  <1> USE DEF Conclude
  <1>1. CASE EndStage
    BY <1>1 DEF EndStage, TypeOK, EngineVars
  <1>2. CASE UNCHANGED <<pc, e>>
    BY <1>2 DEF StageReturned
  <1>3. CASE GateRetry
    BY <1>3 DEF GateRetry, StageReturned
  <1>4. ASSUME NEW k \in Root, BeginResume(k) PROVE pc \in Gone
    BY <1>4 DEF BeginResume
  <1> QED
    BY <1>1, <1>2, <1>3
    DEF Next, vars, Engine, EnterCanceled, EnterStuck, StartStage, StageCanceled, RecordStage,
        Commit, SaveCheckpoint, Announce, RouteHop, RouteEnd, RefuseRestart, LoopRestart,
        PersistCurrent, PersistBase, CompleteRun, Cancel, Crash,
        Resume, ResumeUnloadable, ResumeFails, ResumeNothing, ResumeRuns

LEMMA CodeStep ==
    TypeOK /\ ShaOfNode /\ CommittedCode /\ [Next]_vars => ShaOfNode' /\ CommittedCode'
  <1> SUFFICES ASSUME TypeOK, ShaOfNode, CommittedCode, [Next]_vars
               PROVE  ShaOfNode' /\ CommittedCode'
    OBVIOUS
  <1> USE DEF Conclude, files
  <1>1. CASE Commit
    BY <1>1 DEF Commit, CommitSha, ShaOfNode, CommittedCode, TypeOK, EngineVars
  <1>2. CASE SaveCheckpoint
    <2>1. ASSUME NEW k \in Root, checkpoint'[k] # NoCheckpoint
          PROVE  checkpoint'[k].sha \in {NoSha, checkpoint'[k].node}
      <3>1. CASE k = e.root
        BY <1>2, <3>1 DEF SaveCheckpoint, ShaOfNode, TypeOK, EngineVars
      <3>2. CASE k # e.root
        BY <1>2, <2>1, <3>2 DEF SaveCheckpoint, CommittedCode, TypeOK, EngineVars
      <3> QED BY <3>1, <3>2
    <2> QED BY <1>2, <2>1 DEF SaveCheckpoint, ShaOfNode, CommittedCode
  <1>3. CASE UNCHANGED <<pc, e, checkpoint>>
    BY <1>3 DEF ShaOfNode, CommittedCode
  <1>4. CASE UNCHANGED checkpoint /\ pc' # "save"
    BY <1>4 DEF ShaOfNode, CommittedCode
  <1>5. CASE GateRetry
    BY <1>5 DEF GateRetry, ShaOfNode, CommittedCode
  <1> QED
    BY <1>1, <1>2, <1>3, <1>4, <1>5
    DEF Next, vars, Engine, EnterCanceled, EnterStuck, StartStage, EndStage, StageCanceled,
        RecordStage, Announce, RouteHop, RouteEnd, RefuseRestart, LoopRestart,
        PersistCurrent, PersistBase, CompleteRun, Cancel, Crash,
        Resume, ResumeUnloadable, ResumeFails, ResumeNothing, ResumeRuns

LEMMA CountStep ==
    TypeOK /\ RootIsRestarts /\ RestartsCounted /\ [Next]_vars =>
        RootIsRestarts' /\ RestartsCounted'
  <1> SUFFICES ASSUME TypeOK, RootIsRestarts, RestartsCounted, [Next]_vars
               PROVE  RootIsRestarts' /\ RestartsCounted'
    OBVIOUS
  <1> USE DEF Conclude, files, Gone, Running
  <1>1. CASE SaveCheckpoint
    <2>1. ASSUME NEW k \in Root, checkpoint'[k] # NoCheckpoint
          PROVE  checkpoint'[k].restarts = k
      <3>1. CASE k = e.root
        BY <1>1, <3>1 DEF SaveCheckpoint, RootIsRestarts, TypeOK, EngineVars
      <3>2. CASE k # e.root
        BY <1>1, <2>1, <3>2 DEF SaveCheckpoint, RestartsCounted, TypeOK, EngineVars
      <3> QED BY <3>1, <3>2
    <2> QED BY <1>1, <2>1 DEF SaveCheckpoint, RootIsRestarts, RestartsCounted
  <1>2. CASE UNCHANGED <<e, checkpoint>> /\ pc \notin Gone
    BY <1>2 DEF RootIsRestarts, RestartsCounted
  <1>3. CASE UNCHANGED vars
    BY <1>3 DEF vars, RootIsRestarts, RestartsCounted
  <1>4. CASE Crash
    BY <1>4 DEF Crash, RootIsRestarts, RestartsCounted
  <1>5. ASSUME UNCHANGED checkpoint, pc \notin Gone,
               e'.root = e.root, e'.restarts = e.restarts
        PROVE  RootIsRestarts' /\ RestartsCounted'
    BY <1>5 DEF RootIsRestarts, RestartsCounted
  <1>6. CASE StartStage \/ EndStage \/ RecordStage \/ Commit \/ RouteHop
    BY <1>5, <1>6 DEF StartStage, EndStage, RecordStage, Commit, RouteHop, TypeOK, EngineVars
  <1>7. CASE GateRetry
    BY <1>5, <1>7 DEF GateRetry, TypeOK, EngineVars
  <1>8. CASE LoopRestart
    BY <1>8 DEF LoopRestart, Relaunched, RootIsRestarts, RestartsCounted, TypeOK, EngineVars
  <1>9. ASSUME NEW k \in Root, NEW git \in ResumeGit, Loadable(k)
        PROVE  Restored(k, git).restarts = k /\ Restored(k, git).root = k
    <2>1. checkpoint[k] \in Checkpoint /\ checkpoint[k].restarts = k
      BY <1>9, RestoredType DEF RestartsCounted, Loadable
    <2> QED BY <2>1, FreshType DEF Restored, RestoredRestarts, EngineVars, FreshEngine
  <1>10. ASSUME NEW k \in Root, ResumeUnloadable(k) PROVE RootIsRestarts' /\ RestartsCounted'
    BY <1>10 DEF ResumeUnloadable, RootIsRestarts, RestartsCounted
  <1>11. ASSUME NEW k \in Root, NEW git \in ResumeGit,
                ResumeFails(k, git) \/ ResumeNothing(k, git) \/ ResumeRuns(k, git)
         PROVE RootIsRestarts' /\ RestartsCounted'
    <2>1. Loadable(k) /\ UNCHANGED checkpoint
      BY <1>11 DEF ResumeFails, ResumeNothing, ResumeRuns
    <2>2. Restored(k, git) \in EngineVars
      BY <2>1, RestoredType DEF Loadable
    <2>3. e'.root = Restored(k, git).root /\ e'.restarts = Restored(k, git).restarts
      BY <1>11, <2>2 DEF ResumeFails, ResumeNothing, ResumeRuns, EngineVars
    <2> QED BY <1>9, <2>1, <2>3 DEF RootIsRestarts, RestartsCounted
  <1>12. CASE CompleteRun
    BY <1>12 DEF CompleteRun, RootIsRestarts, RestartsCounted
  <1> QED
    BY <1>1, <1>2, <1>3, <1>4, <1>6, <1>7, <1>8, <1>10, <1>11, <1>12
    DEF Next, Engine, EnterCanceled, EnterStuck, StageCanceled, Announce, RouteEnd,
        RefuseRestart, PersistCurrent, PersistBase, Cancel, Resume

LEMMA InitIInv == Init => IInv
  <1> SUFFICES ASSUME Init PROVE IInv
    OBVIOUS
  <1>1. RootIsRestarts
    BY StartedType DEF Init, RootIsRestarts
  <1>2. CommittedCode /\ RestartsCounted
    BY DEF Init, CommittedCode, RestartsCounted
  <1> QED BY <1>1, <1>2, TypeInit DEF Init, IInv, StageReturned, ShaOfNode

LEMMA StepIInv == IInv /\ [Next]_vars => IInv'
  BY TypeStep, StageReturnedStep, CodeStep, CountStep DEF IInv

\* The invariant behind the theorems below holds in every run.
THEOREM RunInductive == Spec => []IInv
  BY InitIInv, StepIInv, PTL DEF Spec

\* TypeOK: no restart leaves the budget, and no route leads out of the graph.
THEOREM RunTypeCorrect == Spec => []TypeOK
  BY RunInductive, PTL DEF IInv

\* CommittedCode: a checkpoint names no commit or the one of its own node.
THEOREM CheckpointsNameTheirCode == Spec => []CommittedCode
  BY RunInductive, PTL DEF IInv

\* RestartsCounted: the count in a checkpoint is the number of its logs root.
THEOREM CheckpointsCountRestarts == Spec => []RestartsCounted
  BY RunInductive, PTL DEF IInv

-----------------------------------------------------------------------------
(* How long a run can be.  A visit limit bounds the visits of one loop, the *)
(* restart budget the loops, and a visit has an end.                        *)

\* What a run has left of its budgets: visits of the loop it is in, and points to
\* the end of the stage.  Each loop restart buys the visits of one more loop.
Visits == Node \X (1 .. VisitLimit)
Ahead(visits) == {v \in Visits : visits[v[1]] < v[2]}
PointsAhead ==
    CASE pc = "stage" -> 10 [] pc = "record" -> 9 [] pc = "commit" -> 8
      [] pc = "save" -> 7 [] pc = "announce" -> 6 [] pc = "route" -> 5
      [] pc = "enter" -> 4 [] pc = "persist" -> 3 [] pc = "persist_base" -> 2
      [] pc = "complete" -> 1 [] OTHER -> 0
LoopsAhead == MaxRestarts - e.restarts
StepsAhead ==
    (LoopsAhead * (Cardinality(Visits) + 1) + Cardinality(Ahead(e.visits))) * 11 + PointsAhead

LEMMA AheadIn ==
    /\ Cardinality(Visits) = Cardinality(Node) * VisitLimit
    /\ \A c \in Counts :
          /\ Cardinality(Ahead(c)) \in Nat
          /\ Cardinality(Ahead(c)) <= Cardinality(Visits)
    /\ Cardinality(Visits) \in Nat
  <1>1. IsFiniteSet(Node) /\ VisitLimit \in Nat
    BY RunAssumption DEF IsGraph
  <1>2. IsFiniteSet(1 .. VisitLimit) /\ Cardinality(1 .. VisitLimit) = VisitLimit
    BY <1>1, FS_Interval
  <1>3. IsFiniteSet(Visits) /\ Cardinality(Visits) = Cardinality(Node) * VisitLimit
    BY <1>1, <1>2, FS_Product DEF Visits
  <1>4. ASSUME NEW c \in Counts
        PROVE  Cardinality(Ahead(c)) \in Nat /\ Cardinality(Ahead(c)) <= Cardinality(Visits)
    <2>1. Ahead(c) \in SUBSET Visits
      BY DEF Ahead
    <2> QED BY <1>3, <2>1, FS_Subset, FS_CardinalityType
  <1> QED BY <1>3, <1>4, FS_CardinalityType

\* A visit that the limit allows is one fewer ahead.
LEMMA VisitSpent ==
    ASSUME NEW c \in Counts, NEW n \in Node, c[n] < VisitLimit
    PROVE  /\ [c EXCEPT ![n] = @ + 1] \in Counts
           /\ Cardinality(Ahead([c EXCEPT ![n] = @ + 1])) < Cardinality(Ahead(c))
  <1>1. PICK d : d = [c EXCEPT ![n] = @ + 1]
    OBVIOUS
  <1>2. d \in Counts /\ c[n] \in Nat /\ d[n] = c[n] + 1 /\ \A m \in Node : c[m] <= d[m]
    BY <1>1, CountsType DEF Counts
  <1>3. Ahead(d) \subseteq Ahead(c)
    <2> SUFFICES ASSUME NEW v \in Visits, d[v[1]] < v[2] PROVE c[v[1]] < v[2]
      BY DEF Ahead
    <2>1. v[1] \in Node /\ v[2] \in 1 .. VisitLimit
      BY DEF Visits
    <2>2. c[v[1]] <= d[v[1]] /\ c[v[1]] \in Nat /\ d[v[1]] \in Nat
      BY <1>2, <2>1 DEF Counts
    <2> QED BY <2>1, <2>2
  <1>4. <<n, c[n] + 1>> \in Ahead(c) \ Ahead(d)
    <2>1. c[n] + 1 \in 1 .. VisitLimit
      BY <1>2, RunAssumption
    <2> QED BY <1>2, <2>1 DEF Ahead, Visits
  <1>5. IsFiniteSet(Ahead(c))
    <2>1. IsFiniteSet(Node) /\ IsFiniteSet(1 .. VisitLimit)
      BY RunAssumption, FS_Interval DEF IsGraph
    <2>2. IsFiniteSet(Visits) /\ Ahead(c) \in SUBSET Visits
      BY <2>1, FS_Product DEF Visits, Ahead
    <2> QED BY <2>2, FS_Subset
  <1>6. Cardinality(Ahead(d)) <= Cardinality(Ahead(c))
        /\ (Cardinality(Ahead(d)) = Cardinality(Ahead(c)) => Ahead(d) = Ahead(c))
    BY <1>3, <1>5, FS_Subset
  <1>7. Cardinality(Ahead(d)) # Cardinality(Ahead(c))
    BY <1>4, <1>6
  <1> QED BY <1>1, <1>2, <1>6, <1>7, AheadIn

\* What a step spends: a loop, or a visit of this loop, or a point of this visit.
Spends ==
    \/ /\ LoopsAhead' < LoopsAhead
       /\ e.visits \in Counts /\ e'.visits \in Counts
    \/ /\ LoopsAhead' = LoopsAhead
       /\ Cardinality(Ahead(e'.visits)) < Cardinality(Ahead(e.visits))
    \/ /\ LoopsAhead' = LoopsAhead
       /\ e'.visits = e.visits
       /\ PointsAhead' < PointsAhead

LEMMA EngineSpends ==
    ASSUME VisitLimit > 0, TypeOK, TypeOK', Engine
    PROVE  Spends
  <1>1. e.visits \in Counts /\ e'.visits \in Counts /\ e.cur \in Node
    BY DEF TypeOK, EngineVars
  <1>2. ASSUME e'.restarts = e.restarts, e'.visits = e.visits, PointsAhead' < PointsAhead
        PROVE  Spends
    BY <1>2 DEF Spends, LoopsAhead
  <1>3. ASSUME ~Stuck, e' = [e EXCEPT !.visits = Visited] \/ \E m : e' = [e EXCEPT !.cur = m, !.visits = Visited]
        PROVE  Spends
    <2>1. e'.visits = Visited /\ e'.restarts = e.restarts
      BY <1>3 DEF TypeOK, EngineVars
    <2>2. Visited = [e.visits EXCEPT ![e.cur] = @ + 1]
      BY RunAssumption DEF Visited
    <2>3. e.visits[e.cur] \in Nat /\ Visited[e.cur] = e.visits[e.cur] + 1
      BY <1>1, <2>2 DEF Counts
    <2>4. e.visits[e.cur] < VisitLimit
      <3>1. VisitLimit \in Nat
        BY RunAssumption
      <3>2. ~(Visited[e.cur] >= VisitLimit)
        BY <1>3, Zenon DEF Stuck
      <3> QED BY <2>3, <3>1, <3>2
    <2>5. Cardinality(Ahead(Visited)) < Cardinality(Ahead(e.visits))
      BY <1>1, <2>2, <2>4, VisitSpent
    <2> QED BY <2>1, <2>5 DEF Spends, LoopsAhead
  <1>4. CASE GateRetry
    <2>1. CASE e' = e /\ pc' = "persist"
      BY <1>2, <1>4, <2>1 DEF GateRetry, PointsAhead
    <2>2. CASE \E m : e' = [e EXCEPT !.cur = m, !.visits = Visited]
      BY <1>3, <1>4, <2>2 DEF GateRetry
    <2> QED BY <1>4, <2>1, <2>2 DEF GateRetry, Conclude
  <1>5. CASE StartStage
    BY <1>3, <1>5 DEF StartStage
  <1>6. CASE LoopRestart
    <2>1. e'.restarts = e.restarts + 1 /\ e.restarts \in Nat
      BY <1>6, RunAssumption DEF LoopRestart, Relaunched, TypeOK, EngineVars, Root
    <2> QED BY <1>1, <2>1, RunAssumption DEF Spends, LoopsAhead
  <1>7. CASE EndStage
    <2>1. e'.restarts = e.restarts /\ e'.visits = e.visits
      BY <1>7 DEF EndStage, TypeOK, EngineVars
    <2>2. PointsAhead' < PointsAhead
      BY <1>7 DEF EndStage, PointsAhead
    <2> QED BY <1>2, <2>1, <2>2
  <1>8. CASE RecordStage
    <2>1. e'.restarts = e.restarts /\ e'.visits = e.visits
      BY <1>8 DEF RecordStage, TypeOK, EngineVars
    <2>2. pc = "record" /\ pc' \in {"persist", "commit"}
      BY <1>8 DEF RecordStage, Conclude
    <2>3. PointsAhead' < PointsAhead
      BY <2>2 DEF PointsAhead
    <2> QED BY <1>2, <2>1, <2>3
  <1>9. CASE Commit
    <2>1. e'.restarts = e.restarts /\ e'.visits = e.visits
      BY <1>9 DEF Commit, TypeOK, EngineVars
    <2>2. PointsAhead' < PointsAhead
      BY <1>9 DEF Commit, PointsAhead
    <2> QED BY <1>2, <2>1, <2>2
  <1>10. CASE RouteHop
    <2>1. e'.restarts = e.restarts /\ e'.visits = e.visits
      BY <1>10 DEF RouteHop, TypeOK, EngineVars
    <2>2. PointsAhead' < PointsAhead
      BY <1>10 DEF RouteHop, PointsAhead
    <2> QED BY <1>2, <2>1, <2>2
  <1>11. CASE EnterCanceled \/ EnterStuck \/ StageCanceled \/ RouteEnd \/ RefuseRestart
    <2>1. e' = e /\ pc \in {"enter", "record", "route"} /\ pc' = "persist"
      BY <1>11 DEF EnterCanceled, EnterStuck, StageCanceled, RouteEnd, RefuseRestart, Conclude
    <2>2. PointsAhead' < PointsAhead
      BY <2>1 DEF PointsAhead
    <2> QED BY <1>2, <2>1, <2>2
  <1>12. CASE SaveCheckpoint \/ Announce
    <2>1. e' = e /\ \/ pc = "save" /\ pc' = "announce"
                    \/ pc = "announce" /\ pc' \in {"persist", "route"}
      BY <1>12 DEF SaveCheckpoint, Announce, Conclude
    <2>2. PointsAhead' < PointsAhead
      BY <2>1 DEF PointsAhead
    <2> QED BY <1>2, <2>1, <2>2
  <1>13. CASE PersistCurrent \/ PersistBase \/ CompleteRun
    <2>1. e' = e /\ \/ pc = "persist" /\ pc' \in {"complete", "persist_base"}
                    \/ pc = "persist_base" /\ pc' = "complete"
                    \/ pc = "complete" /\ pc' = "ended"
      BY <1>13 DEF PersistCurrent, PersistBase, CompleteRun
    <2>2. PointsAhead' < PointsAhead
      BY <2>1 DEF PointsAhead
    <2> QED BY <1>2, <2>1, <2>2
  <1> QED BY <1>4, <1>5, <1>6, <1>7, <1>8, <1>9, <1>10, <1>11, <1>12, <1>13 DEF Engine

\* Budgets add up: what is spent of a greater one outweighs what it frees of the
\* smaller ones.
LEMMA BudgetFalls ==
    ASSUME NEW a \in Nat, NEW b \in Nat, NEW c \in Nat, NEW x \in Nat, NEW y \in Nat, NEW z \in Nat,
           NEW w \in Nat, y <= w, z <= 10,
           \/ x < a
           \/ x = a /\ y < b
           \/ x = a /\ y = b /\ z < c
    PROVE  (x * (w + 1) + y) * 11 + z < (a * (w + 1) + b) * 11 + c
  <1>1. CASE x < a
    <2>1. PICK d \in Nat : a = x + 1 + d
      <3>1. a - x - 1 \in Nat /\ a = x + 1 + (a - x - 1)
        BY <1>1
      <3> QED BY <3>1
    <2>2. a * (w + 1) = x * (w + 1) + (w + 1) + d * (w + 1)
      BY <2>1
    <2>3. PICK p \in Nat, q \in Nat : p = x * (w + 1) /\ q = d * (w + 1)
      OBVIOUS
    <2> QED BY <2>2, <2>3
  <1>2. CASE x = a
    <2>1. PICK p \in Nat : p = a * (w + 1)
      OBVIOUS
    <2>2. x * (w + 1) = p
      BY <1>2, <2>1
    <2>3. CASE y < b
      BY <1>2, <2>1, <2>2, <2>3
    <2>4. CASE y = b /\ z < c
      BY <1>2, <2>1, <2>2, <2>4
    <2> QED BY <1>2, <2>3, <2>4
  <1> QED BY <1>1, <1>2

BudgetTyped ==
    /\ LoopsAhead \in Nat /\ LoopsAhead <= MaxRestarts
    /\ Cardinality(Ahead(e.visits)) \in Nat
    /\ Cardinality(Ahead(e.visits)) <= Cardinality(Visits)
    /\ PointsAhead \in Nat /\ PointsAhead <= 10

LEMMA BudgetType == TypeOK => BudgetTyped
  <1> SUFFICES ASSUME TypeOK PROVE BudgetTyped
    OBVIOUS
  <1>1. e.restarts \in 0 .. MaxRestarts /\ e.visits \in Counts
    BY DEF TypeOK, EngineVars, Root
  <1>2. LoopsAhead \in Nat /\ LoopsAhead <= MaxRestarts
    BY <1>1, RunAssumption DEF LoopsAhead
  <1>3. PointsAhead \in Nat /\ PointsAhead <= 10
    BY DEF PointsAhead
  <1> QED BY <1>1, <1>2, <1>3, AheadIn DEF BudgetTyped

LEMMA StepsLessen ==
    ASSUME VisitLimit > 0, TypeOK, TypeOK', BudgetTyped, BudgetTyped', Engine
    PROVE  StepsAhead' < StepsAhead
  <1>1. Spends
    BY EngineSpends
  <1>3. \/ LoopsAhead' < LoopsAhead
        \/ LoopsAhead' = LoopsAhead /\ Cardinality(Ahead(e'.visits)) < Cardinality(Ahead(e.visits))
        \/ /\ LoopsAhead' = LoopsAhead
           /\ Cardinality(Ahead(e'.visits)) = Cardinality(Ahead(e.visits))
           /\ PointsAhead' < PointsAhead
    BY <1>1 DEF Spends
  <1>4. PICK a, b, c, x, y, z, w :
           /\ a = LoopsAhead /\ b = Cardinality(Ahead(e.visits)) /\ c = PointsAhead
           /\ x = LoopsAhead' /\ y = Cardinality(Ahead(e'.visits)) /\ z = PointsAhead'
           /\ w = Cardinality(Visits)
    OBVIOUS
  <1>5. StepsAhead = (a * (w + 1) + b) * 11 + c /\ StepsAhead' = (x * (w + 1) + y) * 11 + z
    BY <1>4 DEF StepsAhead
  <1>6. /\ a \in Nat /\ b \in Nat /\ c \in Nat /\ x \in Nat /\ y \in Nat /\ z \in Nat /\ w \in Nat
        /\ y <= w /\ z <= 10
    BY <1>4, AheadIn DEF BudgetTyped
  <1>7. x < a \/ (x = a /\ y < b) \/ (x = a /\ y = b /\ z < c)
    BY <1>3, <1>4
  <1> QED BY <1>5, <1>6, <1>7, BudgetFalls

FewAhead ==
    /\ StepsAhead \in Nat
    /\ StepsAhead < (MaxRestarts + 1) * (Cardinality(Node) * VisitLimit + 1) * 11

Fewer ==
    /\ Engine => StepsAhead' < StepsAhead
    /\ Cancel => StepsAhead' = StepsAhead

LEMMA StepsFew ==
    TypeOK => FewAhead
  <1> SUFFICES ASSUME TypeOK PROVE FewAhead
    OBVIOUS
  <1>1. BudgetTyped
    BY BudgetType
  <1>2. PICK a, b, c, w :
           /\ a = LoopsAhead /\ b = Cardinality(Ahead(e.visits)) /\ c = PointsAhead
           /\ w = Cardinality(Visits)
    OBVIOUS
  <1>3. /\ a \in Nat /\ b \in Nat /\ c \in Nat /\ w \in Nat
        /\ a <= MaxRestarts /\ b <= w /\ c <= 10
    BY <1>1, <1>2, AheadIn DEF BudgetTyped
  <1>4. StepsAhead = (a * (w + 1) + b) * 11 + c
    BY <1>2 DEF StepsAhead
  <1>5. a * (w + 1) \in Nat
    BY <1>3
  <1>6. MaxRestarts + 1 \in Nat /\ w + 1 \in Nat /\ a < MaxRestarts + 1
    BY <1>3, RunAssumption
  <1>7. (a * (w + 1) + b) * 11 + c < ((MaxRestarts + 1) * (w + 1) + 0) * 11 + 0
    BY <1>3, <1>6, BudgetFalls
  <1> QED BY <1>2, <1>3, <1>4, <1>5, <1>6, <1>7, AheadIn DEF FewAhead

\* With a visit limit, on any graph and whatever the stages return, every step of
\* the engine leaves fewer steps ahead of it and a cancellation no more, and there
\* are never more than the limits and the graph allow: restarts, gates sent back
\* and cycles cannot keep a run going.  Only a resume, which is a new engine, begins
\* to count anew.
THEOREM RunStepsAreFew ==
    VisitLimit > 0 =>
        (Spec => /\ [][Fewer]_vars
                 /\ []FewAhead)
  <1> SUFFICES ASSUME VisitLimit > 0
               PROVE  Spec => /\ [][Fewer]_vars
                              /\ []FewAhead
    OBVIOUS
  <1>1. TypeOK /\ TypeOK' /\ BudgetTyped /\ BudgetTyped' /\ [Next]_vars =>
           [Fewer]_vars
    <2>1. ASSUME Cancel PROVE StepsAhead' = StepsAhead
      BY <2>1 DEF Cancel, StepsAhead, LoopsAhead, PointsAhead
    <2> QED BY <2>1, StepsLessen DEF Fewer
  <1> QED BY <1>1, RunTypeCorrect, BudgetType, StepsFew, PTL DEF Spec
=============================================================================
