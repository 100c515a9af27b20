-------------------------- MODULE RunHistoryProofs --------------------------
(***************************************************************************)
(* Four promises across crashes and resumes, for every graph, when a run   *)
(* is resumed from the checkpoint CXDB points to: the cycle breaker        *)
(* forgets no failure, a success in the base root's final.json stays true, *)
(* no run succeeds past an unsatisfied goal gate, and the announced        *)
(* checkpoints are one walk through the graph.                             *)
(*                                                                         *)
(* The first rests on an order of writes: a failure is counted and found   *)
(* to be below the limit before its checkpoint is written (CountedFirst),  *)
(* and is announced only after (SavedCounts).  The others rest on what a   *)
(* resume would find: the outcome on disk is the one the engine routes by  *)
(* (OnDisk); after a success it leads nowhere (Finished); and where an     *)
(* attempt was cut short, so that a status file and the checkpoint differ, *)
(* it is the node attempted next (GatesRestorable, Restorable).            *)
(***************************************************************************)
EXTENDS RunLoopProofs

\* The history only watches.
LEMMA HistoryIsRun == HSpec => Spec
  <1>1. HInit => Init
    BY DEF HInit
  <1>2. [HNext]_hvars => [Next]_vars
    BY DEF HNext, hvars
  <1> QED BY <1>1, <1>2, PTL DEF HSpec, Spec

LEMMA HistoryType == HSpec => []IInv
  BY HistoryIsRun, RunInductive, PTL

-----------------------------------------------------------------------------
(* The cycle breaker *)

\* What the breaker knows, in the checkpoint a resume will take.
PointerCounts ==
    checkpoint[pointer] # NoCheckpoint =>
        \A s \in Signature : failures[s] <= checkpoint[pointer].loopSigs[s]

EngineCounts == Running => \A s \in Signature : failures[s] <= e.loopSigs[s]

SavedCounts == pc = "announce" => checkpoint[e.root].loopSigs = e.loopSigs

\* A failure is counted, and found to be below the limit, before the checkpoint.
CountedFirst ==
    pc \in {"commit", "save", "announce"} /\ e.cur \notin Terminal /\ Tracked(e.out) =>
        /\ failures[restartFailureSignature] < e.loopSigs[restartFailureSignature]
        /\ e.loopSigs[restartFailureSignature] < SignatureLimit

BreakerInv ==
    /\ failures \in SigCounts
    /\ PointerCounts
    /\ EngineCounts
    /\ SavedCounts
    /\ CountedFirst
    /\ \A s \in Signature : failures[s] < SignatureLimit

LEMMA BreakerInit == HInit => BreakerInv
  <1> SUFFICES ASSUME HInit PROVE BreakerInv
    OBVIOUS
  <1>1. failures = NoSigs /\ failures \in SigCounts
    BY SigsType DEF HInit
  <1>2. PointerCounts
    BY RunAssumption DEF HInit, Init, PointerCounts, Root
  <1>3. EngineCounts
    BY <1>1, StartedType DEF HInit, Init, EngineCounts, NoSigs
  <1> QED
    BY <1>1, <1>2, <1>3, RunAssumption
    DEF HInit, Init, BreakerInv, SavedCounts, CountedFirst, NoSigs

LEMMA BreakerStep ==
    ASSUME ResumeFrom = "cxdb", TypeOK, BreakerInv, [HNext]_hvars
    PROVE  BreakerInv'
  <1> USE DEF Conclude, files, Gone, Running
  <1>t. /\ e \in EngineVars /\ pointer \in Root /\ checkpoint \in [Root -> Checkpoint \cup {NoCheckpoint}]
        /\ failures \in [Signature -> Nat] /\ e.loopSigs \in [Signature -> Nat]
        /\ e.cur \in Node /\ e.root \in Root
    BY DEF TypeOK, BreakerInv, EngineVars, SigCounts
  <1>s. Tracked(e.out) => restartFailureSignature \in Signature
    BY <1>t, TrackedSigned
  <1>1. CASE UNCHANGED hvars
    BY <1>1
    DEF hvars, vars, restartFailureSignature, BreakerInv, PointerCounts, EngineCounts, SavedCounts,
        CountedFirst
  <1>2. CASE Announce /\ HNext
    <2>1. pointer' = e.root /\ UNCHANGED <<e, checkpoint>> /\ pc = "announce" /\ pc' \in {"route", "persist"}
      BY <1>2 DEF Announce
    <2>2. CASE e.cur \notin Terminal /\ Tracked(e.out)
      <3>1. failures' = [failures EXCEPT ![restartFailureSignature] = @ + 1]
        BY <1>2, <2>1, <2>2 DEF HNext, Announcing
      <3>2. \A s \in Signature : failures'[s] <= e.loopSigs[s]
        BY <1>t, <1>s, <2>1, <2>2, <3>1 DEF BreakerInv, EngineCounts, CountedFirst
      <3>3. \A s \in Signature : failures'[s] < SignatureLimit
        BY <1>t, <1>s, <2>1, <2>2, <3>1, RunAssumption DEF BreakerInv, CountedFirst
      <3>4. failures' \in SigCounts
        BY <1>s, <2>2, <3>1, SigsType DEF BreakerInv
      <3> QED
        BY <2>1, <3>2, <3>3, <3>4
        DEF BreakerInv, PointerCounts, EngineCounts, SavedCounts, CountedFirst
    <2>3. CASE ~(e.cur \notin Terminal /\ Tracked(e.out))
      <3>1. failures' = failures
        BY <1>2, <2>3 DEF HNext
      <3> QED
        BY <2>1, <3>1
        DEF BreakerInv, PointerCounts, EngineCounts, SavedCounts, CountedFirst
    <2> QED BY <2>2, <2>3
  <1> DEFINE Quiet == failures' = failures
  <1>3. CASE SaveCheckpoint /\ Quiet
    <2>1. checkpoint'[e.root].loopSigs = e.loopSigs
      BY <1>3, <1>t DEF SaveCheckpoint
    <2>2. PointerCounts'
      <3>1. CASE pointer = e.root
        BY <1>3, <2>1, <3>1 DEF SaveCheckpoint, PointerCounts, BreakerInv, EngineCounts
      <3>2. CASE pointer # e.root
        BY <1>3, <1>t, <3>2 DEF SaveCheckpoint, PointerCounts, BreakerInv
      <3> QED BY <3>1, <3>2
    <2> QED
      BY <1>3, <2>1, <2>2
      DEF SaveCheckpoint, BreakerInv, EngineCounts, SavedCounts, CountedFirst, restartFailureSignature
  <1>4. CASE RecordStage /\ Quiet
    <2>1. PointerCounts' /\ pc' \in {"commit", "persist"} /\ pc = "record"
      BY <1>4 DEF RecordStage, PointerCounts, BreakerInv
    <2>2. CASE e.cur \notin Terminal /\ Tracked(e.out)
      <3>1. /\ e'.loopSigs = [e.loopSigs EXCEPT ![restartFailureSignature] = @ + 1]
            /\ e'.cur = e.cur /\ e'.out = e.out
            /\ pc' = "commit" => ~(e'.loopSigs[restartFailureSignature] >= SignatureLimit)
        BY <1>4, <1>t, <2>2 DEF RecordStage, EngineVars
      <3> QED
        BY <1>4, <1>t, <1>s, <2>1, <2>2, <3>1, RunAssumption
        DEF BreakerInv, EngineCounts, SavedCounts, CountedFirst, restartFailureSignature
    <2>3. CASE ~(e.cur \notin Terminal /\ Tracked(e.out))
      <3>1. e'.loopSigs = e.loopSigs /\ e'.cur = e.cur /\ e'.out = e.out
        BY <1>4, <1>t, <2>3 DEF RecordStage, EngineVars
      <3> QED
        BY <1>4, <2>1, <2>3, <3>1
        DEF BreakerInv, EngineCounts, SavedCounts, CountedFirst, restartFailureSignature
    <2> QED BY <2>2, <2>3
  <1>5. CASE Commit /\ Quiet
    <2>1. e'.loopSigs = e.loopSigs /\ e'.cur = e.cur /\ e'.out = e.out
      BY <1>5, <1>t DEF Commit, EngineVars
    <2> QED
      BY <1>5, <2>1
      DEF Commit, BreakerInv, PointerCounts, EngineCounts, SavedCounts, CountedFirst,
          restartFailureSignature
  <1>6. ASSUME Quiet, UNCHANGED <<checkpoint, pointer>>, pc \notin Gone, e'.loopSigs = e.loopSigs,
               pc' \notin {"commit", "save", "announce"}
        PROVE  BreakerInv'
    BY <1>6 DEF BreakerInv, PointerCounts, EngineCounts, SavedCounts, CountedFirst
  <1>7. CASE (StartStage \/ EndStage \/ RouteHop \/ LoopRestart) /\ Quiet
    BY <1>6, <1>7, <1>t DEF StartStage, EndStage, RouteHop, LoopRestart, Relaunched, EngineVars
  <1>8. CASE GateRetry /\ Quiet
    BY <1>6, <1>8, <1>t DEF GateRetry, EngineVars
  <1>9. CASE Quiet /\ Cancel
    BY <1>9 DEF Cancel, BreakerInv, PointerCounts, EngineCounts, SavedCounts, CountedFirst,
                restartFailureSignature
  <1>10. CASE Quiet /\ Crash
    BY <1>10 DEF Crash, BreakerInv, PointerCounts, EngineCounts, SavedCounts, CountedFirst
  <1>11. ASSUME NEW k \in Root, Quiet, ResumeUnloadable(k) PROVE BreakerInv'
    BY <1>11 DEF ResumeUnloadable, BeginResume, BreakerInv, PointerCounts, EngineCounts, SavedCounts,
        CountedFirst
  <1>12. ASSUME NEW k \in Root, NEW git \in ResumeGit, Quiet,
                ResumeFails(k, git) \/ ResumeNothing(k, git) \/ ResumeRuns(k, git)
         PROVE  BreakerInv'
    <2>1. Loadable(k) /\ k = pointer /\ UNCHANGED <<checkpoint, pointer>>
      BY <1>12 DEF ResumeFails, ResumeNothing, ResumeRuns, BeginResume, Resumable
    <2>2. Restored(k, git) \in EngineVars /\ checkpoint[k] \in Checkpoint
      BY <2>1, RestoredType DEF Loadable
    <2>3. Restored(k, git).loopSigs = checkpoint[k].loopSigs
      BY FreshType DEF Restored, FreshEngine
    <2>4. e'.loopSigs = Restored(k, git).loopSigs /\ pc' \notin {"commit", "save", "announce"}
      BY <1>12, <2>2 DEF ResumeFails, ResumeNothing, ResumeRuns, EngineVars
    <2> QED
      BY <1>12, <2>1, <2>3, <2>4
      DEF BreakerInv, PointerCounts, EngineCounts, SavedCounts, CountedFirst, Loadable
  <1>13. ASSUME Quiet, UNCHANGED <<e, checkpoint, pointer>>, pc \notin Gone,
                pc' \notin {"commit", "save", "announce"}
         PROVE  BreakerInv'
    BY <1>6, <1>13
  <1>14. ASSUME HNext, ~Announce PROVE Quiet
    <2>1. ~Announcing
      BY <1>14 DEF HNext, Next, Announcing, Engine, EnterCanceled, EnterStuck, GateRetry, StartStage,
        EndStage, StageCanceled, RecordStage, Commit, SaveCheckpoint, RouteHop, RouteEnd,
        RefuseRestart, LoopRestart, PersistCurrent, PersistBase, CompleteRun, Cancel, Crash,
        Resume, ResumeUnloadable, ResumeFails, ResumeNothing, ResumeRuns, BeginResume
    <2> QED BY <1>14, <2>1 DEF HNext
  <1>15. CASE CompleteRun /\ Quiet
    BY <1>13, <1>15 DEF CompleteRun
  <1> HIDE DEF Quiet
  <1> QED
    BY <1>1, <1>2, <1>3, <1>4, <1>5, <1>7, <1>8, <1>9, <1>10, <1>11, <1>12, <1>13, <1>14, <1>15
    DEF HNext, Next, Engine, EnterCanceled, EnterStuck, StageCanceled, RouteEnd,
        RefuseRestart, PersistCurrent, PersistBase, Resume

\* BreakerNeverForgets: neither a crash, a resume nor a loop restart lowers the
\* breaker's count, and no node is checkpointed with the limit of failures.
THEOREM FailuresAreKept ==
    ASSUME ResumeFrom = "cxdb"
    PROVE  HSpec => []BreakerNeverForgets
  <1>1. HInit => BreakerInv
    BY BreakerInit
  <1>2. IInv /\ BreakerInv /\ [HNext]_hvars => BreakerInv'
    BY BreakerStep DEF IInv
  <1>3. BreakerInv => BreakerNeverForgets
    BY DEF BreakerInv, EngineCounts, BreakerNeverForgets
  <1> QED BY <1>1, <1>2, <1>3, HistoryType, PTL DEF HSpec

-----------------------------------------------------------------------------
(* The success of the base root *)

LEMMA ExitFinishes ==
    ASSUME ExitsEnd, NEW n \in Terminal, NEW o \in Outcomes[n], NEW join
    PROVE  Decide(Graph, n, o, join).kind = "finish"
  <1>1. SelectAllEligibleEdges(Graph, n, o) = {}
    BY EligibleEdges, RunAssumption DEF ExitsEnd
  <1>2. FanOut(Graph, n, o) = NoNode
    BY <1>1, FS_EmptySet DEF FanOut
  <1>3. ResolveNextHop(Graph, n, o) = Stop
    BY <1>1 DEF ResolveNextHop, FailingFanIn, ExitsEnd
  <1>4. n \notin Graph.parallel /\ o.status # "fail"
    BY DEF ExitsEnd, Failing
  <1> QED BY <1>2, <1>3, <1>4 DEF Decide, Stop

Ending == {"persist", "persist_base", "complete"}

\* A resume of root k finds nothing left to do, for the right reason.
Finished(k) ==
    /\ ResumeDecision(k).kind = "finish"
    /\ LastOutcome(k) = truth[k][checkpoint[k].node]

\* The engine's outcome is the one on disk.
OutcomeOnDisk ==
    pc \in {"record", "commit", "save", "announce", "route"} =>
        e.out \in Outcomes[e.cur] /\ status[e.root][e.cur] = e.out

\* So is what it routes by.
RouteOnDisk ==
    /\ pc \in {"announce", "route"} =>
          /\ checkpoint[e.root].node = e.cur
          /\ checkpoint[e.root].join = e.join
          /\ truth[e.root][e.cur] = e.out
    /\ pc = "route" => pointer = e.root

OnDisk ==
    /\ truth \in [Root -> [Node -> AnyOutcome]]
    /\ OutcomeOnDisk
    /\ RouteOnDisk

LEMMA OnDiskInit == HInit => OnDisk
  BY FreshType DEF HInit, Init, OnDisk, OutcomeOnDisk, RouteOnDisk

\* The truth changes with a checkpoint and with a restart.
LEMMA TruthMoves ==
    ASSUME TypeOK, HNext, truth' # truth
    PROVE  SaveCheckpoint \/ LoopRestart
  <1>1. Saving \/ Restarting
    BY DEF HNext
  <1> QED
    BY <1>1 DEF HNext, Next, Saving, Restarting, Engine, Conclude, Gone, EnterCanceled, EnterStuck,
        GateRetry, StartStage, EndStage, StageCanceled, RecordStage, Commit, Announce, RouteHop,
        RouteEnd, RefuseRestart, PersistCurrent, PersistBase, CompleteRun, Cancel, Crash,
        Resume, ResumeUnloadable, ResumeFails, ResumeNothing, ResumeRuns, BeginResume,
        TypeOK, EngineVars

LEMMA TruthSaved ==
    ASSUME SaveCheckpoint, HNext
    PROVE  truth' = [truth EXCEPT ![e.root][e.cur] = e.out]
  BY DEF SaveCheckpoint, HNext, Saving

LEMMA TruthForgotten ==
    ASSUME TypeOK, RootIsRestarts, LoopRestart, HNext
    PROVE  /\ e'.root = e.root + 1 /\ e'.root # e.root /\ e'.root \in Root
           /\ truth' = [truth EXCEPT ![e'.root] = NoStatus]
  <1>1. e \in EngineVars /\ e.root \in Root
    BY DEF TypeOK, EngineVars
  <1>2. e' = Relaunched /\ pc = "route" /\ pc' = "enter" /\ ~(e.restarts + 1 > MaxRestarts)
    BY DEF LoopRestart, RestartRefused
  <1>3. e.restarts = e.root
    BY <1>2 DEF RootIsRestarts, Running, Gone
  <1>4. e'.root = e.root + 1
    BY <1>1, <1>2, <1>3 DEF Relaunched, EngineVars
  <1>5. e'.root # e.root /\ e'.root \in Root
    BY <1>1, <1>2, <1>3, <1>4, RunAssumption DEF Root
  <1> QED BY <1>2, <1>4, <1>5 DEF HNext, Saving, Restarting

LEMMA OnDiskStep ==
    ASSUME TypeOK, RootIsRestarts, OnDisk, [HNext]_hvars
    PROVE  OnDisk'
  <1> USE DEF Conclude, files, Gone
  <1>t. /\ e \in EngineVars /\ e.cur \in Node /\ e.root \in Root /\ e.out \in AnyOutcome
        /\ checkpoint \in [Root -> Checkpoint \cup {NoCheckpoint}]
        /\ status \in [Root -> [Node -> AnyOutcome]] /\ truth \in [Root -> [Node -> AnyOutcome]]
    BY DEF TypeOK, OnDisk, EngineVars
  <1> DEFINE Quiet == truth' = truth
  <1>1. ASSUME Quiet, UNCHANGED <<pc, e, checkpoint, status, pointer>> PROVE OnDisk'
    BY <1>1 DEF OnDisk, OutcomeOnDisk, RouteOnDisk
  <1>2. ASSUME Quiet, pc' \notin {"record", "commit", "save", "announce", "route"} PROVE OnDisk'
    BY <1>2 DEF OnDisk, OutcomeOnDisk, RouteOnDisk
  <1>3. CASE SaveCheckpoint /\ HNext
    <2>s. truth' = [truth EXCEPT ![e.root][e.cur] = e.out]
      BY <1>3, TruthSaved
    <2>1. truth' \in [Root -> [Node -> AnyOutcome]] /\ truth'[e.root][e.cur] = e.out
      BY <1>t, <2>s
    <2>2. checkpoint'[e.root].node = e.cur /\ checkpoint'[e.root].join = e.join
      BY <1>3, <1>t DEF SaveCheckpoint
    <2> QED BY <1>3, <2>1, <2>2 DEF SaveCheckpoint, OnDisk, OutcomeOnDisk, RouteOnDisk
  <1>4. CASE LoopRestart /\ HNext
    <2>1. truth' \in [Root -> [Node -> AnyOutcome]]
      BY <1>4, <1>t, TruthForgotten, FreshType
    <2> QED BY <1>4, <2>1 DEF LoopRestart, OnDisk, OutcomeOnDisk, RouteOnDisk
  <1>5. CASE Announce /\ Quiet
    BY <1>5 DEF Announce, OnDisk, OutcomeOnDisk, RouteOnDisk
  <1>6. CASE EndStage /\ Quiet
    <2>1. PICK o \in Outcomes[e.cur] :
              /\ e' = [e EXCEPT !.out = o]
              /\ status' = [status EXCEPT ![e.root][e.cur] = o]
      BY <1>6 DEF EndStage
    <2>2. e'.out = o /\ e'.cur = e.cur /\ e'.root = e.root /\ status'[e.root][e.cur] = o
      BY <1>t, <2>1 DEF EngineVars
    <2> QED BY <1>6, <2>2 DEF EndStage, OnDisk, OutcomeOnDisk, RouteOnDisk
  <1>7. CASE (RecordStage \/ Commit) /\ Quiet
    <2>1. /\ e'.out = e.out /\ e'.cur = e.cur /\ e'.root = e.root
          /\ pc \in {"record", "commit"} /\ pc' \in {"commit", "save", "persist"} /\ UNCHANGED status
      BY <1>7, <1>t DEF RecordStage, Commit, EngineVars
    <2> QED BY <1>7, <2>1 DEF OnDisk, OutcomeOnDisk, RouteOnDisk
  <1>8. CASE GateRetry /\ Quiet
    BY <1>2, <1>8 DEF GateRetry
  <1>9. CASE Resume /\ Quiet
    BY <1>2, <1>9 DEF Resume, ResumeUnloadable, ResumeFails, ResumeNothing, ResumeRuns
  <1>10. CASE UNCHANGED hvars
    BY <1>1, <1>10 DEF hvars, vars
  <1>11. ASSUME HNext PROVE SaveCheckpoint \/ LoopRestart \/ Quiet
    BY <1>11, TruthMoves
  <1> HIDE DEF Quiet
  <1> QED
    BY <1>1, <1>2, <1>3, <1>4, <1>5, <1>6, <1>7, <1>8, <1>9, <1>10, <1>11
    DEF HNext, Next, Engine, EnterCanceled, EnterStuck, StartStage, StageCanceled, RouteHop, RouteEnd,
        RefuseRestart, PersistCurrent, PersistBase, CompleteRun, Cancel, Crash

LEMMA HistoryInductive == HSpec => [](IInv /\ OnDisk)
  <1>1. IInv /\ OnDisk /\ [HNext]_hvars => OnDisk'
    BY OnDiskStep DEF IInv
  <1> QED BY <1>1, OnDiskInit, HistoryType, PTL DEF HSpec

SuccessInv ==
    /\ pc \in Ending /\ verdict = "success" => Finished(pointer)
    /\ final[0] = "success" => Finished(pointer) /\ pc \in Ending \cup Gone

LEMMA SuccessInit == HInit => SuccessInv
  BY RunAssumption DEF HInit, Init, SuccessInv, Ending, Root

LEMMA SuccessStep ==
    ASSUME ResumeFrom = "cxdb", ExitsEnd, TypeOK, OnDisk, SuccessInv, [HNext]_hvars
    PROVE  SuccessInv'
  <1> USE DEF Conclude, files, Gone, Ending
  <1>t. final \in [Root -> {"none", "success", "fail", "canceled"}] /\ 0 \in Root
    BY RunAssumption DEF TypeOK, Root
  <1> DEFINE Quiet == truth' = truth
             Kept == UNCHANGED <<checkpoint, status, truth, pointer>>
  <1>1. Kept => (Finished(pointer) => Finished(pointer)')
    BY DEF Finished, ResumeDecision, LastOutcome
  <1>2. CASE UNCHANGED hvars
    BY <1>1, <1>2 DEF hvars, vars, SuccessInv
  \* Before the end, final.json of the base root cannot say success.
  <1>3. ASSUME pc \notin Ending \cup Gone, final' = final, pc' \notin Ending \/ verdict' # "success"
        PROVE  SuccessInv'
    BY <1>3 DEF SuccessInv
  <1>4. CASE SaveCheckpoint \/ LoopRestart \/ RouteHop \/ StartStage \/ EndStage \/ Commit
    BY <1>3, <1>4 DEF SaveCheckpoint, LoopRestart, RouteHop, StartStage, EndStage, Commit
  <1>5. CASE EnterCanceled \/ EnterStuck \/ StageCanceled \/ RefuseRestart
    BY <1>3, <1>5 DEF EnterCanceled, EnterStuck, StageCanceled, RefuseRestart, Done, TypeOK
  <1>6. CASE GateRetry \/ RecordStage
    BY <1>3, <1>6 DEF GateRetry, RecordStage
  <1>7. CASE Announce /\ Quiet
    <2>1. pointer' = e.root /\ UNCHANGED <<e, checkpoint, status, truth, final>>
          /\ pc = "announce" /\ final[0] # "success"
      BY <1>7 DEF Announce, SuccessInv
    <2>2. LastOutcome(e.root) = e.out /\ ResumeDecision(e.root) = Decide(Graph, e.cur, e.out, e.join)
      BY <2>1 DEF OnDisk, OutcomeOnDisk, RouteOnDisk, LastOutcome, ResumeDecision
    <2>3. CASE e.cur \in Terminal
      <3>1. ResumeDecision(e.root).kind = "finish"
        BY <2>1, <2>2, <2>3, ExitFinishes DEF OnDisk, OutcomeOnDisk
      <3>2. Finished(e.root)
        BY <2>1, <2>2, <3>1 DEF Finished, OnDisk, RouteOnDisk
      <3>3. Finished(pointer)'
        BY <2>1, <3>2 DEF Finished, ResumeDecision, LastOutcome
      <3> QED BY <1>7, <2>1, <2>3, <3>3 DEF Announce, SuccessInv
    <2>4. CASE e.cur \notin Terminal
      BY <1>7, <2>1, <2>4 DEF Announce, SuccessInv
    <2> QED BY <2>3, <2>4
  <1>8. CASE RouteEnd /\ Quiet
    <2>1. Kept /\ pc = "route" /\ pointer = e.root
      BY <1>8 DEF RouteEnd, OnDisk, RouteOnDisk
    <2>2. LastOutcome(pointer) = e.out /\ ResumeDecision(pointer) = Decision
      BY <2>1 DEF OnDisk, OutcomeOnDisk, RouteOnDisk, LastOutcome, ResumeDecision, Decision
    <2>3. Decision.kind = "finish" => Finished(pointer)
      BY <2>1, <2>2 DEF Finished, OnDisk, RouteOnDisk
    <2> QED BY <1>8, <1>1, <2>1, <2>3 DEF RouteEnd, SuccessInv
  <1>9. CASE (PersistCurrent \/ PersistBase) /\ Quiet
    <2>1. Kept /\ pc \in Ending /\ pc' \in Ending /\ verdict' = verdict
      BY <1>9 DEF PersistCurrent, PersistBase
    <2>2. final'[0] = "success" => verdict = "success" \/ final[0] = "success"
      BY <1>9, <1>t DEF PersistCurrent, PersistBase
    <2> QED BY <1>1, <1>9, <2>1, <2>2 DEF SuccessInv
  <1>10. CASE (CompleteRun \/ Crash \/ Cancel) /\ Quiet
    BY <1>1, <1>10 DEF CompleteRun, Crash, Cancel, SuccessInv
  <1>11. ASSUME NEW k \in Root, ResumeUnloadable(k), Quiet PROVE SuccessInv'
    <2>1. final'[0] = "success" => final[0] = "success"
      BY <1>11, <1>t DEF ResumeUnloadable
    <2> QED BY <1>1, <1>11, <2>1 DEF ResumeUnloadable, BeginResume, SuccessInv
  <1>12. ASSUME NEW k \in Root, NEW git \in ResumeGit,
                ResumeFails(k, git) \/ ResumeNothing(k, git), Quiet
         PROVE  SuccessInv'
    <2>1. /\ Kept
          /\ final' = final
          /\ pc' \in {"persist", "ended"}
          /\ pc' = "persist" => verdict' = "fail"
      BY <1>12 DEF ResumeFails, ResumeNothing, BeginResume
    <2> QED BY <1>1, <2>1 DEF SuccessInv
  <1>13. ASSUME NEW k \in Root, NEW git \in ResumeGit, ResumeRuns(k, git) PROVE SuccessInv'
    <2>1. k = pointer /\ final' = final /\ pc' = "enter"
      BY <1>13 DEF ResumeRuns, BeginResume, Resumable
    <2>2. final[0] # "success"
      BY <1>13, <2>1 DEF ResumeRuns, SuccessInv, Finished
    <2> QED BY <2>1, <2>2 DEF SuccessInv
  <1>14. ASSUME HNext PROVE SaveCheckpoint \/ LoopRestart \/ Quiet
    BY <1>14, TruthMoves
  <1> HIDE DEF Quiet, Kept
  <1> QED
    BY <1>2, <1>4, <1>5, <1>6, <1>7, <1>8, <1>9, <1>10, <1>11, <1>12, <1>13, <1>14
    DEF HNext, Next, Engine, Resume

\* SuccessIsFinal: once the base root's final.json says success, the announced
\* checkpoint is of a node after which nothing is left, however often the run is
\* resumed.
THEOREM SuccessIsTrue ==
    ASSUME ResumeFrom = "cxdb", ExitsEnd
    PROVE  HSpec => []SuccessIsFinal
  <1>1. HInit => SuccessInv
    BY SuccessInit
  <1>2. IInv /\ OnDisk /\ SuccessInv /\ [HNext]_hvars => SuccessInv'
    BY SuccessStep DEF IInv
  <1>3. SuccessInv => SuccessIsFinal
    BY DEF SuccessInv, Finished, ResumeDecision, LastOutcome, SuccessIsFinal
  <1> QED BY <1>1, <1>2, <1>3, HistoryInductive, PTL DEF HSpec

-----------------------------------------------------------------------------
(* The goal gates *)

\* A checkpoint is written after its node returned.
Completed(k) ==
    /\ checkpoint[k].node \in checkpoint[k].done
    /\ truth[k][checkpoint[k].node] \in Outcomes[checkpoint[k].node]
    /\ checkpoint[k].join \in Joins

\* The gate a resume of root k attempts next, and not the one it was left at.
NextGate(k, gate) == gate = ResumeDecision(k).to /\ gate # checkpoint[k].node

\* Where an attempt was cut short the status file of a gate says something else
\* than its checkpoint, but then the gate is attempted next.
GatesRestorable(k) ==
    \A gate \in Graph.gates : RestoredSeen(k)[gate] = truth[k][gate] \/ NextGate(k, gate)

OnDiskGates == AnyPointed => Completed(pointer) /\ GatesRestorable(pointer)

Before == {"enter", "stage", "record"}
After == {"commit", "save"}
DoneBefore == IF AnyPointed /\ e.root = pointer THEN checkpoint[pointer].done ELSE {}

\* On its way to the next checkpoint the engine knows every gate but the one it
\* is at, and so does the disk.
GateLeg ==
    /\ e.join \in Joins
    /\ ~AnyPointed => e.root = pointer
    /\ \A gate \in Graph.gates \ {e.cur} : e.seen[gate] = truth[e.root][gate]
    /\ IF AnyPointed /\ e.root = pointer
       THEN /\ \A gate \in Graph.gates \ {e.cur} : RestoredSeen(pointer)[gate] = truth[pointer][gate]
            /\ e.cur \in Graph.gates => NextGate(pointer, e.cur)
       ELSE truth[e.root] = NoStatus

GatesSaved ==
    /\ checkpoint[e.root] # NoCheckpoint
    /\ Completed(e.root)
    /\ e.done = checkpoint[e.root].done
    /\ \A gate \in Graph.gates :
          e.seen[gate] = truth[e.root][gate] /\ RestoredSeen(e.root)[gate] = truth[e.root][gate]

PastGates ==
    \/ pc \in {"stage", "record", "announce"} \cup After
    \/ pc = "persist" /\ verdict = "success"

GateInv ==
    /\ OnDiskGates
    /\ pc \in Before \cup After => GateLeg
    /\ pc \in Before => e.done = DoneBefore
    /\ pc \in After => e.done = DoneBefore \cup {e.cur} /\ e.seen[e.cur] = e.out
    /\ pc \in {"announce", "route"} => GatesSaved
    /\ pc = "route" => e.cur \notin Terminal
    /\ PastGates /\ e.cur \in Terminal => FailedGates(Graph, truth[e.root]) = {}

LEMMA GateInit == HInit => GateInv
  <1> SUFFICES ASSUME HInit PROVE GateInv
    OBVIOUS
  <1>1. ~AnyPointed /\ pointer = 0 /\ truth[pointer] = NoStatus /\ pc = "enter"
    BY RunAssumption DEF HInit, Init, AnyPointed, Pointed, Root
  <1>2. e.root = 0 /\ e.join = NoNode /\ e.seen = NoStatus /\ e.done = {} /\ e.cur = Start
    BY StartedType DEF HInit, Init
  <1> QED
    BY <1>1, <1>2
    DEF GateInv, OnDiskGates, GateLeg, Joins, DoneBefore, Before, After, PastGates

\* The gates on disk only depend on the files of the root CXDB points to.
LEMMA DiskGatesStay ==
    ASSUME OnDiskGates, UNCHANGED <<checkpoint, truth, pointer>>,
           AnyPointed => status'[pointer] = status[pointer]
    PROVE  OnDiskGates'
  BY DEF OnDiskGates, AnyPointed, Pointed, Completed, GatesRestorable, NextGate, RestoredSeen,
     ResumeDecision, LastOutcome

\* An attempt touches the status file of the node the engine is at, and nothing
\* else on disk.
LEMMA GateLegStays ==
    ASSUME TypeOK, OnDiskGates, GateLeg, NEW o,
           UNCHANGED <<checkpoint, truth, pointer>>,
           status' \in {status, [status EXCEPT ![e.root][e.cur] = o]},
           e'.root = e.root, e'.cur = e.cur, e'.join \in Joins,
           \A gate \in Graph.gates \ {e.cur} : e'.seen[gate] = e.seen[gate]
    PROVE  OnDiskGates' /\ GateLeg' /\ DoneBefore' = DoneBefore
  <1>t. /\ e.root \in Root /\ e.cur \in Node /\ pointer \in Root /\ Graph.gates \subseteq Node
        /\ status \in [Root -> [Node -> AnyOutcome]]
        /\ checkpoint \in [Root -> Checkpoint \cup {NoCheckpoint}]
    BY RunAssumption DEF TypeOK, EngineVars, IsGraph
  <1>1. /\ \A k \in Root \ {e.root} : status'[k] = status[k]
        /\ \A k \in Root : \A n \in Node \ {e.cur} : status'[k][n] = status[k][n]
    BY <1>t
  <1>2. AnyPointed' = AnyPointed /\ DoneBefore' = DoneBefore
    BY DEF AnyPointed, Pointed, DoneBefore
  <1>3. CASE AnyPointed /\ e.root = pointer
    <2>1. checkpoint[pointer].node \in Node
      BY <1>t, <1>3 DEF AnyPointed, Pointed, Checkpoint
    <2>2. ASSUME e.cur \in Graph.gates
          PROVE  NextGate(pointer, e.cur)'
      <3>1. NextGate(pointer, e.cur)
        BY <1>3, <2>2 DEF GateLeg
      <3>2. LastOutcome(pointer)' = LastOutcome(pointer)
        BY <1>1, <1>t, <2>1, <3>1 DEF NextGate, LastOutcome
      <3> QED BY <3>1, <3>2 DEF NextGate, ResumeDecision
    <2>3. \A gate \in Graph.gates \ {e.cur} : RestoredSeen(pointer)'[gate] = truth'[pointer'][gate]
      <3>1. \A gate \in Graph.gates \ {e.cur} : RestoredSeen(pointer)'[gate] = RestoredSeen(pointer)[gate]
        BY <1>1, <1>t DEF RestoredSeen
      <3> QED BY <1>3, <3>1 DEF GateLeg
    <2>4. GateLeg'
      BY <1>2, <1>3, <2>2, <2>3 DEF GateLeg
    <2>5. Completed(pointer)'
      BY <1>3 DEF OnDiskGates, Completed
    <2>6. GatesRestorable(pointer)'
      BY <2>2, <2>3 DEF GatesRestorable, NextGate
    <2> QED BY <1>2, <2>4, <2>5, <2>6 DEF OnDiskGates
  <1>4. CASE ~(AnyPointed /\ e.root = pointer)
    <2>1. AnyPointed => status'[pointer] = status[pointer]
      BY <1>1, <1>t, <1>4
    <2>2. OnDiskGates'
      BY <2>1, DiskGatesStay
    <2>3. GateLeg'
      BY <1>2, <1>4 DEF GateLeg
    <2> QED BY <1>2, <2>2, <2>3
  <1> QED BY <1>3, <1>4

\* From a gate the run goes on to another node.
LEMMA GateLeft ==
    ASSUME GatesRetriedElsewhere, NEW k \in Root, Completed(k),
           LastOutcome(k) = truth[k][checkpoint[k].node]
    PROVE  ResumeDecision(k).to \in Graph.gates => NextGate(k, ResumeDecision(k).to)
  <1>1. ResumeDecision(k).to \in Successors(checkpoint[k].node)
    BY DEF ResumeDecision, Successors, Completed
  <1> QED BY <1>1 DEF GatesRetriedElsewhere, NextGate

\* The join of a fan-out is one of the joins.
LEMMA FanOutJoins ==
    ASSUME NEW n \in Node, NEW o \in (UNION {Outcomes[m] : m \in Node}) \cup {Canceled}, NEW join,
           Decide(Graph, n, o, join).kind = "fan_out"
    PROVE  Decide(Graph, n, o, join).to \in Joins
  <1>1. Decide(Graph, n, o, join).to = FanOut(Graph, n, o)
    <2> DEFINE spread == FanOut(Graph, n, o)
               hop == ResolveNextHop(Graph, n, o)
               back == Fallback(Graph, n, o)
    <2>1. hop.kind \in {"stop", "hop", "restart"}
      BY DEF ResolveNextHop, Along, HopTo, Stop
    <2> QED BY <2>1 DEF Decide, HopTo
  <1> QED BY <1>1 DEF Joins

LEMMA GateStep ==
    ASSUME ResumeFrom = "cxdb", GatesRetriedElsewhere, IInv, OnDisk, GateInv, [HNext]_hvars
    PROVE  GateInv'
  <1> USE DEF Conclude, files, Gone, Before, After
  <1>t. /\ TypeOK /\ e \in EngineVars /\ pointer \in Root
        /\ checkpoint \in [Root -> Checkpoint \cup {NoCheckpoint}]
        /\ e.cur \in Node /\ e.root \in Root /\ status \in [Root -> [Node -> AnyOutcome]]
        /\ truth \in [Root -> [Node -> AnyOutcome]] /\ e.out \in AnyOutcome
        /\ e.seen \in [Node -> AnyOutcome] /\ e.done \subseteq Node /\ Graph.gates \subseteq Node
    BY RunAssumption DEF IInv, TypeOK, OnDisk, EngineVars, IsGraph
  <1> DEFINE Quiet == truth' = truth
             Still == UNCHANGED <<checkpoint, truth, pointer>>
  \* Steps after which no node is under way.
  <1>1. ASSUME Still, OnDiskGates',
               pc' \notin Before \cup After \cup {"announce", "route"},
               pc' = "persist" /\ verdict' = "success" =>
                   e'.cur \notin Terminal \/ (PastGates /\ e'.cur = e.cur /\ e'.root = e.root)
        PROVE  GateInv'
    BY <1>1 DEF GateInv, PastGates
  <1>2. CASE UNCHANGED <<pc, e, verdict, checkpoint, status, truth, pointer>>
    <2>1. OnDiskGates' /\ (GateLeg => GateLeg') /\ DoneBefore' = DoneBefore
      BY <1>2 DEF GateInv, OnDiskGates, GateLeg, DoneBefore, AnyPointed, Pointed, Completed,
         GatesRestorable, NextGate, RestoredSeen, ResumeDecision, LastOutcome
    <2>2. GatesSaved' = GatesSaved /\ PastGates' = PastGates
      BY <1>2 DEF GatesSaved, Completed, RestoredSeen, PastGates
    <2> QED BY <1>2, <2>1, <2>2 DEF GateInv
  \* A step of a leg that leaves the node where it is.
  <1>3. ASSUME Still, pc \in Before, pc' \in Before,
               \E o \in AnyOutcome : status' = [status EXCEPT ![e.root][e.cur] = o],
               e'.root = e.root, e'.cur = e.cur, e'.join = e.join, e'.seen = e.seen, e'.done = e.done,
               pc = "enter" /\ e.cur \in Terminal => FailedGates(Graph, e.seen) = {}
        PROVE  GateInv'
    <2>1. OnDiskGates' /\ GateLeg' /\ DoneBefore' = DoneBefore
      <3>1. e'.join \in Joins
        BY <1>3 DEF GateInv, GateLeg
      <3>2. PICK o \in AnyOutcome : status' = [status EXCEPT ![e.root][e.cur] = o]
        BY <1>3
      <3> QED BY <1>t, <1>3, <3>1, <3>2, GateLegStays DEF GateInv
    <2>2. e.cur \in Terminal => FailedGates(Graph, truth[e.root]) = {}
      <3>1. CASE pc = "enter"
        BY <1>3, <3>1 DEF GateInv, GateLeg, FailedGates, GatesRetriedElsewhere
      <3>2. CASE pc # "enter"
        BY <1>3, <3>2 DEF GateInv, PastGates
      <3> QED BY <3>1, <3>2
    <2> QED BY <1>3, <2>1, <2>2 DEF GateInv, PastGates
  <1>4. CASE (EnterCanceled \/ EnterStuck \/ RefuseRestart) /\ Quiet
    <2>1. Still /\ UNCHANGED <<status>> /\ pc' = "persist" /\ verdict' # "success"
      BY <1>4 DEF EnterCanceled, EnterStuck, RefuseRestart, Done, IInv, TypeOK
    <2> QED BY <1>1, <2>1, DiskGatesStay DEF GateInv
  <1>5. CASE RouteEnd /\ Quiet
    <2>1. Still /\ UNCHANGED <<status, e>> /\ pc' = "persist" /\ e.cur \notin Terminal
      BY <1>5 DEF RouteEnd, GateInv
    <2> QED BY <1>1, <2>1, DiskGatesStay DEF GateInv
  <1>6. CASE (PersistCurrent \/ PersistBase \/ CompleteRun \/ Crash) /\ Quiet
    <2>1. Still /\ UNCHANGED status /\ pc' \in {"persist_base", "complete", "ended", "down"}
      BY <1>6 DEF PersistCurrent, PersistBase, CompleteRun, Crash
    <2> QED BY <1>1, <2>1, DiskGatesStay DEF GateInv
  <1>7. ASSUME NEW k \in Root, NEW git \in ResumeGit, Quiet,
               ResumeFails(k, git) \/ ResumeNothing(k, git)
        PROVE  GateInv'
    <2>1. /\ Still /\ UNCHANGED status /\ pc' \in {"persist", "ended"}
          /\ pc' = "persist" => verdict' = "fail"
      BY <1>7 DEF ResumeFails, ResumeNothing, BeginResume
    <2> QED BY <1>1, <2>1, DiskGatesStay DEF GateInv
  <1>8. ASSUME NEW k \in Root, ResumeUnloadable(k), Quiet PROVE GateInv'
    <2>1. Still /\ UNCHANGED status /\ pc' = "ended"
      BY <1>8 DEF ResumeUnloadable, BeginResume
    <2> QED BY <1>1, <2>1, DiskGatesStay DEF GateInv
  <1>9. CASE StageCanceled /\ Quiet
    <2>1. /\ Still /\ pc = "record" /\ pc' = "persist" /\ verdict' # "success" /\ e' = e
          /\ status' \in {status, [status EXCEPT ![e.root][e.cur] = Canceled]}
      BY <1>9 DEF StageCanceled, Done, IInv, TypeOK
    <2>2. OnDiskGates'
      BY <1>t, <2>1, GateLegStays DEF GateInv, GateLeg
    <2> QED BY <1>1, <2>1, <2>2
  <1>10. CASE GateRetry /\ Quiet
    <2>1. PICK gate \in GatesToRetry :
              IF ResolveRetryTarget(Graph, gate) = NoNode
              THEN Conclude("fail") /\ UNCHANGED e
              ELSE /\ e' = [e EXCEPT !.cur = ResolveRetryTarget(Graph, gate), !.visits = Visited]
                   /\ UNCHANGED <<pc, verdict>>
      BY <1>10 DEF GateRetry
    <2>2. Still /\ UNCHANGED status /\ pc = "enter" /\ e.cur \in Terminal /\ gate \in Graph.gates
      BY <1>10 DEF GateRetry, GatesToRetry, FailedGates
    <2>3. CASE ResolveRetryTarget(Graph, gate) = NoNode
      BY <1>1, <2>1, <2>2, <2>3, DiskGatesStay DEF GateInv
    <2>4. CASE ResolveRetryTarget(Graph, gate) # NoNode
      <3>1. PICK target : target = ResolveRetryTarget(Graph, gate)
        OBVIOUS
      <3>2. target \in GateTargets /\ target \notin Graph.gates /\ e.cur \notin Graph.gates
        BY <2>2, <2>4, <3>1 DEF GateTargets, GatesRetriedElsewhere
      <3>3. e' = [e EXCEPT !.cur = target, !.visits = Visited] /\ pc' = "enter"
        BY <2>1, <2>2, <2>4, <3>1
      <3>4. /\ e'.root = e.root /\ e'.seen = e.seen /\ e'.join = e.join /\ e'.done = e.done
            /\ e'.cur = target
        BY <1>t, <3>3 DEF EngineVars
      <3>5. GateLeg' /\ DoneBefore' = DoneBefore
        BY <2>2, <3>2, <3>4 DEF GateInv, GateLeg, DoneBefore, AnyPointed, Pointed, RestoredSeen
      <3> QED BY <2>2, <3>3, <3>4, <3>5, DiskGatesStay DEF GateInv, PastGates
    <2> QED BY <2>3, <2>4
  <1>11. CASE StartStage /\ Quiet
    <2>1. /\ Still /\ pc = "enter" /\ pc' = "stage" /\ GatesToRetry = {}
          /\ status' = [status EXCEPT ![e.root][e.cur] = NoOutcome]
      BY <1>11 DEF StartStage
    <2>2. /\ e'.root = e.root /\ e'.seen = e.seen /\ e'.join = e.join /\ e'.done = e.done
          /\ e'.cur = e.cur
      BY <1>11, <1>t DEF StartStage, EngineVars
    <2>3. \E o \in AnyOutcome : status' = [status EXCEPT ![e.root][e.cur] = o]
      BY <2>1, OutcomeType
    <2> QED BY <1>3, <2>1, <2>2, <2>3 DEF GatesToRetry
  <1>12. CASE EndStage /\ Quiet
    <2>1. PICK o \in Outcomes[e.cur] :
              /\ e' = [e EXCEPT !.out = o]
              /\ status' = [status EXCEPT ![e.root][e.cur] = o]
      BY <1>12 DEF EndStage
    <2>2. Still /\ pc = "stage" /\ pc' = "record"
      BY <1>12 DEF EndStage
    <2>3. /\ e'.root = e.root /\ e'.seen = e.seen /\ e'.join = e.join /\ e'.done = e.done
          /\ e'.cur = e.cur
      BY <2>1, <1>t DEF EngineVars
    <2>4. o \in AnyOutcome
      BY <1>t DEF AnyOutcome
    <2> QED BY <1>3, <2>1, <2>2, <2>3, <2>4
  <1>13. CASE RecordStage /\ Quiet
    <2>1. Still /\ UNCHANGED status /\ pc = "record" /\ e.out \in Outcomes[e.cur]
      BY <1>13 DEF RecordStage, OnDisk, OutcomeOnDisk
    <2>2. /\ e'.root = e.root /\ e'.cur = e.cur /\ e'.out = e.out
          /\ e'.done = e.done \cup {e.cur}
          /\ e'.seen = [e.seen EXCEPT ![e.cur] = e.out]
          /\ e'.join = IF e.out.join # NoNode THEN e.out.join ELSE e.join
      BY <1>13, <1>t DEF RecordStage, EngineVars
    <2>3. e'.join \in Joins
      BY <1>t, <2>1, <2>2 DEF GateInv, GateLeg, Joins
    <2>4. OnDiskGates' /\ GateLeg' /\ DoneBefore' = DoneBefore
      BY <1>t, <2>1, <2>2, <2>3, GateLegStays DEF GateInv
    <2>5. pc' = "commit" \/ (pc' = "persist" /\ verdict' = "fail")
      BY <1>13 DEF RecordStage
    <2> QED BY <1>1, <1>t, <2>1, <2>2, <2>4, <2>5 DEF GateInv, PastGates
  <1>14. CASE Commit /\ Quiet
    <2>1. Still /\ UNCHANGED status /\ pc = "commit" /\ pc' = "save"
      BY <1>14 DEF Commit
    <2>2. /\ e'.root = e.root /\ e'.cur = e.cur /\ e'.out = e.out /\ e'.done = e.done
          /\ e'.seen = e.seen /\ e'.join = e.join
      BY <1>14, <1>t DEF Commit, EngineVars
    <2>3. OnDiskGates' /\ GateLeg' /\ DoneBefore' = DoneBefore
      BY <1>t, <2>1, <2>2, GateLegStays DEF GateInv, GateLeg
    <2> QED BY <2>1, <2>2, <2>3 DEF GateInv, PastGates
  <1>15. CASE SaveCheckpoint /\ HNext
    <2>1. truth' = [truth EXCEPT ![e.root][e.cur] = e.out]
      BY <1>15, TruthSaved
    <2>2. /\ UNCHANGED <<e, status, pointer>> /\ pc = "save" /\ pc' = "announce"
          /\ checkpoint' = [checkpoint EXCEPT ![e.root] =
                 [node |-> e.cur, done |-> e.done, sha |-> e.sha, join |-> e.join,
                  restarts |-> e.restarts, restartSigs |-> e.restartSigs,
                  loopSigs |-> e.loopSigs]]
      BY <1>15 DEF SaveCheckpoint
    <2>3. /\ checkpoint'[e.root].node = e.cur /\ checkpoint'[e.root].done = e.done
          /\ checkpoint'[e.root].join = e.join /\ checkpoint'[e.root] # NoCheckpoint
          /\ \A k \in Root : k # e.root => checkpoint'[k] = checkpoint[k] /\ truth'[k] = truth[k]
      <3>1. checkpoint'[e.root] \in Checkpoint
        BY <1>t, <2>2 DEF EngineVars, Checkpoint
      <3> QED BY <1>t, <2>1, <2>2, <3>1, CheckpointAssumption
    <2>4. truth'[e.root] = [truth[e.root] EXCEPT ![e.cur] = e.out] /\ truth'[e.root][e.cur] = e.out
      BY <1>t, <2>1
    <2>5. e.out \in Outcomes[e.cur] /\ status[e.root][e.cur] = e.out
      BY <2>2 DEF OnDisk, OutcomeOnDisk
    <2>6. GateLeg /\ e.done = DoneBefore \cup {e.cur} /\ e.seen[e.cur] = e.out
      BY <2>2 DEF GateInv
    <2>7. ASSUME NEW gate \in Graph.gates, gate # e.cur
          PROVE  (IF gate \in e.done THEN status[e.root][gate] ELSE NoOutcome) = truth[e.root][gate]
      <3>1. CASE AnyPointed /\ e.root = pointer
        BY <1>t, <2>6, <2>7, <3>1 DEF GateLeg, DoneBefore, RestoredSeen
      <3>2. CASE ~(AnyPointed /\ e.root = pointer)
        BY <1>t, <2>6, <2>7, <3>2 DEF GateLeg, DoneBefore, NoStatus
      <3> QED BY <3>1, <3>2
    <2>8. \A gate \in Graph.gates :
              e.seen[gate] = truth'[e.root][gate] /\ RestoredSeen(e.root)'[gate] = truth'[e.root][gate]
      <3>1. ASSUME NEW gate \in Graph.gates
            PROVE  /\ e.seen[gate] = truth'[e.root][gate]
                   /\ RestoredSeen(e.root)'[gate] = truth'[e.root][gate]
        <4>1. RestoredSeen(e.root)'[gate] = IF gate \in e.done THEN status[e.root][gate] ELSE NoOutcome
          BY <1>t, <2>2, <2>3 DEF RestoredSeen
        <4>2. CASE gate = e.cur
          BY <2>4, <2>5, <2>6, <4>1, <4>2
        <4>3. CASE gate # e.cur
          BY <1>t, <2>4, <2>6, <2>7, <4>1, <4>3 DEF GateLeg
        <4> QED BY <4>2, <4>3
      <3> QED BY <3>1
    <2>9. Completed(e.root)'
      BY <2>2, <2>3, <2>4, <2>5, <2>6 DEF Completed, GateLeg
    <2>10. GatesSaved'
      BY <2>2, <2>3, <2>8, <2>9 DEF GatesSaved
    <2>11. OnDiskGates'
      <3>1. CASE e.root = pointer
        BY <2>2, <2>8, <2>9, <3>1 DEF OnDiskGates, GatesRestorable, Completed, RestoredSeen
      <3>2. CASE e.root # pointer
        <4>1. /\ checkpoint'[pointer] = checkpoint[pointer] /\ truth'[pointer] = truth[pointer]
              /\ AnyPointed
          BY <1>t, <2>3, <2>6, <3>2 DEF GateLeg
        <4> QED BY <2>2, <4>1 DEF GateInv, OnDiskGates, AnyPointed, Pointed, Completed,
            GatesRestorable, NextGate, RestoredSeen, ResumeDecision, LastOutcome
      <3> QED BY <3>1, <3>2
    <2>12. e.cur \in Terminal => FailedGates(Graph, truth'[e.root]) = {}
      <3>1. ASSUME e.cur \in Terminal
            PROVE  \A gate \in Graph.gates : truth'[e.root][gate] = truth[e.root][gate]
        BY <1>t, <2>4, <3>1 DEF GatesRetriedElsewhere
      <3> QED BY <2>2, <3>1 DEF GateInv, PastGates, FailedGates
    <2> QED BY <2>2, <2>10, <2>11, <2>12 DEF GateInv
  <1>16. CASE Announce /\ Quiet
    <2>1. /\ UNCHANGED <<e, checkpoint, truth, status>> /\ pc = "announce" /\ pointer' = e.root
          /\ \/ e.cur \in Terminal /\ pc' = "persist" /\ verdict' = "success"
             \/ e.cur \notin Terminal /\ pc' = "route"
      BY <1>16 DEF Announce
    <2>2. GatesSaved /\ GatesSaved'
      <3>1. GatesSaved
        BY <2>1 DEF GateInv
      <3>2. RestoredSeen(e.root)' = RestoredSeen(e.root) /\ Completed(e.root)' = Completed(e.root)
        BY <2>1 DEF RestoredSeen, Completed
      <3> QED BY <2>1, <3>1, <3>2 DEF GatesSaved
    <2>3. OnDiskGates'
      <3>1. Completed(pointer)' /\ RestoredSeen(pointer)' = RestoredSeen(e.root)
        BY <2>1, <2>2 DEF GatesSaved, Completed, RestoredSeen
      <3>2. \A gate \in Graph.gates : RestoredSeen(pointer)'[gate] = truth'[pointer'][gate]
        BY <2>1, <2>2, <3>1 DEF GatesSaved
      <3> QED BY <3>1, <3>2 DEF OnDiskGates, GatesRestorable
    <2> QED BY <2>1, <2>2, <2>3 DEF GateInv, PastGates
  \* At route the engine holds what the announced checkpoint holds.
  <1>17. ASSUME pc = "route"
         PROVE  /\ AnyPointed /\ e.root = pointer /\ Decision = ResumeDecision(pointer)
                /\ LastOutcome(pointer) = truth[pointer][checkpoint[pointer].node]
                /\ e.out \in Outcomes[e.cur] /\ e.join = checkpoint[pointer].join /\ e.join \in Joins
                /\ e.done = checkpoint[pointer].done /\ Completed(pointer)
                /\ \A gate \in Graph.gates : /\ e.seen[gate] = truth[pointer][gate]
                                             /\ RestoredSeen(pointer)[gate] = truth[pointer][gate]
    BY <1>17 DEF GateInv, OnDisk, RouteOnDisk, OutcomeOnDisk, GatesSaved, AnyPointed, Pointed, Decision,
        ResumeDecision, LastOutcome, Completed
  <1>18. CASE RouteHop /\ Quiet
    <2>1. PICK to : to = Decision.to
      OBVIOUS
    <2>2. PICK kind : kind = Decision.kind
      OBVIOUS
    <2>3. /\ Still /\ UNCHANGED status /\ pc = "route" /\ pc' = "enter" /\ kind \in {"hop", "fan_out"}
          /\ e' = [e EXCEPT !.cur = to, !.join = IF kind = "fan_out" THEN to ELSE @]
      BY <1>18, <2>1, <2>2 DEF RouteHop
    <2>4. /\ e'.cur = to /\ e'.root = e.root /\ e'.seen = e.seen /\ e'.done = e.done
          /\ e'.join = IF kind = "fan_out" THEN to ELSE e.join
      BY <1>t, <2>3 DEF EngineVars
    <2>5. e'.join \in Joins
      <3>1. kind = "fan_out" => to \in Joins
        BY <1>t, <1>17, <2>1, <2>2, <2>3, FanOutJoins DEF Decision
      <3> QED BY <1>17, <2>3, <2>4, <3>1
    <2>6. to \in Graph.gates => NextGate(pointer, to)
      BY <1>t, <1>17, <2>1, <2>3, GateLeft
    <2>7. GateLeg' /\ e'.done = DoneBefore'
      <3>1. /\ AnyPointed /\ e'.root = pointer /\ e'.done = checkpoint[pointer].done
            /\ \A gate \in Graph.gates : e'.seen[gate] = truth[pointer][gate]
            /\ \A gate \in Graph.gates : RestoredSeen(pointer)[gate] = truth[pointer][gate]
        BY <1>17, <2>3, <2>4
      <3> QED BY <2>3, <2>4, <2>5, <2>6, <3>1
          DEF GateLeg, DoneBefore, AnyPointed, Pointed, RestoredSeen, NextGate, ResumeDecision, LastOutcome
    <2> QED BY <2>3, <2>7, DiskGatesStay DEF GateInv, PastGates
  <1>19. CASE LoopRestart /\ HNext
    <2>1. PICK to : to = Decision.to
      OBVIOUS
    <2>2. /\ UNCHANGED <<checkpoint, status, pointer>> /\ pc = "route" /\ pc' = "enter"
          /\ e' = Relaunched
      BY <1>19 DEF LoopRestart
    <2>3. e'.seen = NoStatus /\ e'.done = {} /\ e'.join = NoNode
      BY <1>t, <2>2 DEF Relaunched, EngineVars
    <2>4. /\ e'.root # e.root /\ e'.root \in Root
          /\ truth' = [truth EXCEPT ![e'.root] = NoStatus]
      BY <1>19, TruthForgotten DEF IInv
    <2>5. truth'[e'.root] = NoStatus /\ truth'[pointer] = truth[pointer]
      BY <1>t, <1>17, <2>2, <2>4
    <2>6. AnyPointed' /\ e'.root # pointer'
      BY <1>17, <2>2, <2>4 DEF AnyPointed, Pointed
    <2>7. OnDiskGates'
      BY <2>2, <2>5, <2>6 DEF GateInv, OnDiskGates, AnyPointed, Pointed, Completed, GatesRestorable,
         NextGate, RestoredSeen, ResumeDecision, LastOutcome
    <2>8. GateLeg' /\ e'.done = DoneBefore'
      BY <2>3, <2>5, <2>6 DEF GateLeg, DoneBefore, Joins
    <2> QED BY <2>2, <2>7, <2>8 DEF GateInv, PastGates
  <1>20. ASSUME NEW k \in Root, NEW git \in ResumeGit, ResumeRuns(k, git), Quiet PROVE GateInv'
    <2>1. /\ k = pointer /\ Still /\ UNCHANGED status /\ pc' = "enter" /\ checkpoint[k] # NoCheckpoint
          /\ AnyPointed /\ Completed(k) /\ GatesRestorable(k) /\ LastOutcome(k) # NoOutcome
      BY <1>20 DEF ResumeRuns, BeginResume, Resumable, Loadable, GateInv, OnDiskGates, AnyPointed,
         Pointed, NoNextNode
    <2>2. PICK to : to = ResumeDecision(k).to
      OBVIOUS
    <2>3. PICK kind : kind = ResumeDecision(k).kind
      OBVIOUS
    <2>4. PICK was : was = Restored(k, git)
      OBVIOUS
    <2>5. /\ was \in EngineVars /\ was.root = k /\ was.seen = RestoredSeen(k)
          /\ was.done = checkpoint[k].done /\ was.join = checkpoint[k].join
      <3>1. was \in EngineVars
        BY <1>t, <2>1, <2>4, RestoredType
      <3> QED BY <2>4, <3>1, FreshType DEF Restored, FreshEngine
    <2>6. e' = [was EXCEPT !.cur = to, !.join = IF kind = "fan_out" THEN to ELSE @]
      BY <1>20, <2>2, <2>3, <2>4 DEF ResumeRuns
    <2>7. /\ e'.cur = to /\ e'.root = k /\ e'.seen = RestoredSeen(k) /\ e'.done = checkpoint[k].done
          /\ e'.join = IF kind = "fan_out" THEN to ELSE checkpoint[k].join
      BY <2>5, <2>6 DEF EngineVars
    <2>8. e'.join \in Joins
      <3>1. checkpoint[k] \in Checkpoint
        BY <1>t, <2>1
      <3>2. LastOutcome(k) \in (UNION {Outcomes[m] : m \in Node}) \cup {Canceled}
        BY <1>t, <2>1, <3>1 DEF LastOutcome, Checkpoint, AnyOutcome
      <3>3. kind = "fan_out" => to \in Joins
        BY <2>2, <2>3, <3>1, <3>2, FanOutJoins DEF ResumeDecision, Checkpoint
      <3> QED BY <2>1, <2>7, <3>3 DEF Completed
    \* Where the run goes on at a gate, it was left at another node.
    <2>9. ASSUME to \in Graph.gates PROVE NextGate(k, to)
      <3>1. CASE RestoredSeen(k)[checkpoint[k].node] = truth[k][checkpoint[k].node]
        <4>1. checkpoint[k].node \in Node
          BY <1>t, <2>1 DEF Checkpoint
        <4>2. LastOutcome(k) = truth[k][checkpoint[k].node]
          BY <2>1, <3>1, <4>1 DEF RestoredSeen, Completed, LastOutcome
        <4> QED BY <2>1, <2>2, <2>9, <4>2, GateLeft
      <3>2. CASE RestoredSeen(k)[checkpoint[k].node] # truth[k][checkpoint[k].node]
        BY <2>1, <2>2, <2>9, <3>2 DEF GatesRestorable, NextGate
      <3> QED BY <3>1, <3>2
    <2>10. \A gate \in Graph.gates \ {to} : RestoredSeen(k)[gate] = truth[k][gate]
      BY <2>1, <2>2 DEF GatesRestorable, NextGate
    <2>11. GateLeg' /\ e'.done = DoneBefore'
      BY <2>1, <2>7, <2>8, <2>9, <2>10
      DEF GateLeg, DoneBefore, AnyPointed, Pointed, RestoredSeen, NextGate, ResumeDecision, LastOutcome
    <2> QED BY <2>1, <2>11, DiskGatesStay DEF GateInv, PastGates
  <1>21. CASE Cancel /\ Quiet
    BY <1>2, <1>21 DEF Cancel
  <1>22. CASE UNCHANGED hvars
    BY <1>2, <1>22 DEF hvars, vars
  <1>23. ASSUME HNext PROVE SaveCheckpoint \/ LoopRestart \/ Quiet
    BY <1>23, <1>t, TruthMoves
  <1> HIDE DEF Quiet, Still
  <1> QED
    BY <1>4, <1>5, <1>6, <1>7, <1>8, <1>9, <1>10, <1>11, <1>12, <1>13, <1>14, <1>15, <1>16,
       <1>18, <1>19, <1>20, <1>21, <1>22, <1>23
    DEF HNext, Next, Engine, Resume

\* GateSoundness: a run that succeeds at a terminal node has no goal gate whose
\* last checkpointed outcome failed, also when the outcomes came back from the
\* status files of a crashed run.
THEOREM GatesHold ==
    ASSUME ResumeFrom = "cxdb", GatesRetriedElsewhere
    PROVE  HSpec => []GateSoundness
  <1>1. IInv /\ OnDisk /\ GateInv /\ [HNext]_hvars => GateInv'
    BY GateStep
  <1>2. GateInv => GateSoundness
    BY DEF GateInv, PastGates, GateSoundness
  <1> QED BY <1>1, <1>2, GateInit, HistoryInductive, PTL DEF HSpec

-----------------------------------------------------------------------------
(* The walk.  Its copies of the routing operators are the run's. *)

LEMMA WalkEligible ==
    \A g, n, o : W!SelectAllEligibleEdges(g, n, o) = SelectAllEligibleEdges(g, n, o)
  BY DEF W!SelectAllEligibleEdges, SelectAllEligibleEdges, W!Outgoing, Outgoing,
     W!Matches, Matches, W!Suggested, Suggested, W!Earliest, Earliest

LEMMA WalkTarget == \A g, n : W!ResolveRetryTarget(g, n) = ResolveRetryTarget(g, n)
  BY DEF W!ResolveRetryTarget, ResolveRetryTarget

LEMMA WalkJoin == \A g, edges : W!FindJoinNode(g, edges) = FindJoinNode(g, edges)
  BY DEF W!FindJoinNode, FindJoinNode, W!Nearest, Nearest, W!Reachable, Reachable,
     W!Within, Within, W!Outgoing, Outgoing, W!Cardinality, Cardinality

LEMMA WalkFanOut == \A g, n, o : W!FanOut(g, n, o) = FanOut(g, n, o)
  <1>1. \A S : W!Cardinality(S) = Cardinality(S)
    BY DEF W!Cardinality, Cardinality
  <1> QED BY <1>1, WalkEligible, WalkJoin DEF W!FanOut, FanOut

LEMMA WalkHop == \A g, n, o : W!ResolveNextHop(g, n, o) = ResolveNextHop(g, n, o)
  <1>1. \A edges : W!BestEdge(edges) = BestEdge(edges)
    BY DEF W!BestEdge, BestEdge, W!Better, Better
  <1>2. \A edge : W!Along(edge) = Along(edge)
    BY DEF W!Along, Along
  <1>3. \A n : W!HopTo(n) = HopTo(n)
    BY DEF W!HopTo, HopTo
  <1>4. W!Stop = Stop
    BY DEF W!Stop, Stop
  <1> QED
    BY <1>1, <1>2, <1>3, <1>4, WalkEligible, WalkTarget
    DEF W!ResolveNextHop, ResolveNextHop, W!FailingFanIn, FailingFanIn, W!Failing, Failing,
        W!Outgoing, Outgoing, W!Matches, Matches

LEMMA WalkFallback == \A g, n, o : W!Fallback(g, n, o) = Fallback(g, n, o)
  BY WalkTarget DEF W!Fallback, Fallback, W!FailingFanIn, FailingFanIn, W!Failing, Failing

LEMMA WalkDecide == \A g, n, o, join : W!Decide(g, n, o, join) = Decide(g, n, o, join)
  <1>1. \A n : W!HopTo(n) = HopTo(n)
    BY DEF W!HopTo, HopTo
  <1> QED BY <1>1, WalkFanOut, WalkHop, WalkFallback DEF W!Decide, Decide

LEMMA WalkGates == \A g, outcomes : W!FailedGates(g, outcomes) = FailedGates(g, outcomes)
  BY DEF W!FailedGates, FailedGates, W!Passing, Passing

LEMMA LandingNodes ==
    \A n, outcomes :
        W!Landing(n, outcomes) =
            IF n \in Terminal /\ FailedGates(Graph, outcomes) # {}
            THEN {ResolveRetryTarget(Graph, gate) : gate \in FailedGates(Graph, outcomes)}
                     \ (Terminal \cup {NoNode})
            ELSE {n}
  <1> SUFFICES ASSUME NEW n, NEW outcomes
               PROVE  W!Landing(n, outcomes) =
                        IF n \in Terminal /\ FailedGates(Graph, outcomes) # {}
                        THEN {ResolveRetryTarget(Graph, gate) : gate \in FailedGates(Graph, outcomes)}
                                 \ (Terminal \cup {NoNode})
                        ELSE {n}
    OBVIOUS
  <1>1. W!FailedGates(Graph, outcomes) = FailedGates(Graph, outcomes)
    BY WalkGates
  <1>2. \A gate : W!ResolveRetryTarget(Graph, gate) = ResolveRetryTarget(Graph, gate)
    BY WalkTarget
  <1> QED BY <1>1, <1>2 DEF W!Landing

\* What a run can land on keeps away from the gates.
LEMMA LandingOffGates ==
    ASSUME RetriedElsewhere, NEW n \in Node, NEW outcomes, NEW c \in W!Landing(n, outcomes)
    PROVE  /\ c \in Node
           /\ Graph.gates \cap W!Landing(n, outcomes) \subseteq {c}
           /\ c \in Terminal => FailedGates(Graph, outcomes) = {}
           /\ n \in Terminal => Graph.gates \cap W!Landing(n, outcomes) = {}
  <1>1. FailedGates(Graph, outcomes) \subseteq Graph.gates /\ Graph.gates \subseteq Node
    BY RunAssumption DEF FailedGates, IsGraph
  <1>2. CASE n \in Terminal /\ FailedGates(Graph, outcomes) # {}
    <2>1. W!Landing(n, outcomes) =
              {ResolveRetryTarget(Graph, gate) : gate \in FailedGates(Graph, outcomes)}
                  \ (Terminal \cup {NoNode})
      BY <1>2, LandingNodes
    <2>2. W!Landing(n, outcomes) \subseteq GateTargets
      BY <1>1, <2>1 DEF GateTargets
    <2>3. \A gate \in Graph.gates : ResolveRetryTarget(Graph, gate) \in AnyNode
      BY <1>1, RetryTargetType, RunAssumption
    <2>4. W!Landing(n, outcomes) \subseteq Node
      BY <1>1, <2>1, <2>3 DEF AnyNode
    <2> QED BY <2>1, <2>2, <2>4 DEF RetriedElsewhere, GatesRetriedElsewhere
  <1>3. CASE ~(n \in Terminal /\ FailedGates(Graph, outcomes) # {})
    <2>1. W!Landing(n, outcomes) = {n}
      BY <1>3, LandingNodes
    <2> QED BY <1>3, <2>1 DEF RetriedElsewhere, GatesRetriedElsewhere
  <1> QED BY <1>2, <1>3

LEMMA RouteLandsElsewhere ==
    ASSUME RetriedElsewhere, NEW n \in Node, NEW o \in Outcomes[n], NEW join \in Joins, NEW outcomes
    PROVE  n \notin W!Landing(Decide(Graph, n, o, join).to, outcomes)
  <1> DEFINE to == Decide(Graph, n, o, join).to
  <1>1. to \in Successors(n)
    BY DEF Successors
  <1>2. to # n
    BY <1>1 DEF RetriedElsewhere, GatesRetriedElsewhere
  <1>3. to \in Terminal => n \notin GateTargets
    BY <1>1 DEF RetriedElsewhere, GatesRetriedElsewhere
  <1>4. FailedGates(Graph, outcomes) \subseteq Graph.gates
    BY DEF FailedGates
  <1> HIDE DEF to
  <1>5. CASE to \in Terminal /\ FailedGates(Graph, outcomes) # {}
    <2>1. W!Landing(to, outcomes) =
              {ResolveRetryTarget(Graph, gate) : gate \in FailedGates(Graph, outcomes)}
                  \ (Terminal \cup {NoNode})
      BY <1>5, LandingNodes
    <2>2. W!Landing(to, outcomes) \subseteq GateTargets
      BY <1>4, <2>1 DEF GateTargets
    <2> QED BY <1>3, <1>5, <2>2 DEF to
  <1>6. CASE ~(to \in Terminal /\ FailedGates(Graph, outcomes) # {})
    <2>1. W!Landing(to, outcomes) = {to}
      BY <1>6, LandingNodes
    <2> QED BY <1>2, <2>1 DEF to
  <1> QED BY <1>5, <1>6

\* Where a resume of root k goes, by the outcome that was checkpointed, and the
\* nodes the run may then attempt before its next checkpoint.
Route(k) == Decide(Graph, checkpoint[k].node, truth[k][checkpoint[k].node], checkpoint[k].join)
Open(k) == IF Route(k).kind \in Moves THEN W!Landing(Route(k).to, truth[k]) ELSE {}

\* A resume finds the outcomes that count, except where an attempt was cut short.
Counting(k) == Graph.gates \cup {checkpoint[k].node}
Restorable(k) ==
    /\ Completed(k)
    /\ \A n \in Counting(k) \ Open(k) : RestoredSeen(k)[n] = truth[k][n]

\* What the engine set out with from the last announced checkpoint.
Heading == IF AnyPointed THEN Route(pointer).to ELSE Start
Carried ==
    IF ~AnyPointed \/ e.root # pointer THEN NoNode
    ELSE IF Route(pointer).kind = "fan_out" THEN Route(pointer).to
    ELSE checkpoint[pointer].join
Underway ==
    /\ AnyPointed => Route(pointer).kind \in Moves
    /\ ~AnyPointed => e.root = pointer /\ truth[pointer] = NoStatus
    /\ e.root # pointer => Route(pointer).kind = "restart" /\ truth[e.root] = NoStatus

Landings == W!Landing(Heading, truth[e.root])
GatesKnown == \A n \in Graph.gates \ Landings : e.seen[n] = truth[e.root][n]

AtEnter ==
    \/ e.cur = Heading
    \/ /\ Heading \in Terminal
       /\ \E gate \in FailedGates(Graph, truth[e.root]) : e.cur = ResolveRetryTarget(Graph, gate)

JoinTaken == e.join = IF e.out.join # NoNode THEN e.out.join ELSE Carried

Saved ==
    /\ checkpoint[e.root] # NoCheckpoint
    /\ e.done = checkpoint[e.root].done
    /\ Restorable(e.root)
    /\ \A n \in Counting(e.root) : RestoredSeen(e.root)[n] = truth[e.root][n]
    /\ \A n \in Graph.gates : e.seen[n] = truth[e.root][n]

Restarted ==
    /\ AnyPointed /\ Route(pointer).kind = "restart"
    /\ e.cur \in W!Landing(Heading, NoStatus)
    /\ truth[e.root] = [NoStatus EXCEPT ![e.cur] = e.out]
    /\ JoinTaken

WalkInv ==
    /\ AnyPointed => Restorable(pointer)
    /\ pc \in Before \cup After => Underway /\ e.join \in Joins /\ GatesKnown
    /\ pc = "enter" => AtEnter
    /\ pc \in Before => e.done = DoneBefore /\ e.join = Carried
    /\ pc \in {"stage", "record"} \cup After => e.cur \in Landings
    /\ pc \in After => e.done = DoneBefore \cup {e.cur} /\ JoinTaken /\ e.seen[e.cur] = e.out
    /\ pc \in {"announce", "route"} => Saved
    /\ pc = "announce" /\ e.root # pointer => Restarted
    /\ pc = "route" => e.cur \notin Terminal
    /\ pc = "persist" /\ verdict = "success" /\ e.cur \in Terminal =>
           AnyPointed /\ e.root = pointer /\ Pointed.node = e.cur

LEMMA WalkInit == HInit => WalkInv
  <1> SUFFICES ASSUME HInit PROVE WalkInv
    OBVIOUS
  <1>1. ~AnyPointed /\ pointer = 0 /\ truth[pointer] = NoStatus /\ pc = "enter"
    BY RunAssumption DEF HInit, Init, AnyPointed, Pointed, Root
  <1>2. e.root = 0 /\ e.join = NoNode /\ e.seen = NoStatus /\ e.done = {} /\ e.cur = Start
    BY StartedType DEF HInit, Init
  <1>3. Underway /\ e.join \in Joins /\ GatesKnown /\ AtEnter
    BY <1>1, <1>2 DEF Underway, Joins, GatesKnown, AtEnter, Heading
  <1>4. e.done = DoneBefore /\ e.join = Carried
    BY <1>1, <1>2 DEF DoneBefore, Carried
  <1> QED BY <1>1, <1>3, <1>4 DEF WalkInv, Before, After

\* What stays as long as no checkpoint is written or announced.
LEMMA LegStays ==
    ASSUME UNCHANGED <<checkpoint, truth, pointer>>, e'.root = e.root
    PROVE  /\ Heading' = Heading /\ Carried' = Carried /\ DoneBefore' = DoneBefore
           /\ Landings' = Landings /\ AnyPointed' = AnyPointed /\ (Underway => Underway')
           /\ Route(pointer)' = Route(pointer)
  <1>1. Route(pointer)' = Route(pointer) /\ AnyPointed' = AnyPointed
    BY DEF Route, AnyPointed, Pointed
  <1>2. Heading' = Heading
    BY <1>1 DEF Heading
  <1> QED BY <1>1, <1>2 DEF Carried, DoneBefore, Landings, Underway

\* A resume finds what it found before when only attempts under way were touched.
LEMMA RestorableStays ==
    ASSUME TypeOK, NEW k \in Root, Restorable(k), checkpoint[k] # NoCheckpoint,
           checkpoint'[k] = checkpoint[k], truth'[k] = truth[k],
           \A n \in Node \ Open(k) : status'[k][n] = status[k][n]
    PROVE  Restorable(k)'
  <1>1. checkpoint[k] \in Checkpoint
    BY DEF TypeOK
  <1>2. Counting(k) \subseteq Node
    BY <1>1, RunAssumption DEF Counting, Checkpoint, IsGraph
  <1>3. Route(k)' = Route(k)
    BY DEF Route
  <1>4. Open(k)' = Open(k) /\ Counting(k)' = Counting(k)
    BY <1>3 DEF Open, Counting
  <1>5. \A n \in Node \ Open(k) : RestoredSeen(k)'[n] = RestoredSeen(k)[n]
    BY DEF RestoredSeen
  <1> QED BY <1>2, <1>4, <1>5 DEF Restorable, Completed

\* What a resume finds in a root does not depend on what the root is called.
LEMMA PointerReads ==
    ASSUME NEW k, pointer' = k, Restorable(k)'
    PROVE  Restorable(pointer)'
  <1>1. Route(pointer)' = Route(k)' /\ Counting(pointer)' = Counting(k)'
    BY DEF Route, Counting
  <1>2. Open(pointer)' = Open(k)'
    BY <1>1 DEF Open
  <1>3. Completed(pointer)' /\ RestoredSeen(pointer)' = RestoredSeen(k)'
    BY DEF Restorable, Completed, RestoredSeen
  <1> QED BY <1>1, <1>2, <1>3 DEF Restorable

LEMMA PointerReadsOwn ==
    ASSUME pointer' = e'.root, Restorable(e.root)'
    PROVE  Restorable(pointer)'
  <1>1. Route(pointer)' = Route(e.root)' /\ Counting(pointer)' = Counting(e.root)'
    BY DEF Route, Counting
  <1>2. Open(pointer)' = Open(e.root)'
    BY <1>1 DEF Open
  <1>3. Completed(pointer)' /\ RestoredSeen(pointer)' = RestoredSeen(e.root)'
    BY DEF Restorable, Completed, RestoredSeen
  <1> QED BY <1>1, <1>2, <1>3 DEF Restorable

LEMMA SavedStays ==
    ASSUME UNCHANGED <<e, checkpoint, truth, status>>
    PROVE  Saved' = Saved /\ Restorable(e.root)' = Restorable(e.root)
  <1>1. /\ Route(e.root)' = Route(e.root) /\ Counting(e.root)' = Counting(e.root)
        /\ Completed(e.root)' = Completed(e.root) /\ RestoredSeen(e.root)' = RestoredSeen(e.root)
    BY DEF Route, Counting, Completed, RestoredSeen
  <1>2. Open(e.root)' = Open(e.root)
    BY <1>1 DEF Open
  <1>3. Restorable(e.root)' = Restorable(e.root)
    BY <1>1, <1>2 DEF Restorable
  <1> QED BY <1>1, <1>3 DEF Saved

LEMMA PointerStays ==
    ASSUME TypeOK, AnyPointed => Restorable(pointer),
           UNCHANGED <<checkpoint, truth, pointer>>,
           AnyPointed => \A n \in Node \ Open(pointer) : status'[pointer][n] = status[pointer][n]
    PROVE  (AnyPointed => Restorable(pointer))'
  <1> SUFFICES ASSUME AnyPointed' PROVE Restorable(pointer)'
    OBVIOUS
  <1>1. AnyPointed /\ checkpoint[pointer] # NoCheckpoint /\ pointer \in Root
    BY DEF AnyPointed, Pointed, TypeOK
  <1>2. PICK k \in Root : k = pointer
    BY <1>1
  <1>3. Restorable(k)'
    BY <1>1, <1>2, RestorableStays
  <1> QED BY <1>2, <1>3, PointerReads

\* A resume takes the route of the announced checkpoint.
LEMMA ResumeTakesRoute ==
    ASSUME RetriedElsewhere, TypeOK, NEW k \in Root, checkpoint[k] # NoCheckpoint, Restorable(k)
    PROVE  /\ LastOutcome(k) = truth[k][checkpoint[k].node]
           /\ ResumeDecision(k) = Route(k)
           /\ checkpoint[k].node \notin Open(k)
  <1>1. checkpoint[k] \in Checkpoint /\ checkpoint[k].node \in Node
    BY DEF TypeOK, Checkpoint
  <1>2. checkpoint[k].node \notin Open(k)
    BY <1>1, RouteLandsElsewhere DEF Open, Route, Restorable, Completed
  <1>3. RestoredSeen(k)[checkpoint[k].node] = truth[k][checkpoint[k].node]
    BY <1>2 DEF Restorable, Completed, Counting
  <1>4. RestoredSeen(k)[checkpoint[k].node] = status[k][checkpoint[k].node]
    BY <1>1 DEF RestoredSeen, Restorable, Completed
  <1> QED BY <1>2, <1>3, <1>4 DEF LastOutcome, ResumeDecision, Route

\* What a terminal node sends the run back to is no gate.
LEMMA TerminalOffGates ==
    ASSUME RetriedElsewhere, NEW n \in Terminal, NEW outcomes
    PROVE  Graph.gates \cap W!Landing(n, outcomes) = {}
  <1>1. SUFFICES ASSUME NEW c \in W!Landing(n, outcomes) PROVE c \notin Graph.gates
    OBVIOUS
  <1>2. n \in Node
    BY RunAssumption
  <1> QED BY <1>1, <1>2, LandingOffGates

LEMMA SameFailures ==
    ASSUME RetriedElsewhere, Heading \in Terminal, GatesKnown
    PROVE  FailedGates(Graph, e.seen) = FailedGates(Graph, truth[e.root])
  <1>1. Graph.gates \cap Landings = {}
    BY TerminalOffGates DEF Landings
  <1>2. \A n \in Graph.gates : e.seen[n] = truth[e.root][n]
    BY <1>1 DEF GatesKnown
  <1> QED BY <1>2 DEF FailedGates

LEMMA WalkStep ==
    ASSUME ResumeFrom = "cxdb", RetriedElsewhere, IInv, OnDisk, WalkInv, [HNext]_hvars, IInv'
    PROVE  WalkInv'
  <1> USE DEF Conclude, files, Gone, Before, After
  <1>t. /\ TypeOK /\ e \in EngineVars /\ pointer \in Root
        /\ checkpoint \in [Root -> Checkpoint \cup {NoCheckpoint}]
        /\ e.cur \in Node /\ e.root \in Root /\ status \in [Root -> [Node -> AnyOutcome]]
        /\ truth \in [Root -> [Node -> AnyOutcome]] /\ e.out \in AnyOutcome
        /\ e.seen \in [Node -> AnyOutcome] /\ e.done \subseteq Node /\ e.join \in AnyNode
        /\ e.restarts \in Root
    BY DEF IInv, TypeOK, OnDisk, EngineVars
  <1> DEFINE Quiet == truth' = truth
             Still == UNCHANGED <<checkpoint, truth, pointer>>
  <1>1. Landings \cap Graph.gates \subseteq {e.cur} \/ e.cur \notin Landings
    <2>1. ASSUME e.cur \in Landings PROVE Landings \cap Graph.gates \subseteq {e.cur}
      <3>1. CASE Heading \in Node
        BY <2>1, <3>1, LandingOffGates DEF Landings
      <3>2. CASE Heading \notin Node
        <4>1. Landings = {Heading}
          BY <3>2, LandingNodes, RunAssumption DEF Landings
        <4> QED BY <2>1, <4>1
      <3> QED BY <3>1, <3>2
    <2> QED BY <2>1
  \* The engine is in the open part of its root.
  <1>2. ASSUME pc \in {"stage", "record"} \cup After, AnyPointed, e.root = pointer
        PROVE  e.cur \in Open(pointer)
    BY <1>2 DEF WalkInv, Underway, Landings, Heading, Open
  \* Steps after which nothing is under way.
  <1>3. ASSUME Still,
               pc' \notin Before \cup After \cup {"announce", "route"},
               AnyPointed => \A n \in Node \ Open(pointer) : status'[pointer][n] = status[pointer][n],
               pc' = "persist" /\ verdict' = "success" => e'.cur \notin Terminal
        PROVE  WalkInv'
    <2>1. (AnyPointed => Restorable(pointer))'
      BY <1>t, <1>3, PointerStays DEF WalkInv
    <2> QED BY <1>3, <2>1 DEF WalkInv
  <1>4. CASE UNCHANGED <<pc, e, verdict, checkpoint, status, truth, pointer>>
    <2>1. (AnyPointed => Restorable(pointer))'
      BY <1>t, <1>4, PointerStays DEF WalkInv
    <2>2. Saved' = Saved
      BY <1>4, SavedStays
    <2>3. Restarted' = Restarted
      BY <1>4, LegStays DEF Restarted, Route, AnyPointed, Pointed, JoinTaken
    <2> QED BY <1>4, <2>1, <2>2, <2>3, LegStays
         DEF WalkInv, GatesKnown, AtEnter, JoinTaken, Pointed
  <1>5. CASE (EnterCanceled \/ EnterStuck \/ RefuseRestart) /\ Quiet
    BY <1>3, <1>5 DEF EnterCanceled, EnterStuck, RefuseRestart, Done, IInv, TypeOK
  <1>6. CASE RouteEnd /\ Quiet
    BY <1>3, <1>6 DEF RouteEnd, WalkInv
  <1>7. CASE (PersistCurrent \/ PersistBase \/ CompleteRun \/ Crash) /\ Quiet
    BY <1>3, <1>7 DEF PersistCurrent, PersistBase, CompleteRun, Crash
  <1>8. ASSUME NEW k \in Root, ResumeUnloadable(k), Quiet PROVE WalkInv'
    BY <1>3, <1>8 DEF ResumeUnloadable, BeginResume
  <1>9. ASSUME NEW k \in Root, NEW git \in ResumeGit,
               ResumeFails(k, git) \/ ResumeNothing(k, git), Quiet
        PROVE  WalkInv'
    BY <1>3, <1>9 DEF ResumeFails, ResumeNothing, BeginResume
  <1>10. CASE StageCanceled /\ Quiet
    <2>1. AnyPointed => \A n \in Node \ Open(pointer) : status'[pointer][n] = status[pointer][n]
      BY <1>2, <1>10, <1>t DEF StageCanceled
    <2>2. pc' = "persist" /\ verdict' # "success"
      BY <1>10 DEF StageCanceled, Done, IInv, TypeOK
    <2> QED BY <1>3, <1>10, <2>1, <2>2 DEF StageCanceled
  <1>11. ASSUME Still, e'.root = e.root, e'.seen = e.seen, e'.join = e.join, pc \in Before \cup After,
                AnyPointed => \A n \in Node \ Open(pointer) : status'[pointer][n] = status[pointer][n]
         PROVE  /\ (AnyPointed => Restorable(pointer))'
                /\ Underway' /\ e'.join \in Joins /\ GatesKnown'
                /\ Landings' = Landings /\ Carried' = Carried /\ DoneBefore' = DoneBefore
                /\ Heading' = Heading
    <2>1. (AnyPointed => Restorable(pointer))'
      BY <1>t, <1>11, PointerStays DEF WalkInv
    <2> QED BY <1>11, <2>1, LegStays DEF WalkInv, GatesKnown
  <1>12. CASE GateRetry /\ Quiet
    <2>1. PICK gate \in GatesToRetry :
              IF ResolveRetryTarget(Graph, gate) = NoNode
              THEN Conclude("fail") /\ UNCHANGED e
              ELSE /\ e' = [e EXCEPT !.cur = ResolveRetryTarget(Graph, gate), !.visits = Visited]
                   /\ UNCHANGED <<pc, verdict>>
      BY <1>12 DEF GateRetry
    <2>2. Still /\ UNCHANGED status /\ pc = "enter"
      BY <1>12 DEF GateRetry
    <2>3. CASE ResolveRetryTarget(Graph, gate) = NoNode
      BY <1>3, <2>1, <2>2, <2>3
    <2>4. CASE ResolveRetryTarget(Graph, gate) # NoNode
      <3>1. PICK target : target = ResolveRetryTarget(Graph, gate)
        OBVIOUS
      <3>2. e' = [e EXCEPT !.cur = target, !.visits = Visited] /\ pc' = "enter"
        BY <2>1, <2>2, <2>4, <3>1
      <3>3. /\ e'.root = e.root /\ e'.seen = e.seen /\ e'.join = e.join /\ e'.done = e.done
            /\ e'.cur = target
        BY <1>t, <3>2 DEF EngineVars
      <3>4. Heading \in Terminal /\ gate \in FailedGates(Graph, truth[e.root])
        <4>1. e.cur \in Terminal /\ gate \in FailedGates(Graph, e.seen)
          BY DEF GatesToRetry
        <4>2. Heading \in Terminal
          BY <2>2, <4>1 DEF WalkInv, AtEnter
        <4> QED BY <2>2, <4>1, <4>2, SameFailures DEF WalkInv
      <3>5. AtEnter'
        BY <1>11, <2>2, <3>1, <3>3, <3>4 DEF AtEnter
      <3> QED BY <1>11, <2>2, <3>2, <3>3, <3>5 DEF WalkInv
    <2> QED BY <2>3, <2>4
  <1>13. CASE StartStage /\ Quiet
    <2>1. /\ Still /\ pc = "enter" /\ pc' = "stage" /\ GatesToRetry = {}
          /\ status' = [status EXCEPT ![e.root][e.cur] = NoOutcome]
      BY <1>13 DEF StartStage
    <2>2. /\ e'.root = e.root /\ e'.seen = e.seen /\ e'.join = e.join /\ e'.done = e.done
          /\ e'.cur = e.cur
      BY <1>13, <1>t DEF StartStage, EngineVars
    <2>3. e.cur \in Landings
      <3>1. Heading \in Terminal => FailedGates(Graph, e.seen) = FailedGates(Graph, truth[e.root])
        BY <2>1, SameFailures DEF WalkInv
      <3>2. e.cur \in Terminal => FailedGates(Graph, e.seen) = {}
        BY <2>1 DEF GatesToRetry
      <3>3. CASE e.cur = Heading
        BY <3>1, <3>2, <3>3, LandingNodes DEF Landings
      <3>4. CASE e.cur # Heading
        <4>1. /\ Heading \in Terminal
              /\ \E gate \in FailedGates(Graph, truth[e.root]) :
                    e.cur = ResolveRetryTarget(Graph, gate)
          BY <2>1, <3>4 DEF WalkInv, AtEnter
        <4>2. e.cur \notin Terminal /\ e.cur # NoNode
          BY <1>t, <3>1, <3>2, <4>1, RoutingAssumption
        <4> QED BY <4>1, <4>2, LandingNodes DEF Landings
      <3> QED BY <3>3, <3>4
    <2>4. AnyPointed /\ e.root = pointer => e.cur \in Open(pointer)
      BY <2>1, <2>3 DEF WalkInv, Underway, Landings, Heading, Open
    <2>5. AnyPointed => \A n \in Node \ Open(pointer) : status'[pointer][n] = status[pointer][n]
      BY <1>t, <2>1, <2>4
    <2> QED BY <1>11, <2>1, <2>2, <2>3, <2>5 DEF WalkInv
  <1>14. CASE EndStage /\ Quiet
    <2>1. PICK o \in Outcomes[e.cur] :
              /\ e' = [e EXCEPT !.out = o]
              /\ status' = [status EXCEPT ![e.root][e.cur] = o]
      BY <1>14 DEF EndStage
    <2>2. Still /\ pc = "stage" /\ pc' = "record"
      BY <1>14 DEF EndStage
    <2>3. /\ e'.root = e.root /\ e'.seen = e.seen /\ e'.join = e.join /\ e'.done = e.done
          /\ e'.cur = e.cur
      BY <2>1, <1>t DEF EngineVars
    <2>4. AnyPointed => \A n \in Node \ Open(pointer) : status'[pointer][n] = status[pointer][n]
      BY <1>t, <1>2, <2>1, <2>2
    <2> QED BY <1>11, <2>2, <2>3, <2>4 DEF WalkInv
  <1>15. CASE RecordStage /\ Quiet
    <2>1. CASE pc' = "persist"
      BY <1>3, <1>15, <2>1 DEF RecordStage
    <2>2. CASE pc' = "commit"
      <3>1. Still /\ UNCHANGED status /\ pc = "record" /\ e.out \in Outcomes[e.cur]
        BY <1>15 DEF RecordStage, OnDisk, OutcomeOnDisk
      <3>2. /\ e'.root = e.root /\ e'.cur = e.cur /\ e'.out = e.out
            /\ e'.done = e.done \cup {e.cur}
            /\ e'.seen = [e.seen EXCEPT ![e.cur] = e.out]
            /\ e'.join = IF e.out.join # NoNode THEN e.out.join ELSE e.join
        BY <1>15, <1>t DEF RecordStage, EngineVars
      <3>3. (AnyPointed => Restorable(pointer))'
        BY <1>t, <3>1, PointerStays DEF WalkInv
      <3>4. /\ Underway' /\ Landings' = Landings /\ Carried' = Carried /\ DoneBefore' = DoneBefore
        BY <3>1, <3>2, LegStays DEF WalkInv
      <3>5. GatesKnown'
        BY <1>t, <3>1, <3>2, <3>4 DEF WalkInv, GatesKnown
      <3>6. e'.join \in Joins /\ JoinTaken'
        BY <1>t, <3>1, <3>2, <3>4 DEF WalkInv, Joins, JoinTaken
      <3>7. e'.seen[e'.cur] = e'.out
        BY <1>t, <3>2
      <3> QED BY <2>2, <3>1, <3>2, <3>3, <3>4, <3>5, <3>6, <3>7 DEF WalkInv
    <2> QED BY <1>15, <2>1, <2>2 DEF RecordStage
  <1>16. CASE Commit /\ Quiet
    <2>1. Still /\ UNCHANGED status /\ pc = "commit" /\ pc' = "save"
      BY <1>16 DEF Commit
    <2>2. /\ e'.root = e.root /\ e'.cur = e.cur /\ e'.out = e.out /\ e'.done = e.done
          /\ e'.seen = e.seen /\ e'.join = e.join
      BY <1>16, <1>t DEF Commit, EngineVars
    <2>3. JoinTaken'
      BY <1>11, <2>1, <2>2 DEF WalkInv, JoinTaken
    <2> QED BY <1>11, <2>1, <2>2, <2>3 DEF WalkInv
  <1>17. CASE SaveCheckpoint /\ HNext
    <2>1. truth' = [truth EXCEPT ![e.root][e.cur] = e.out]
      BY <1>17, TruthSaved
    <2>2. /\ UNCHANGED <<e, status, pointer>> /\ pc = "save" /\ pc' = "announce"
          /\ checkpoint' = [checkpoint EXCEPT ![e.root] =
                 [node |-> e.cur, done |-> e.done, sha |-> e.sha, join |-> e.join,
                  restarts |-> e.restarts, restartSigs |-> e.restartSigs,
                  loopSigs |-> e.loopSigs]]
      BY <1>17 DEF SaveCheckpoint
    <2>3. /\ checkpoint'[e.root].node = e.cur /\ checkpoint'[e.root].done = e.done
          /\ checkpoint'[e.root].join = e.join /\ checkpoint'[e.root] # NoCheckpoint
          /\ \A k \in Root : k # e.root => checkpoint'[k] = checkpoint[k] /\ truth'[k] = truth[k]
      <3>1. checkpoint'[e.root] \in Checkpoint
        BY <1>t, <2>2 DEF EngineVars, Checkpoint
      <3> QED BY <1>t, <2>1, <2>2, <3>1, CheckpointAssumption
    <2>4. truth'[e.root] = [truth[e.root] EXCEPT ![e.cur] = e.out] /\ truth'[e.root][e.cur] = e.out
      BY <1>t, <2>1
    <2>5. e.out \in Outcomes[e.cur] /\ status[e.root][e.cur] = e.out
      BY <2>2 DEF OnDisk, OutcomeOnDisk
    <2>6. ASSUME NEW n \in Graph.gates, n # e.cur
          PROVE  /\ e.seen[n] = truth[e.root][n]
                 /\ (IF n \in e.done THEN status[e.root][n] ELSE NoOutcome) = truth[e.root][n]
      <3>1. n \in Node
        BY RunAssumption DEF IsGraph
      <3>2. n \notin Landings
        BY <1>1, <2>2, <2>6 DEF WalkInv
      <3>3. n \in e.done <=> n \in DoneBefore
        BY <2>2, <2>6 DEF WalkInv
      <3>4. CASE AnyPointed /\ e.root = pointer
        <4>1. n \notin Open(pointer)
          BY <2>2, <3>2, <3>4 DEF WalkInv, Underway, Landings, Heading, Open
        <4>2. RestoredSeen(pointer)[n] = truth[pointer][n]
          BY <3>4, <4>1 DEF WalkInv, Restorable, Completed, Counting
        <4> QED BY <2>2, <3>1, <3>2, <3>3, <3>4, <4>2
            DEF WalkInv, GatesKnown, RestoredSeen, DoneBefore
      <3>5. CASE ~(AnyPointed /\ e.root = pointer)
        <4>1. truth[e.root] = NoStatus
          BY <2>2, <3>5 DEF WalkInv, Underway
        <4> QED BY <2>2, <3>1, <3>2, <3>3, <3>5, <4>1 DEF WalkInv, GatesKnown, DoneBefore, NoStatus
      <3> QED BY <3>4, <3>5
    <2>7. Saved'
      <3>1. \A n \in Graph.gates : e'.seen[n] = truth'[e.root][n]
        BY <1>t, <2>2, <2>4, <2>6 DEF WalkInv
      <3>2. \A n \in Counting(e.root)' : RestoredSeen(e.root)'[n] = truth'[e.root][n]
        <4>1. ASSUME NEW n \in Counting(e.root)' PROVE RestoredSeen(e.root)'[n] = truth'[e.root][n]
          <5>1. n \in Node /\ (n = e.cur \/ n \in Graph.gates)
            BY <1>t, <2>2, <2>3, RunAssumption DEF Counting, IsGraph
          <5>2. RestoredSeen(e.root)'[n] = IF n \in e.done THEN status[e.root][n] ELSE NoOutcome
            BY <2>2, <2>3, <5>1 DEF RestoredSeen
          <5>3. CASE n = e.cur
            BY <2>2, <2>4, <2>5, <5>2, <5>3 DEF WalkInv
          <5>4. CASE n # e.cur
            BY <1>t, <2>4, <2>6, <5>1, <5>2, <5>4
          <5> QED BY <5>3, <5>4
        <4> QED BY <4>1
      <3>3. Restorable(e.root)'
        BY <2>2, <2>3, <2>4, <2>5, <3>2 DEF WalkInv, Restorable, Completed
      <3> QED BY <2>2, <2>3, <3>1, <3>2, <3>3 DEF Saved
    <2>8. CASE e.root = pointer
      <3>1. Restorable(pointer)'
        BY <2>2, <2>7, <2>8, PointerReadsOwn DEF Saved
      <3> QED BY <2>2, <2>7, <2>8, <3>1 DEF WalkInv
    <2>9. CASE e.root # pointer
      <3>1. AnyPointed /\ Route(pointer).kind = "restart" /\ truth[e.root] = NoStatus
        BY <2>2, <2>9 DEF WalkInv, Underway
      <3>2. AnyPointed' /\ Route(pointer)' = Route(pointer) /\ Heading' = Heading /\ Carried' = Carried
        BY <1>t, <2>2, <2>3, <2>9, <3>1 DEF AnyPointed, Pointed, Route, Heading, Carried
      <3>3. Restorable(pointer)'
        <4>1. PICK k \in Root : k = pointer
          BY <1>t
        <4>2. Restorable(k)'
          BY <1>t, <2>2, <2>3, <2>9, <3>1, <4>1, RestorableStays DEF WalkInv, AnyPointed, Pointed
        <4>3. pointer' = k
          BY <2>2, <4>1
        <4> QED BY <4>2, <4>3, PointerReads
      <3>4. Restarted'
        BY <2>2, <2>4, <3>1, <3>2 DEF WalkInv, Restarted, JoinTaken, Landings
      <3> QED BY <2>2, <2>7, <3>3, <3>4 DEF WalkInv
    <2> QED BY <2>8, <2>9
  <1>18. CASE Announce /\ Quiet
    <2>1. /\ UNCHANGED <<e, checkpoint, truth, status>> /\ pc = "announce" /\ pointer' = e.root
          /\ \/ e.cur \in Terminal /\ pc' = "persist" /\ verdict' = "success"
             \/ e.cur \notin Terminal /\ pc' = "route"
      BY <1>18 DEF Announce
    <2>2. Saved /\ Saved' /\ Restorable(e.root)'
      BY <2>1, SavedStays DEF WalkInv, Saved
    <2>3. AnyPointed' /\ Restorable(pointer)'
      BY <2>1, <2>2, PointerReadsOwn DEF Saved, AnyPointed, Pointed
    <2>4. Pointed.node' = e.cur
      BY <2>1 DEF Pointed, OnDisk, RouteOnDisk
    <2> QED BY <2>1, <2>2, <2>3, <2>4 DEF WalkInv
  \* At route the engine holds what the announced checkpoint holds.
  <1>19. ASSUME pc = "route"
         PROVE  /\ AnyPointed /\ e.root = pointer /\ Decision = Route(pointer)
                /\ e.out \in Outcomes[e.cur] /\ e.join = checkpoint[pointer].join
                /\ e.done = checkpoint[pointer].done /\ e.join \in Joins /\ Restorable(pointer)
                /\ \A n \in Graph.gates : e.seen[n] = truth[pointer][n]
    BY <1>19 DEF WalkInv, OnDisk, RouteOnDisk, OutcomeOnDisk, Saved, AnyPointed, Pointed, Decision,
        Route, Restorable, Completed
  <1>20. CASE RouteHop /\ Quiet
    <2>1. PICK to : to = Decision.to
      OBVIOUS
    <2>2. PICK kind : kind = Decision.kind
      OBVIOUS
    <2>3. /\ Still /\ UNCHANGED status /\ pc = "route" /\ pc' = "enter" /\ kind \in {"hop", "fan_out"}
          /\ e' = [e EXCEPT !.cur = to, !.join = IF kind = "fan_out" THEN to ELSE @]
      BY <1>20, <2>1, <2>2 DEF RouteHop
    <2>4. /\ e'.cur = to /\ e'.root = e.root /\ e'.seen = e.seen /\ e'.done = e.done
          /\ e'.join = IF kind = "fan_out" THEN to ELSE e.join
      BY <1>t, <2>3 DEF EngineVars
    <2>5. /\ AnyPointed' /\ e'.root = pointer' /\ Route(pointer)' = Route(pointer)
          /\ Route(pointer).to = to /\ Route(pointer).kind = kind
      BY <1>19, <2>1, <2>2, <2>3, <2>4, LegStays
    <2>6. Heading' = to /\ Underway' /\ AtEnter'
      BY <2>3, <2>4, <2>5 DEF Heading, Underway, AtEnter, Moves
    <2>7. e'.join = Carried' /\ e'.done = DoneBefore'
      BY <1>19, <2>3, <2>4, <2>5 DEF Carried, DoneBefore
    <2>8. e'.join \in Joins
      <3>1. kind = "fan_out" => to \in Joins
        BY <1>t, <1>19, <2>1, <2>2, <2>3, FanOutJoins DEF Decision
      <3> QED BY <1>19, <2>3, <2>4, <3>1
    <2>9. GatesKnown'
      BY <1>19, <2>3, <2>4, <2>5 DEF GatesKnown
    <2>10. (AnyPointed => Restorable(pointer))'
      BY <1>t, <2>3, PointerStays DEF WalkInv
    <2> QED BY <2>3, <2>6, <2>7, <2>8, <2>9, <2>10 DEF WalkInv
  <1>21. CASE LoopRestart /\ HNext
    <2>1. PICK to : to = Decision.to
      OBVIOUS
    <2>2. /\ UNCHANGED <<checkpoint, status, pointer>> /\ pc = "route" /\ pc' = "enter"
          /\ Decision.kind = "restart" /\ e' = Relaunched
      BY <1>21 DEF LoopRestart
    <2>3. /\ e'.cur = to /\ e'.root = e.root + 1 /\ e'.seen = NoStatus /\ e'.done = {}
          /\ e'.join = NoNode
      <3>1. e.restarts = e.root
        BY <2>2 DEF IInv, RootIsRestarts, Running
      <3> QED BY <1>t, <2>1, <2>2, <3>1 DEF Relaunched, EngineVars
    <2>4. e'.root # e.root /\ e'.root \in Root
      BY <1>t, <2>3, RunAssumption DEF Root, IInv, TypeOK, EngineVars
    <2>5. truth' = [truth EXCEPT ![e'.root] = NoStatus]
      BY <1>21, <2>2, <2>4 DEF HNext, Saving, Restarting
    <2>6. truth'[e'.root] = NoStatus /\ truth'[pointer] = truth[pointer]
      BY <1>t, <1>19, <2>2, <2>4, <2>5
    <2>7. /\ AnyPointed' /\ Route(pointer)' = Route(pointer) /\ Route(pointer).to = to
          /\ Route(pointer).kind = "restart"
      BY <1>19, <2>1, <2>2, <2>6 DEF AnyPointed, Pointed, Route
    <2>8. Heading' = to /\ Underway' /\ AtEnter' /\ e'.join = Carried' /\ e'.done = DoneBefore'
      BY <1>19, <2>2, <2>3, <2>4, <2>6, <2>7
      DEF Heading, Underway, AtEnter, Carried, DoneBefore, Moves
    <2>9. GatesKnown' /\ e'.join \in Joins
      BY <2>3, <2>6 DEF GatesKnown, Joins
    <2>10. Restorable(pointer)'
      <3>1. PICK k \in Root : k = pointer
        BY <1>t
      <3>2. Restorable(k)'
        BY <1>t, <1>19, <2>2, <2>6, <3>1, RestorableStays DEF AnyPointed, Pointed
      <3>3. pointer' = k
        BY <2>2, <3>1
      <3> QED BY <3>2, <3>3, PointerReads
    <2> QED BY <2>2, <2>8, <2>9, <2>10 DEF WalkInv
  <1>22. ASSUME NEW k \in Root, NEW git \in ResumeGit, ResumeRuns(k, git), Quiet PROVE WalkInv'
    <2>1. /\ k = pointer /\ Still /\ UNCHANGED status /\ pc' = "enter" /\ checkpoint[k] # NoCheckpoint
          /\ AnyPointed /\ Restorable(k)
      BY <1>22 DEF ResumeRuns, BeginResume, Resumable, Loadable, WalkInv, AnyPointed, Pointed
    <2>2. ResumeDecision(k) = Route(k)
      BY <1>t, <2>1, ResumeTakesRoute
    <2>3. PICK to : to = Route(k).to
      OBVIOUS
    <2>4. PICK kind : kind = Route(k).kind
      OBVIOUS
    <2>5. PICK was : was = Restored(k, git)
      OBVIOUS
    <2>6. /\ was \in EngineVars /\ was.root = k /\ was.seen = RestoredSeen(k)
          /\ was.done = checkpoint[k].done /\ was.join = checkpoint[k].join
      <3>1. was \in EngineVars
        BY <1>t, <2>1, <2>5, RestoredType
      <3> QED BY <2>5, <3>1, FreshType DEF Restored, FreshEngine
    <2>7. /\ e' = [was EXCEPT !.cur = to, !.join = IF kind = "fan_out" THEN to ELSE @]
          /\ kind \in {"hop", "fan_out", "restart"}
      BY <1>22, <2>2, <2>3, <2>4, <2>5 DEF ResumeRuns
    <2>8. /\ e'.cur = to /\ e'.root = k /\ e'.seen = RestoredSeen(k) /\ e'.done = checkpoint[k].done
          /\ e'.join = IF kind = "fan_out" THEN to ELSE checkpoint[k].join
      <3>1. PICK join : join = IF kind = "fan_out" THEN to ELSE was.join
        OBVIOUS
      <3>2. was \in EngineVars /\ e' = [was EXCEPT !.cur = to, !.join = join]
        BY <2>6, <2>7, <3>1
      <3>3. e'.cur = to /\ e'.join = join
        BY <3>2 DEF EngineVars
      <3>4. e'.root = was.root /\ e'.seen = was.seen /\ e'.done = was.done
        BY <3>2 DEF EngineVars
      <3> QED BY <2>6, <3>1, <3>3, <3>4
    <2>9. AnyPointed' /\ Route(pointer)' = Route(pointer) /\ e'.root = pointer'
          /\ Route(pointer).kind = kind /\ Route(pointer).to = to
      BY <2>1, <2>3, <2>4, <2>8 DEF Route, AnyPointed, Pointed
    <2>10. Heading' = to /\ Underway' /\ AtEnter' /\ e'.join = Carried' /\ e'.done = DoneBefore'
      BY <2>1, <2>7, <2>8, <2>9 DEF Heading, Underway, AtEnter, Carried, DoneBefore, Moves
    <2>11. e'.join \in Joins
      <3>1. checkpoint[k] \in Checkpoint
        BY <1>t, <2>1
      <3>2. kind = "fan_out" => to \in Joins
        <4>1. PICK n, o, join : /\ n = checkpoint[k].node /\ join = checkpoint[k].join
                                /\ o = truth[k][checkpoint[k].node]
          OBVIOUS
        <4>2. n \in Node /\ o \in Outcomes[n]
          BY <2>1, <3>1, <4>1 DEF Restorable, Completed, Checkpoint
        <4>3. to = Decide(Graph, n, o, join).to /\ kind = Decide(Graph, n, o, join).kind
          BY <2>3, <2>4, <4>1 DEF Route
        <4>4. o \in (UNION {Outcomes[m] : m \in Node}) \cup {Canceled}
          BY <4>2
        <4> QED BY <4>2, <4>3, <4>4, FanOutJoins
      <3> QED BY <2>1, <2>8, <3>2 DEF Restorable, Completed
    <2>12. GatesKnown'
      <3>1. Open(k) = W!Landing(to, truth[k])
        BY <2>3, <2>4, <2>7 DEF Open, Moves
      <3>2. e'.root = k /\ truth'[e'.root] = truth[k]
        BY <2>1, <2>8
      <3>3. Landings' = Open(k)
        BY <2>10, <3>1, <3>2 DEF Landings
      <3>4. \A n \in Graph.gates \ Open(k) : RestoredSeen(k)[n] = truth[k][n]
        BY <2>1 DEF Restorable, Counting
      <3>5. \A n \in Graph.gates \ Open(k) : e'.seen[n] = truth'[e'.root][n]
        BY <2>8, <3>2, <3>4
      <3> QED BY <3>3, <3>5 DEF GatesKnown
    <2>13. (AnyPointed => Restorable(pointer))'
      BY <1>t, <2>1, PointerStays DEF WalkInv
    <2> QED BY <2>1, <2>10, <2>11, <2>12, <2>13 DEF WalkInv
  <1>23. CASE Cancel /\ Quiet
    BY <1>4, <1>23 DEF Cancel
  <1>24. CASE UNCHANGED hvars
    BY <1>4, <1>24 DEF hvars, vars
  <1>25. ASSUME HNext PROVE SaveCheckpoint \/ LoopRestart \/ Quiet
    BY <1>25, <1>t, TruthMoves
  <1> HIDE DEF Quiet, Still
  <1> QED
    BY <1>5, <1>6, <1>7, <1>8, <1>9, <1>10, <1>12, <1>13, <1>14, <1>15, <1>16, <1>17, <1>18,
       <1>20, <1>21, <1>22, <1>23, <1>24, <1>25
    DEF HNext, Next, Engine, Resume

LEMMA WalkInductive ==
    ASSUME ResumeFrom = "cxdb", RetriedElsewhere
    PROVE  HSpec => [](IInv /\ OnDisk /\ WalkInv)
  <1>1. HInit => WalkInv
    BY WalkInit
  <1>2. IInv /\ OnDisk /\ WalkInv /\ [HNext]_hvars /\ IInv' => WalkInv'
    BY WalkStep
  <1> QED BY <1>1, <1>2, HistoryInductive, PTL DEF HSpec

LEMMA Completes ==
    ASSUME AnyPointed', NEW n, NEW outcomes, NEW from, NEW o \in Outcomes[n],
           Pointed.node' = n, truth'[pointer'][n] = o,
           truth'[pointer'] = [outcomes EXCEPT ![n] = o],
           Pointed.join' = IF o.join # NoNode THEN o.join ELSE from
    PROVE  W!Complete(n, outcomes, from)
  BY DEF W!Complete

LEMMA WalkDecision == AnyPointed => W!Decision = Route(pointer)
  BY WalkDecide DEF W!Decision, Route, Pointed

LEMMA StepRefines ==
    ASSUME RetriedElsewhere, IInv, OnDisk, WalkInv, [HNext]_hvars
    PROVE  [W!Next]_(W!walk)
  <1> USE DEF Conclude, files, Gone, Before, After
  <1>t. /\ TypeOK /\ e \in EngineVars /\ pointer \in Root
        /\ checkpoint \in [Root -> Checkpoint \cup {NoCheckpoint}]
        /\ e.cur \in Node /\ e.root \in Root
        /\ truth \in [Root -> [Node -> AnyOutcome]] /\ e.out \in AnyOutcome
    BY DEF IInv, TypeOK, OnDisk, EngineVars
  <1>1. ASSUME pointer' = pointer, checkpoint'[pointer] = checkpoint[pointer],
               truth'[pointer] = truth[pointer]
        PROVE  UNCHANGED W!walk
    BY <1>1 DEF W!walk, AnyPointed, Pointed
  <1>2. ASSUME AnyPointed PROVE Pointed.node # NoNode
    BY <1>t, <1>2, RoutingAssumption DEF AnyPointed, Pointed, Checkpoint
  <1>3. CASE SaveCheckpoint /\ HNext
    <2>1. truth' = [truth EXCEPT ![e.root][e.cur] = e.out]
      BY <1>3, TruthSaved
    <2>2. /\ UNCHANGED <<e, pointer>> /\ pc = "save"
          /\ checkpoint' = [checkpoint EXCEPT ![e.root] =
                 [node |-> e.cur, done |-> e.done, sha |-> e.sha, join |-> e.join,
                  restarts |-> e.restarts, restartSigs |-> e.restartSigs,
                  loopSigs |-> e.loopSigs]]
      BY <1>3 DEF SaveCheckpoint
    <2>3. CASE e.root # pointer
      <3>1. checkpoint'[pointer] = checkpoint[pointer] /\ truth'[pointer] = truth[pointer]
        BY <1>t, <2>1, <2>2, <2>3
      <3> QED BY <1>1, <2>2, <3>1
    <2>4. CASE e.root = pointer
      <3>1. /\ checkpoint'[pointer].node = e.cur /\ checkpoint'[pointer].join = e.join
            /\ checkpoint'[pointer] # NoCheckpoint
        <4>1. checkpoint'[pointer] \in Checkpoint
          BY <1>t, <2>2, <2>4 DEF EngineVars, Checkpoint
        <4> QED BY <1>t, <2>2, <2>4, <4>1, CheckpointAssumption
      <3>2. AnyPointed' /\ Pointed.node' = e.cur /\ Pointed.join' = e.join
        BY <2>2, <3>1 DEF AnyPointed, Pointed
      <3>3. /\ truth'[pointer'] = [truth[pointer] EXCEPT ![e.cur] = e.out]
            /\ truth'[pointer'][e.cur] = e.out
        BY <1>t, <2>1, <2>2, <2>4
      <3>4. e.out \in Outcomes[e.cur]
        BY <2>2 DEF OnDisk, OutcomeOnDisk
      <3>5. /\ Underway /\ e.cur \in W!Landing(Heading, truth[pointer])
            /\ e.join = IF e.out.join # NoNode THEN e.out.join ELSE Carried
        BY <2>2, <2>4 DEF WalkInv, Landings, JoinTaken
      <3>6. W!Complete(e.cur, truth[pointer], Carried)
        BY <3>2, <3>3, <3>4, <3>5, Completes
      <3>7. CASE ~AnyPointed
        <4>1. Heading = Start /\ Carried = NoNode /\ truth[pointer] = NoStatus
          BY <3>5, <3>7 DEF Heading, Carried, Underway
        <4>2. W!Begin
          BY <3>5, <3>6, <3>7, <4>1 DEF W!Begin
        <4> QED BY <4>2 DEF W!Next
      <3>8. CASE AnyPointed
        <4>1. /\ W!Decision = Route(pointer) /\ Pointed.node # NoNode
              /\ Heading = Route(pointer).to /\ Route(pointer).kind \in Moves
          BY <1>2, <3>5, <3>8, WalkDecision DEF Heading, Underway
        <4>2. Carried = IF Route(pointer).kind = "fan_out" THEN Route(pointer).to ELSE Pointed.join
          BY <2>4, <3>8 DEF Carried, Pointed
        <4>3. CASE Route(pointer).kind = "hop"
          <5>1. W!Hop
            BY <3>5, <3>6, <3>8, <4>1, <4>2, <4>3 DEF W!Hop
          <5> QED BY <5>1 DEF W!Next
        <4>4. CASE Route(pointer).kind = "fan_out"
          <5>1. W!FanOutAndJoin
            BY <3>5, <3>6, <3>8, <4>1, <4>2, <4>4 DEF W!FanOutAndJoin
          <5> QED BY <5>1 DEF W!Next
        <4>5. CASE Route(pointer).kind = "restart"
          <5>1. W!Restart
            BY <3>5, <3>6, <3>8, <4>1, <4>2, <4>5 DEF W!Restart
          <5> QED BY <5>1 DEF W!Next
        <4> QED BY <4>1, <4>3, <4>4, <4>5 DEF Moves
      <3> QED BY <3>7, <3>8
    <2> QED BY <2>3, <2>4
  <1>4. CASE Announce /\ HNext
    <2>1. UNCHANGED <<e, checkpoint, truth>> /\ pc = "announce" /\ pointer' = e.root
      <3>1. ~Saving /\ ~Restarting
        BY <1>4 DEF Announce, Saving, Restarting
      <3> QED BY <1>4, <3>1 DEF Announce, HNext
    <2>2. CASE e.root = pointer
      BY <1>1, <2>1, <2>2
    <2>3. CASE e.root # pointer
      <3>1. Restarted /\ checkpoint[e.root] # NoCheckpoint
        BY <2>1, <2>3 DEF WalkInv, Saved
      <3>2. /\ checkpoint[e.root].node = e.cur /\ checkpoint[e.root].join = e.join
            /\ e.out \in Outcomes[e.cur]
        BY <2>1 DEF OnDisk, RouteOnDisk, OutcomeOnDisk
      <3>3. AnyPointed' /\ Pointed.node' = e.cur /\ Pointed.join' = e.join
        BY <2>1, <3>1, <3>2 DEF AnyPointed, Pointed
      <3>4. Heading = Route(pointer).to /\ Carried = NoNode /\ W!Decision = Route(pointer)
        BY <2>3, <3>1, WalkDecision DEF Heading, Carried, Restarted
      <3>5. W!Fresh = NoStatus
        BY DEF W!Fresh, NoStatus
      <3>6. truth'[pointer'] = [NoStatus EXCEPT ![e.cur] = e.out] /\ truth'[pointer'][e.cur] = e.out
        BY <1>t, <2>1, <3>1 DEF Restarted, NoStatus
      <3>7. e.join = IF e.out.join # NoNode THEN e.out.join ELSE NoNode
        BY <3>1, <3>4 DEF Restarted, JoinTaken
      <3>8. W!Complete(e.cur, NoStatus, NoNode)
        BY <3>2, <3>3, <3>6, <3>7, Completes
      <3>9. W!Restart
        BY <1>2, <3>1, <3>4, <3>5, <3>8 DEF W!Restart, Restarted
      <3> QED BY <3>9 DEF W!Next
    <2> QED BY <2>2, <2>3
  <1>5. CASE LoopRestart /\ HNext
    <2>1. UNCHANGED <<checkpoint, pointer>> /\ pc = "route" /\ pc' = "enter" /\ e' = Relaunched
      BY <1>5 DEF LoopRestart
    <2>2. e'.root = e.root + 1
      <3>1. e.restarts = e.root
        BY <2>1 DEF IInv, RootIsRestarts, Running
      <3> QED BY <1>t, <2>1, <3>1 DEF Relaunched, EngineVars
    <2>3. e.root = pointer /\ e'.root # pointer
      BY <1>t, <2>1, <2>2, RunAssumption DEF OnDisk, RouteOnDisk, Root
    <2>4. truth'[pointer] = truth[pointer]
      BY <1>t, <1>5, <2>1, <2>3 DEF HNext, Saving, Restarting
    <2> QED BY <1>1, <2>1, <2>4
  <1>6. ASSUME HNext, ~SaveCheckpoint, ~LoopRestart, ~Announce
        PROVE  UNCHANGED <<checkpoint, truth, pointer>>
    <2>1. ~Saving /\ ~Restarting
      BY <1>6 DEF HNext, Next, Saving, Restarting, Engine, EnterCanceled, EnterStuck, GateRetry,
        StartStage, EndStage, StageCanceled, RecordStage, Commit, RouteHop, RouteEnd,
        RefuseRestart, PersistCurrent, PersistBase, CompleteRun, Cancel, Crash,
        Resume, ResumeUnloadable, ResumeFails, ResumeNothing, ResumeRuns, BeginResume,
        IInv, TypeOK, EngineVars
    <2>2. UNCHANGED <<checkpoint, pointer>>
      BY <1>6 DEF HNext, Next, Engine, EnterCanceled, EnterStuck, GateRetry,
        StartStage, EndStage, StageCanceled, RecordStage, Commit, RouteHop, RouteEnd,
        RefuseRestart, PersistCurrent, PersistBase, CompleteRun, Cancel, Crash,
        Resume, ResumeUnloadable, ResumeFails, ResumeNothing, ResumeRuns, BeginResume
    <2> QED BY <1>6, <2>1, <2>2 DEF HNext
  <1>7. CASE UNCHANGED hvars
    BY <1>1, <1>7 DEF hvars, vars
  <1> QED BY <1>1, <1>3, <1>4, <1>5, <1>6, <1>7

\* WalkSpec: read one after the other, the announced checkpoints are a walk
\* through the graph, each node chosen by the routing rules from the outcome of
\* the node before it, whatever crashes, resumes and cancellations lie between.
THEOREM RunIsAWalk ==
    ASSUME ResumeFrom = "cxdb", RetriedElsewhere
    PROVE  HSpec => WalkSpec
  <1>1. HInit => W!Init
    <2> SUFFICES ASSUME HInit PROVE W!Init
      OBVIOUS
    <2>1. ~AnyPointed
      BY RunAssumption DEF HInit, Init, AnyPointed, Pointed, Root
    <2> QED BY <2>1 DEF W!Init, W!Fresh, NoStatus
  <1>2. IInv /\ OnDisk /\ WalkInv /\ [HNext]_hvars => [W!Next]_(W!walk)
    BY StepRefines
  <1> QED BY <1>1, <1>2, WalkInductive, PTL DEF HSpec, WalkSpec, W!Spec

\* A walk that lands on a terminal node has no failed gate behind it.
LEMMA LandsPastGates ==
    ASSUME RetriedElsewhere, NEW m \in Node, NEW outcomes \in [Node -> AnyOutcome],
           NEW n \in W!Landing(m, outcomes), NEW from, W!Complete(n, outcomes, from)
    PROVE  W!WalkPassesGates'
  <1>1. PICK o \in Outcomes[n] :
            /\ (IF AnyPointed THEN Pointed.node ELSE NoNode)' = n
            /\ (IF AnyPointed THEN truth[pointer] ELSE NoStatus)' = [outcomes EXCEPT ![n] = o]
    BY DEF W!Complete
  <1>2. CASE n \notin Terminal
    BY <1>1, <1>2 DEF W!WalkPassesGates
  <1>3. CASE n \in Terminal
    <2>1. FailedGates(Graph, outcomes) = {} /\ n \notin Graph.gates /\ n \in Node
      BY <1>3, LandingOffGates DEF RetriedElsewhere, GatesRetriedElsewhere
    <2>2. Graph.gates \subseteq Node
      BY RunAssumption DEF IsGraph
    <2>3. \A gate \in Graph.gates : [outcomes EXCEPT ![n] = o][gate] = outcomes[gate]
      BY <2>1, <2>2
    <2>4. FailedGates(Graph, [outcomes EXCEPT ![n] = o]) = {}
      BY <2>1, <2>3 DEF FailedGates
    <2> QED BY <1>1, <2>4, WalkGates DEF W!WalkPassesGates
  <1> QED BY <1>2, <1>3

LEMMA WalkKeepsGates ==
    ASSUME RetriedElsewhere, TypeOK, truth \in [Root -> [Node -> AnyOutcome]],
           W!WalkPassesGates, [W!Next]_(W!walk)
    PROVE  W!WalkPassesGates'
  <1>1. pointer \in Root /\ W!Fresh \in [Node -> AnyOutcome]
    BY FreshType DEF TypeOK, W!Fresh, NoStatus
  <1>2. PICK known : known = IF AnyPointed THEN truth[pointer] ELSE NoStatus
    OBVIOUS
  <1>3. known \in [Node -> AnyOutcome]
    BY <1>1, <1>2, FreshType
  <1>4. AnyPointed /\ Route(pointer).kind \in Moves => Route(pointer).to \in Node
    <2>1. AnyPointed => checkpoint[pointer] \in Checkpoint
      BY <1>1 DEF AnyPointed, Pointed, TypeOK
    <2>2. AnyPointed => \/ Route(pointer).kind \in Moves /\ Route(pointer).to \in Node
                        \/ Route(pointer).kind \in Ends
      BY <2>1, DecisionType, RunAssumption DEF Route, Checkpoint
    <2> QED BY <2>2 DEF Moves, Ends
  <1>5. CASE UNCHANGED W!walk
    BY <1>5 DEF W!walk, W!WalkPassesGates
  <1>6. CASE W!Begin
    <2>1. \E n \in W!Landing(Start, known) : W!Complete(n, known, NoNode)
      BY <1>2, <1>6, RoutingAssumption DEF W!Begin, AnyPointed, TypeOK, Checkpoint, Pointed
    <2> QED BY <1>3, <2>1, LandsPastGates, RunAssumption
  <1>7. ASSUME AnyPointed, Route(pointer).kind \in Moves, NEW from,
               \E n \in W!Landing(Route(pointer).to, known) : W!Complete(n, known, from)
        PROVE  W!WalkPassesGates'
    BY <1>3, <1>4, <1>7, LandsPastGates
  <1>8. CASE W!Hop \/ W!FanOutAndJoin
    <2>1. AnyPointed /\ W!Decision = Route(pointer)
      BY <1>8, WalkDecision DEF W!Hop, W!FanOutAndJoin
    <2> QED BY <1>2, <1>7, <1>8, <2>1 DEF W!Hop, W!FanOutAndJoin, Moves
  <1>9. CASE W!Restart
    <2>1. AnyPointed /\ W!Decision = Route(pointer) /\ Route(pointer).kind \in Moves
      BY <1>9, WalkDecision DEF W!Restart, Moves
    <2>2. CASE \E n \in W!Landing(Route(pointer).to, W!Fresh) : W!Complete(n, W!Fresh, NoNode)
      BY <1>1, <1>4, <2>1, <2>2, LandsPastGates
    <2>3. CASE \E n \in W!Landing(Route(pointer).to, known) : W!Complete(n, known, Pointed.join)
      BY <1>7, <2>1, <2>3
    <2> QED BY <1>2, <1>9, <2>1, <2>2, <2>3 DEF W!Restart
  <1> QED BY <1>5, <1>6, <1>8, <1>9 DEF W!Next

\* The abstract walk's own invariant: whenever the announced checkpoint is of a
\* terminal node, the goal gates of its iteration are satisfied, and stay so while
\* the run is down.
THEOREM WalkEndsPastGates ==
    ASSUME ResumeFrom = "cxdb", RetriedElsewhere
    PROVE  HSpec => []W!WalkPassesGates
  <1>1. HInit => W!WalkPassesGates
    <2> SUFFICES ASSUME HInit PROVE W!WalkPassesGates
      OBVIOUS
    <2>1. ~AnyPointed
      BY RunAssumption DEF HInit, Init, AnyPointed, Pointed, Root
    <2> QED BY <2>1, RunAssumption, RoutingAssumption DEF W!WalkPassesGates
  <1>2. IInv /\ OnDisk /\ WalkInv /\ W!WalkPassesGates /\ [HNext]_hvars => W!WalkPassesGates'
    BY StepRefines, WalkKeepsGates DEF IInv, OnDisk
  <1> QED BY <1>1, <1>2, WalkInductive, PTL DEF HSpec
=============================================================================
