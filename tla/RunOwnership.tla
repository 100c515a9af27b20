---------------------------- MODULE RunOwnership ----------------------------
(***************************************************************************)
(* The ownership lock of a run's logs root:                                *)
(* src/internal/attractor/engine/run_ownership_lock.go.                    *)
(*                                                                         *)
(* A runner is one call of acquireRunOwnership and of the release function *)
(* it returns: one goroutine of some operating-system process.  Several    *)
(* runners may live in one process (the HTTP server starts runs as         *)
(* goroutines), so a runner is mapped to a pid by PidOf.  A process that   *)
(* dies loses every runner's program state; its pid may come back with a   *)
(* later kernel start time.                                                *)
(*                                                                         *)
(* The lock file is created empty (O_CREATE|O_EXCL), filled by a second    *)
(* system call, read, removed and created again by different runners with  *)
(* no other synchronisation, so each system call is a step of its own.     *)
(* The file is identified by the runner that created it and the life of    *)
(* the process that runner was in: a runner writes through its descriptor, *)
(* which is no longer the file at the path once somebody removed and       *)
(* recreated it.                                                           *)
(*                                                                         *)
(* Left out: the run id and the timestamp of the record (only for error    *)
(* texts), and write errors other than the failing write and close.        *)
(***************************************************************************)
EXTENDS Naturals, FiniteSets

CONSTANTS
    Runner,        \* calls of acquireRunOwnership on one logs root
    Pid,           \* process ids
    PidOf,         \* the process a runner runs in
    MaxAttempts,   \* runOwnershipAcquireAttempts (20)
    ProcFS,        \* is /proc/<pid>/stat readable, so that start times are known
    MaxStart,      \* bound: how often a pid is reused
    MaxFaults,     \* bound: how many writes of the payload fail
    NoFile         \* no lock file at the path

ASSUME OwnershipAssumption ==
    /\ PidOf \in [Runner -> Pid]
    /\ MaxAttempts \in Nat \ {0}
    /\ ProcFS \in BOOLEAN
    /\ MaxStart \in Nat \ {0}
    /\ MaxFaults \in Nat
    /\ NoFile \notin [by : Runner, life : Nat, empty : BOOLEAN, pid : Pid, start : Nat]

VARIABLES
    lock,      \* the file at lockPath
    pc,        \* where each runner stands
    loc,       \* the local variables of a runner's call
    alive,     \* processes that exist
    born,      \* kernel start time of the process that has a pid now
    faults,    \* failing writes so far
    theft      \* a runner removed a file other than the one it had read

vars == <<lock, pc, loc, alive, born, faults, theft>>

\* by and life name the file; empty, pid and start are what it holds.
File == [by : Runner, life : Nat, empty : BOOLEAN, pid : Pid, start : Nat]

\* attempt: the loop variable; unread: lastReadErr # nil; seen: the record that
\* was read last and is decided on.
Local == [attempt : 1 .. MaxAttempts, unread : BOOLEAN, seen : File \cup {NoFile}]
FreshLocal == [attempt |-> 1, unread |-> FALSE, seen |-> NoFile]

Acquiring == {"open", "write", "close", "read", "judge", "remove"}
Owning == {"owned", "release", "unlink"}
Settled == {"idle", "conflict", "failed", "released", "dead"}

TypeOK ==
    /\ lock \in File \cup {NoFile}
    /\ pc \in [Runner -> Acquiring \cup Owning \cup Settled]
    /\ loc \in [Runner -> Local]
    /\ alive \in [Pid -> BOOLEAN]
    /\ born \in [Pid -> Nat]
    /\ faults \in Nat
    /\ theft \in BOOLEAN

Init ==
    /\ lock = NoFile
    /\ pc = [r \in Runner |-> "idle"]
    /\ loc = [r \in Runner |-> FreshLocal]
    /\ alive = [p \in Pid |-> TRUE]
    /\ born = [p \in Pid |-> 1]
    /\ faults = 0
    /\ theft = FALSE

\* procutil.ReadPIDStartTime: 0 stands for "not available".
StartTime(p) == IF ProcFS THEN born[p] ELSE 0

\* The record a runner writes: its pid and, where known, its start time.
RecordOf(r) ==
    [by |-> r, life |-> born[PidOf[r]], empty |-> FALSE,
     pid |-> PidOf[r], start |-> StartTime(PidOf[r])]

\* The file it has created and not yet written to.
EmptyOf(r) == [RecordOf(r) EXCEPT !.empty = TRUE]

\* Mutant: the start times are compared the wrong way round.
MatchesLiveProcessInverted(rec) ==
    /\ alive[rec.pid]
    /\ rec.start # 0 /\ ProcFS => born[rec.pid] # rec.start

\* runOwnershipMatchesLiveProcess.
MatchesLiveProcess(rec) ==
    /\ alive[rec.pid]
    /\ rec.start # 0 /\ ProcFS => born[rec.pid] = rec.start

\* readRunOwnership finds a record.
Readable == lock # NoFile /\ ~lock.empty

At(r, here) == pc[r] = here /\ alive[PidOf[r]]

Goto(r, there) == pc' = [pc EXCEPT ![r] = there]

\* The call comes back: its local variables are gone.
Return(r, result) ==
    /\ Goto(r, result)
    /\ loc' = [loc EXCEPT ![r] = FreshLocal]

-----------------------------------------------------------------------------
(* acquireRunOwnership *)

Call(r) ==
    /\ At(r, "idle")
    /\ Goto(r, "open")
    /\ UNCHANGED <<lock, loc, alive, born, faults, theft>>

\* os.OpenFile(O_CREATE|O_EXCL) succeeds: the file exists and is empty.
Create(r) ==
    /\ At(r, "open")
    /\ lock = NoFile
    /\ lock' = EmptyOf(r)
    /\ Goto(r, "write")
    /\ UNCHANGED <<loc, alive, born, faults, theft>>

\* f.Write(payload) reaches the path only while the path is still this file.
Write(r) ==
    /\ At(r, "write")
    /\ lock' = IF lock = EmptyOf(r) THEN RecordOf(r) ELSE lock
    /\ Goto(r, "close")
    /\ UNCHANGED <<loc, alive, born, faults, theft>>

\* Write or Close fails: whatever is at the path is removed.
WriteFails(r) ==
    /\ At(r, "write") \/ At(r, "close")
    /\ faults < MaxFaults
    /\ faults' = faults + 1
    /\ lock' = NoFile
    /\ theft' = (theft \/ lock \notin {NoFile, RecordOf(r), EmptyOf(r)})
    /\ Return(r, "failed")
    /\ UNCHANGED <<alive, born>>

Close(r) ==
    /\ At(r, "close")
    /\ Return(r, "owned")
    /\ UNCHANGED <<lock, alive, born, faults, theft>>

\* EEXIST: go and read the file.
Exists(r) ==
    /\ At(r, "open")
    /\ lock # NoFile
    /\ Goto(r, "read")
    /\ UNCHANGED <<lock, loc, alive, born, faults, theft>>

\* Mutants: attempts are not counted, or not limited.
NextAttemptUncounted(r, unreadable) ==
    /\ Goto(r, "open")
    /\ loc' = [loc EXCEPT ![r].unread = unreadable]
NextAttemptUnlimited(r, unreadable) ==
    /\ Goto(r, "open")
    /\ loc' = [loc EXCEPT ![r].attempt = @ + 1, ![r].unread = unreadable]

\* The end of an iteration that decided nothing; the last one gives up.
NextAttempt(r, unreadable) ==
    IF loc[r].attempt < MaxAttempts
    THEN /\ Goto(r, "open")
         /\ loc' = [loc EXCEPT ![r].attempt = @ + 1, ![r].unread = unreadable]
    ELSE Return(r, IF unreadable THEN "conflict" ELSE "failed")

\* readRunOwnership fails: no file any more, or an empty one.  Sleep, retry.
ReadFails(r) ==
    /\ At(r, "read")
    /\ ~Readable
    /\ NextAttempt(r, TRUE)
    /\ UNCHANGED <<lock, alive, born, faults, theft>>

Read(r) ==
    /\ At(r, "read")
    /\ Readable
    /\ loc' = [loc EXCEPT ![r].seen = lock]
    /\ Goto(r, "judge")
    /\ UNCHANGED <<lock, alive, born, faults, theft>>

Conflict(r) ==
    /\ At(r, "judge")
    /\ MatchesLiveProcess(loc[r].seen)
    /\ Return(r, "conflict")
    /\ UNCHANGED <<lock, alive, born, faults, theft>>

\* Mutant: any lock that can be read is taken over.
StaleAlways(r) ==
    /\ At(r, "judge")
    /\ Goto(r, "remove")
    /\ UNCHANGED <<lock, loc, alive, born, faults, theft>>

Stale(r) ==
    /\ At(r, "judge")
    /\ ~MatchesLiveProcess(loc[r].seen)
    /\ Goto(r, "remove")
    /\ UNCHANGED <<lock, loc, alive, born, faults, theft>>

\* os.Remove(lockPath): by path, not by what was read.
RemoveStale(r) ==
    /\ At(r, "remove")
    /\ lock' = NoFile
    /\ theft' = (theft \/ (lock # NoFile /\ lock # loc[r].seen))
    /\ NextAttempt(r, loc[r].unread)
    /\ UNCHANGED <<alive, born, faults>>

-----------------------------------------------------------------------------
(* releaseRunOwnership *)

Release(r) ==
    /\ At(r, "owned")
    /\ Goto(r, "release")
    /\ UNCHANGED <<lock, loc, alive, born, faults, theft>>

OwnRecord(r) ==
    /\ Readable
    /\ lock.pid = PidOf[r]
    /\ lock.start > 0 /\ StartTime(PidOf[r]) > 0 => lock.start = StartTime(PidOf[r])

\* The lock is somebody else's, or gone: leave it.
ReleaseSkip(r) ==
    /\ At(r, "release")
    /\ ~OwnRecord(r)
    /\ Return(r, "released")
    /\ UNCHANGED <<lock, alive, born, faults, theft>>

ReleaseRead(r) ==
    /\ At(r, "release")
    /\ OwnRecord(r)
    /\ loc' = [loc EXCEPT ![r].seen = lock]
    /\ Goto(r, "unlink")
    /\ UNCHANGED <<lock, alive, born, faults, theft>>

\* Mutant: the release returns without removing the file.
ReleaseRemoveKeeping(r) ==
    /\ At(r, "unlink")
    /\ Return(r, "released")
    /\ UNCHANGED <<lock, alive, born, faults, theft>>

ReleaseRemove(r) ==
    /\ At(r, "unlink")
    /\ lock' = NoFile
    /\ theft' = (theft \/ (lock # NoFile /\ lock # loc[r].seen))
    /\ Return(r, "released")
    /\ UNCHANGED <<alive, born, faults>>

-----------------------------------------------------------------------------
(* Processes *)

\* A process ends, by a crash or after its runs returned; the file stays.
Die(p) ==
    /\ alive[p]
    /\ alive' = [alive EXCEPT ![p] = FALSE]
    /\ pc' = [r \in Runner |-> IF PidOf[r] = p THEN "dead" ELSE pc[r]]
    /\ loc' = [r \in Runner |-> IF PidOf[r] = p THEN FreshLocal ELSE loc[r]]
    /\ UNCHANGED <<lock, born, faults, theft>>

\* A new process gets the pid: a fresh kilroy, or one that never calls it.
Spawn(p) ==
    /\ ~alive[p]
    /\ born[p] < MaxStart
    /\ alive' = [alive EXCEPT ![p] = TRUE]
    /\ born' = [born EXCEPT ![p] = @ + 1]
    /\ pc' = [r \in Runner |-> IF PidOf[r] = p THEN "idle" ELSE pc[r]]
    /\ UNCHANGED <<lock, loc, faults, theft>>

Acquire(r) ==
    \/ Create(r) \/ Write(r) \/ Close(r) \/ Exists(r) \/ ReadFails(r)
    \/ Read(r) \/ Conflict(r) \/ Stale(r) \/ RemoveStale(r)

Unlock(r) == ReleaseSkip(r) \/ ReleaseRead(r) \/ ReleaseRemove(r)

Next ==
    \/ \E r \in Runner : Call(r) \/ Acquire(r) \/ WriteFails(r) \/ Release(r) \/ Unlock(r)
    \/ \E p \in Pid : Die(p) \/ Spawn(p)

Spec == Init /\ [][Next]_vars

\* A runner inside acquireRunOwnership or releaseRunOwnership keeps running.
FairSpec == Spec /\ \A r \in Runner : WF_vars(Acquire(r)) /\ WF_vars(Unlock(r))

-----------------------------------------------------------------------------
(* Properties *)

Owner(r) == pc[r] \in Owning

\* At most one live runner believes that it owns the logs root.
MutualExclusion ==
    \A r, s \in Runner : Owner(r) /\ Owner(s) => r = s

\* Exclusion can only be lost through the window between reading a record
\* and removing the file by its path: as long as no remove has hit another
\* file than the one that was judged, at most one runner owns the logs root,
\* whatever processes die, reappear under an old pid or fail to write.
ExclusionUnlessTheft == theft \/ MutualExclusion

\* Until such a theft, the lock of a live owner stays on disk and readable, so
\* that every later contender is refused and the stop and status commands see
\* the owner's pid.
OwnerLockOnDisk ==
    \A r \in Runner :
        Owner(r) /\ ~theft => Readable /\ lock.pid = PidOf[r]

\* No leak: a readable record of a process that is alive belongs to a runner of
\* that process that owns the root or is about to.  A record left behind by a
\* live server process would refuse that logs root until the server stops.
NoLeakedLock ==
    ProcFS /\ ~theft /\ Readable /\ MatchesLiveProcess(lock) =>
        Owner(lock.by) \/ pc[lock.by] = "close"

\* A call of acquireRunOwnership always comes back, with ownership, a conflict
\* or an error, unless its process dies: neither an empty lock file nor
\* contenders that keep creating and removing the file can hold it for ever.
AcquireReturns ==
    \A r \in Runner : pc[r] \in Acquiring ~> pc[r] \notin Acquiring
=============================================================================
