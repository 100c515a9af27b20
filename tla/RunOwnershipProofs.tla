------------------------- MODULE RunOwnershipProofs -------------------------
(***************************************************************************)
(* The ownership lock excludes, for any number of runners, processes and   *)
(* attempts, with and without /proc, until a remove hits a file that was   *)
(* not the one judged.                                                     *)
(*                                                                         *)
(* The argument: a runner between its write and its unlink knows that the  *)
(* file at the path is its own record (HolderHasLock).  Another runner can *)
(* only remove it without a theft when it holds the same file as the one   *)
(* it judged stale; but what is judged stale belongs to a process life     *)
(* that is over, and such a life never comes back (RemoverIsRight).        *)
(***************************************************************************)
EXTENDS RunOwnership, TLAPS

Holding == {"close", "owned", "release", "unlink"}

\* What a file at the path or in a runner's hands says of its creator is true.
Honest(f) ==
    /\ f.pid = PidOf[f.by]
    /\ f.start = IF ProcFS THEN f.life ELSE 0
    /\ f.life # 0
    /\ f.life <= born[f.pid]

\* The process life that created a file is over.
Over(f) == alive[f.pid] => f.life < born[f.pid]

FilesHonest ==
    /\ \A p \in Pid : born[p] # 0
    /\ lock # NoFile => Honest(lock)
    /\ \A r \in Runner : loc[r].seen # NoFile => Honest(loc[r].seen)

SeenIsRecord ==
    \A r \in Runner :
        /\ pc[r] \in {"judge", "remove", "unlink"} => loc[r].seen # NoFile
        /\ loc[r].seen # NoFile => ~loc[r].seen.empty

RemoverIsRight == \A r \in Runner : pc[r] = "remove" => Over(loc[r].seen)

\* A holder's process is alive.
HoldersLive == \A r \in Runner : pc[r] \in Holding \cup {"write"} => alive[PidOf[r]]

HolderHasLock ==
    ~theft => \A r \in Runner :
        /\ pc[r] = "write" => lock = EmptyOf(r)
        /\ pc[r] \in Holding => lock = RecordOf(r)

\* A record of a process life that goes on is held by its creator.
LiveRecordIsHeld ==
    ~theft /\ Readable /\ ~Over(lock) => pc[lock.by] \in Holding

IInv ==
    /\ TypeOK
    /\ FilesHonest
    /\ SeenIsRecord
    /\ RemoverIsRight
    /\ HoldersLive
    /\ HolderHasLock
    /\ LiveRecordIsHeld

-----------------------------------------------------------------------------
(* Types *)

LEMMA RecordType ==
    ASSUME TypeOK, NEW r \in Runner
    PROVE  /\ RecordOf(r) \in File
           /\ EmptyOf(r) \in File
           /\ born[PidOf[r]] \in Nat
  BY OwnershipAssumption DEF TypeOK, RecordOf, EmptyOf, File, StartTime

LEMMA FreshType == FreshLocal \in Local
  BY OwnershipAssumption DEF FreshLocal, Local

\* The end of an attempt leaves the types alone.
LEMMA NextAttemptType ==
    ASSUME TypeOK, NEW r \in Runner, NEW unreadable \in BOOLEAN, NextAttempt(r, unreadable)
    PROVE  /\ pc' \in [Runner -> Acquiring \cup Owning \cup Settled]
           /\ loc' \in [Runner -> Local]
  <1>1. CASE loc[r].attempt < MaxAttempts
    BY <1>1, OwnershipAssumption DEF TypeOK, NextAttempt, Goto, Local, Acquiring
  <1>2. CASE ~(loc[r].attempt < MaxAttempts)
    BY <1>2, FreshType DEF TypeOK, NextAttempt, Return, Goto, Settled
  <1> QED BY <1>1, <1>2

LEMMA TypeInit == Init => TypeOK
  <1> SUFFICES ASSUME Init PROVE TypeOK
    OBVIOUS
  <1>1. alive \in [Pid -> BOOLEAN] /\ theft \in BOOLEAN
    BY Zenon DEF Init
  <1>2. /\ lock \in File \cup {NoFile}
        /\ pc \in [Runner -> Acquiring \cup Owning \cup Settled]
        /\ loc \in [Runner -> Local]
        /\ born \in [Pid -> Nat]
        /\ faults \in Nat
    BY FreshType DEF Init, Settled
  <1> QED BY <1>1, <1>2 DEF TypeOK

LEMMA TypeStep == TypeOK /\ [Next]_vars => TypeOK'
  <1> SUFFICES ASSUME TypeOK, [Next]_vars PROVE TypeOK'
    OBVIOUS
  <1> USE DEF TypeOK, At, Goto, Acquiring, Owning, Settled
  <1>1. ASSUME NEW r \in Runner, Call(r) PROVE TypeOK'
    BY <1>1 DEF Call
  <1>2. ASSUME NEW r \in Runner, Create(r) PROVE TypeOK'
    BY <1>2, RecordType DEF Create
  <1>3. ASSUME NEW r \in Runner, Write(r) PROVE TypeOK'
    BY <1>3, RecordType DEF Write
  <1>4. ASSUME NEW r \in Runner, Close(r) PROVE TypeOK'
    BY <1>4, FreshType DEF Close, Return
  <1>5. ASSUME NEW r \in Runner, Exists(r) PROVE TypeOK'
    BY <1>5 DEF Exists
  <1>6. ASSUME NEW r \in Runner, ReadFails(r) PROVE TypeOK'
    BY <1>6, NextAttemptType DEF ReadFails
  <1>7. ASSUME NEW r \in Runner, Read(r) PROVE TypeOK'
    BY <1>7 DEF Read, Local, Readable
  <1>8. ASSUME NEW r \in Runner, Conflict(r) PROVE TypeOK'
    BY <1>8, FreshType DEF Conflict, Return
  <1>9. ASSUME NEW r \in Runner, Stale(r) PROVE TypeOK'
    BY <1>9 DEF Stale
  <1>10. ASSUME NEW r \in Runner, RemoveStale(r) PROVE TypeOK'
    <2>1. loc[r].unread \in BOOLEAN
      BY DEF Local
    <2>2. QED BY <1>10, <2>1, NextAttemptType DEF RemoveStale
  <1>11. ASSUME NEW r \in Runner, WriteFails(r) PROVE TypeOK'
    BY <1>11, FreshType DEF WriteFails, Return
  <1>12. ASSUME NEW r \in Runner, Release(r) PROVE TypeOK'
    BY <1>12 DEF Release
  <1>13. ASSUME NEW r \in Runner, ReleaseSkip(r) PROVE TypeOK'
    BY <1>13, FreshType DEF ReleaseSkip, Return
  <1>14. ASSUME NEW r \in Runner, ReleaseRead(r) PROVE TypeOK'
    BY <1>14 DEF ReleaseRead, OwnRecord, Local, Readable
  <1>15. ASSUME NEW r \in Runner, ReleaseRemove(r) PROVE TypeOK'
    BY <1>15, FreshType DEF ReleaseRemove, Return
  <1>16. ASSUME NEW p \in Pid, Die(p) PROVE TypeOK'
    BY <1>16, FreshType DEF Die
  <1>17. ASSUME NEW p \in Pid, Spawn(p) PROVE TypeOK'
    BY <1>17 DEF Spawn
  <1>18. CASE UNCHANGED vars
    BY <1>18 DEF vars
  <1> QED
    BY <1>1, <1>2, <1>3, <1>4, <1>5, <1>6, <1>7, <1>8, <1>9, <1>10, <1>11, <1>12,
       <1>13, <1>14, <1>15, <1>16, <1>17, <1>18 DEF Next, Acquire, Unlock

\* Every reachable state is well typed: in particular no runner gets past its
\* last attempt.
THEOREM TypeCorrect == Spec => []TypeOK
  BY TypeInit, TypeStep, PTL DEF Spec

-----------------------------------------------------------------------------
(* What the files say *)

LEMMA OwnFileHonest ==
    ASSUME TypeOK, FilesHonest, NEW r \in Runner
    PROVE  Honest(RecordOf(r)) /\ Honest(EmptyOf(r))
  BY OwnershipAssumption DEF TypeOK, FilesHonest, Honest, RecordOf, EmptyOf, StartTime

\* The end of an attempt keeps what was read, or forgets it.
LEMMA NextAttemptSeen ==
    ASSUME TypeOK, NEW r \in Runner, NEW unreadable \in BOOLEAN, NextAttempt(r, unreadable)
    PROVE  /\ \A s \in Runner : loc'[s].seen \in {loc[s].seen, NoFile}
           /\ \A s \in Runner \ {r} : pc'[s] = pc[s] /\ loc'[s] = loc[s]
           /\ pc'[r] \in {"open", "conflict", "failed"}
  <1>1. CASE loc[r].attempt < MaxAttempts
    BY <1>1 DEF TypeOK, NextAttempt, Goto, Local
  <1>2. CASE ~(loc[r].attempt < MaxAttempts)
    BY <1>2 DEF TypeOK, NextAttempt, Return, Goto, FreshLocal
  <1> QED BY <1>1, <1>2

LEMMA FilesHonestStep ==
    ASSUME TypeOK, FilesHonest, [Next]_vars
    PROVE  FilesHonest'
  <1> USE DEF TypeOK, FilesHonest, Honest, Goto
  <1>1. ASSUME NEW r \in Runner, Create(r) PROVE FilesHonest'
    BY <1>1, OwnFileHonest DEF Create
  <1>2. ASSUME NEW r \in Runner, Write(r) PROVE FilesHonest'
    BY <1>2, OwnFileHonest DEF Write
  <1>3. ASSUME NEW r \in Runner, Read(r) \/ ReleaseRead(r) PROVE FilesHonest'
    BY <1>3 DEF Read, ReleaseRead, OwnRecord, Readable, Local
  <1>4. ASSUME NEW r \in Runner, ReadFails(r) \/ RemoveStale(r) PROVE FilesHonest'
    <2>1. loc[r].unread \in BOOLEAN
      BY DEF Local
    <2>2. \A s \in Runner : loc'[s].seen \in {loc[s].seen, NoFile}
      BY <1>4, <2>1, NextAttemptSeen DEF ReadFails, RemoveStale
    <2> QED BY <1>4, <2>2 DEF ReadFails, RemoveStale
  <1>5. ASSUME NEW r \in Runner,
               Close(r) \/ Conflict(r) \/ WriteFails(r) \/ ReleaseSkip(r) \/ ReleaseRemove(r)
        PROVE  FilesHonest'
    BY <1>5 DEF Close, Conflict, WriteFails, ReleaseSkip, ReleaseRemove, Return, FreshLocal
  <1>6. ASSUME NEW r \in Runner, Call(r) \/ Exists(r) \/ Stale(r) \/ Release(r)
        PROVE  FilesHonest'
    BY <1>6 DEF Call, Exists, Stale, Release
  <1>7. ASSUME NEW p \in Pid, Die(p) PROVE FilesHonest'
    BY <1>7 DEF Die, FreshLocal
  <1>8. ASSUME NEW p \in Pid, Spawn(p) PROVE FilesHonest'
    BY <1>8, OwnershipAssumption DEF Spawn, File, Local
  <1>9. CASE UNCHANGED vars
    BY <1>9 DEF vars
  <1> QED
    BY <1>1, <1>2, <1>3, <1>4, <1>5, <1>6, <1>7, <1>8, <1>9 DEF Next, Acquire, Unlock

LEMMA SeenIsRecordStep ==
    ASSUME TypeOK, SeenIsRecord, [Next]_vars
    PROVE  SeenIsRecord'
  <1> USE DEF TypeOK, SeenIsRecord, Goto
  <1>1. ASSUME NEW r \in Runner, Read(r) \/ ReleaseRead(r) PROVE SeenIsRecord'
    BY <1>1 DEF Read, ReleaseRead, OwnRecord, Readable, Local
  <1>2. ASSUME NEW r \in Runner, ReadFails(r) \/ RemoveStale(r) PROVE SeenIsRecord'
    <2>1. loc[r].unread \in BOOLEAN
      BY DEF Local
    <2> QED BY <1>2, <2>1, NextAttemptSeen DEF ReadFails, RemoveStale
  <1>3. ASSUME NEW r \in Runner,
               Close(r) \/ Conflict(r) \/ WriteFails(r) \/ ReleaseSkip(r) \/ ReleaseRemove(r)
        PROVE  SeenIsRecord'
    BY <1>3 DEF Close, Conflict, WriteFails, ReleaseSkip, ReleaseRemove, Return, FreshLocal
  <1>4. ASSUME NEW r \in Runner,
               Call(r) \/ Create(r) \/ Write(r) \/ Exists(r) \/ Stale(r) \/ Release(r)
        PROVE  SeenIsRecord'
    BY <1>4 DEF Call, Create, Write, Exists, Stale, Release, At
  <1>5. ASSUME NEW p \in Pid, Die(p) \/ Spawn(p) PROVE SeenIsRecord'
    BY <1>5 DEF Die, Spawn, FreshLocal
  <1>6. CASE UNCHANGED vars
    BY <1>6 DEF vars
  <1> QED
    BY <1>1, <1>2, <1>3, <1>4, <1>5, <1>6 DEF Next, Acquire, Unlock

LEMMA RemoverIsRightStep ==
    ASSUME TypeOK, FilesHonest, SeenIsRecord, RemoverIsRight, [Next]_vars
    PROVE  RemoverIsRight'
  <1> USE DEF TypeOK, RemoverIsRight, Over, Goto
  <1>1. ASSUME NEW r \in Runner, Stale(r) PROVE RemoverIsRight'
    <2>1. Honest(loc[r].seen)
      BY <1>1 DEF Stale, At, FilesHonest, SeenIsRecord
    <2>2. loc[r].seen \in File
      BY <1>1 DEF Stale, At, SeenIsRecord, Local
    <2>3. Over(loc[r].seen)
      BY <1>1, <2>1, <2>2 DEF Stale, MatchesLiveProcess, Honest, File
    <2>4. /\ loc' = loc /\ alive' = alive /\ born' = born
          /\ \A s \in Runner : s # r => pc'[s] = pc[s]
      BY <1>1 DEF Stale
    <2>5. ASSUME NEW s \in Runner, pc'[s] = "remove" PROVE Over(loc[s].seen)
      <3>1. CASE s = r
        BY <3>1, <2>3
      <3>2. CASE s # r
        BY <3>2, <2>4, <2>5
      <3> QED BY <3>1, <3>2
    <2> QED BY <2>4, <2>5
  <1>2. ASSUME NEW r \in Runner, ReadFails(r) \/ RemoveStale(r) PROVE RemoverIsRight'
    <2>1. loc[r].unread \in BOOLEAN
      BY DEF Local
    <2> QED BY <1>2, <2>1, NextAttemptSeen DEF ReadFails, RemoveStale
  <1>3. ASSUME NEW r \in Runner,
               Close(r) \/ Conflict(r) \/ WriteFails(r) \/ ReleaseSkip(r) \/ ReleaseRemove(r)
        PROVE  RemoverIsRight'
    BY <1>3 DEF Close, Conflict, WriteFails, ReleaseSkip, ReleaseRemove, Return
  <1>4. ASSUME NEW r \in Runner,
               Call(r) \/ Create(r) \/ Write(r) \/ Exists(r) \/ Release(r)
        PROVE  RemoverIsRight'
    BY <1>4 DEF Call, Create, Write, Exists, Release
  <1>5. ASSUME NEW r \in Runner, Read(r) \/ ReleaseRead(r) PROVE RemoverIsRight'
    BY <1>5 DEF Read, ReleaseRead
  <1>6. ASSUME NEW p \in Pid, Die(p) PROVE RemoverIsRight'
    BY <1>6 DEF Die
  <1>7. ASSUME NEW p \in Pid, Spawn(p) PROVE RemoverIsRight'
    <2>1. \A r \in Runner : pc[r] = "remove" => loc[r].seen \in File /\ Honest(loc[r].seen)
      BY DEF SeenIsRecord, FilesHonest, Local
    <2> QED BY <1>7, <2>1 DEF Spawn, Honest, File
  <1>8. CASE UNCHANGED vars
    BY <1>8 DEF vars
  <1> QED
    BY <1>1, <1>2, <1>3, <1>4, <1>5, <1>6, <1>7, <1>8 DEF Next, Acquire, Unlock

-----------------------------------------------------------------------------
(* Holding the lock *)

\* A file is what its creator wrote only for one creator.
LEMMA OneCreator ==
    ASSUME TypeOK, NEW r \in Runner, NEW s \in Runner, r # s
    PROVE  /\ RecordOf(r) \notin {RecordOf(s), EmptyOf(s)}
           /\ EmptyOf(r) \notin {RecordOf(s), EmptyOf(s)}
  BY DEF RecordOf, EmptyOf

LEMMA EmptyOrNot ==
    ASSUME TypeOK, NEW r \in Runner
    PROVE  /\ ~RecordOf(r).empty /\ EmptyOf(r).empty
           /\ RecordOf(r) # EmptyOf(r)
           /\ RecordOf(r) # NoFile /\ EmptyOf(r) # NoFile
           /\ RecordOf(r).by = r
  BY RecordType, OwnershipAssumption DEF RecordOf, EmptyOf, File

LEMMA SameRecords ==
    ASSUME born' = born, NEW r \in Runner
    PROVE  RecordOf(r)' = RecordOf(r) /\ EmptyOf(r)' = EmptyOf(r)
  BY DEF RecordOf, EmptyOf, StartTime

\* Nothing but its own process can end the life that holds a lock.
LEMMA OwnLifeGoesOn ==
    ASSUME TypeOK, NEW r \in Runner, alive[PidOf[r]]
    PROVE  ~Over(RecordOf(r))
  BY OwnershipAssumption DEF TypeOK, Over, RecordOf

LEMMA HoldersLiveStep ==
    ASSUME TypeOK, HoldersLive, [Next]_vars
    PROVE  HoldersLive'
  <1> USE DEF TypeOK, HoldersLive, Goto, Holding
  <1>1. ASSUME NEW r \in Runner, ReadFails(r) \/ RemoveStale(r) PROVE HoldersLive'
    <2>1. loc[r].unread \in BOOLEAN
      BY DEF Local
    <2>2. NextAttempt(r, TRUE) \/ NextAttempt(r, loc[r].unread)
      BY <1>1 DEF ReadFails, RemoveStale
    <2>3. \A s \in Runner : pc'[s] \in Holding \cup {"write"} => pc'[s] = pc[s]
      BY <2>1, <2>2, NextAttemptSeen
    <2>4. alive' = alive
      BY <1>1 DEF ReadFails, RemoveStale
    <2> QED BY <2>3, <2>4
  <1>2. ASSUME NEW r \in Runner,
               Close(r) \/ Conflict(r) \/ WriteFails(r) \/ ReleaseSkip(r) \/ ReleaseRemove(r)
        PROVE  HoldersLive'
    BY <1>2 DEF Close, Conflict, WriteFails, ReleaseSkip, ReleaseRemove, Return, At
  <1>3. ASSUME NEW r \in Runner,
               Call(r) \/ Create(r) \/ Write(r) \/ Exists(r) \/ Stale(r) \/ Release(r)
                 \/ Read(r) \/ ReleaseRead(r)
        PROVE  HoldersLive'
    BY <1>3 DEF Call, Create, Write, Exists, Stale, Release, Read, ReleaseRead, At
  <1>4. ASSUME NEW p \in Pid, Die(p) \/ Spawn(p) PROVE HoldersLive'
    BY <1>4, OwnershipAssumption DEF Die, Spawn
  <1>5. CASE UNCHANGED vars
    BY <1>5 DEF vars
  <1> QED
    BY <1>1, <1>2, <1>3, <1>4, <1>5 DEF Next, Acquire, Unlock

LEMMA HolderHasLockStep ==
    ASSUME TypeOK, SeenIsRecord, RemoverIsRight, HoldersLive, HolderHasLock, [Next]_vars
    PROVE  HolderHasLock'
  <1> USE DEF TypeOK, Goto, Holding
  <1>1. ASSUME NEW r \in Runner, Create(r) PROVE HolderHasLock'
    BY <1>1, EmptyOrNot, SameRecords DEF Create, HolderHasLock
  <1>2. ASSUME NEW r \in Runner, Write(r) PROVE HolderHasLock'
    BY <1>2, OneCreator, EmptyOrNot, SameRecords
       DEF Write, HolderHasLock, At
  <1>3. ASSUME NEW r \in Runner, WriteFails(r) PROVE HolderHasLock'
    BY <1>3, OneCreator, EmptyOrNot, SameRecords DEF WriteFails, Return, HolderHasLock, At
  <1>4. ASSUME NEW r \in Runner, RemoveStale(r) PROVE HolderHasLock'
    <2>1. loc[r].unread \in BOOLEAN
      BY DEF Local
    <2>2. SUFFICES ASSUME ~theft', NEW s \in Runner
                   PROVE  /\ pc'[s] = "write" => lock' = EmptyOf(s)'
                          /\ pc'[s] \in Holding => lock' = RecordOf(s)'
      BY DEF HolderHasLock
    <2>3. lock \in {NoFile, loc[r].seen} /\ ~theft
      BY <1>4, <2>2 DEF RemoveStale
    <2>4. CASE s = r
      BY <1>4, <2>1, <2>4, NextAttemptSeen DEF RemoveStale
    <2>5. CASE s # r
      <3>1. lock # NoFile => Over(lock) /\ ~lock.empty
        BY <1>4, <2>3 DEF RemoveStale, At, RemoverIsRight, SeenIsRecord
      <3>2. pc[s] \notin Holding \cup {"write"}
        BY <2>3, <3>1, EmptyOrNot, OwnLifeGoesOn DEF HolderHasLock, HoldersLive
      <3> QED BY <1>4, <2>1, <2>5, <3>2, NextAttemptSeen DEF RemoveStale
    <2> QED BY <2>4, <2>5
  <1>5. ASSUME NEW r \in Runner, ReleaseRemove(r) PROVE HolderHasLock'
    BY <1>5, OneCreator, SameRecords DEF ReleaseRemove, Return, HolderHasLock, At, SeenIsRecord
  <1>6. ASSUME NEW r \in Runner, ReadFails(r) PROVE HolderHasLock'
    BY <1>6, NextAttemptSeen, SameRecords DEF ReadFails, HolderHasLock
  <1>7. ASSUME NEW r \in Runner, Close(r) \/ Conflict(r) \/ ReleaseSkip(r) PROVE HolderHasLock'
    BY <1>7, SameRecords DEF Close, Conflict, ReleaseSkip, Return, HolderHasLock, At
  <1>8. ASSUME NEW r \in Runner,
               Call(r) \/ Exists(r) \/ Stale(r) \/ Release(r) \/ Read(r) \/ ReleaseRead(r)
        PROVE  HolderHasLock'
    BY <1>8, SameRecords DEF Call, Exists, Stale, Release, Read, ReleaseRead, At, HolderHasLock
  <1>9. ASSUME NEW p \in Pid, Die(p) \/ Spawn(p) PROVE HolderHasLock'
    BY <1>9, OwnershipAssumption
       DEF Die, Spawn, HolderHasLock, HoldersLive, RecordOf, EmptyOf, StartTime
  <1>10. CASE UNCHANGED vars
    BY <1>10, SameRecords DEF vars, HolderHasLock
  <1> QED
    BY <1>1, <1>2, <1>3, <1>4, <1>5, <1>6, <1>7, <1>8, <1>9, <1>10 DEF Next, Acquire, Unlock

\* A file at the path whose creator is not a holder says nothing of a live one.
LEMMA LiveRecordIsHeldStep ==
    ASSUME TypeOK, FilesHonest, HolderHasLock, LiveRecordIsHeld, [Next]_vars
    PROVE  LiveRecordIsHeld'
  <1> SUFFICES ASSUME ~theft', Readable', ~Over(lock)' PROVE pc'[lock'.by] \in Holding
    BY DEF LiveRecordIsHeld
  <1> USE DEF TypeOK, Goto, Holding, Readable
  <1>1. ASSUME NEW r \in Runner, Create(r) PROVE FALSE
    BY <1>1, EmptyOrNot DEF Create
  <1>2. ASSUME NEW r \in Runner, Write(r) PROVE pc'[lock'.by] \in Holding
    <2>1. lock = EmptyOf(r) /\ lock' = RecordOf(r)
      BY <1>2 DEF Write, At, HolderHasLock
    <2> QED BY <1>2, <2>1, EmptyOrNot DEF Write
  <1>3. ASSUME NEW r \in Runner, WriteFails(r) \/ RemoveStale(r) \/ ReleaseRemove(r) PROVE FALSE
    BY <1>3 DEF WriteFails, RemoveStale, ReleaseRemove
  <1>4. ASSUME NEW r \in Runner, ReadFails(r) PROVE FALSE
    BY <1>4 DEF ReadFails
  <1>5. ASSUME NEW r \in Runner, ReleaseSkip(r) PROVE FALSE
    BY <1>5, EmptyOrNot DEF ReleaseSkip, OwnRecord, At, HolderHasLock, RecordOf
  <1>6. ASSUME NEW r \in Runner,
               Call(r) \/ Exists(r) \/ Read(r) \/ Conflict(r) \/ Stale(r)
                 \/ Close(r) \/ Release(r) \/ ReleaseRead(r)
        PROVE  pc'[lock'.by] \in Holding
    <2>1. UNCHANGED <<lock, alive, born, theft>>
      BY <1>6 DEF Call, Exists, Read, Conflict, Stale, Close, Release, ReleaseRead
    <2>2. pc[lock.by] \in Holding
      BY <2>1 DEF LiveRecordIsHeld, Over
    <2>3. lock.by \in Runner
      BY <2>1 DEF File
    <2> QED BY <1>6, <2>1, <2>2, <2>3
            DEF Call, Exists, Read, Conflict, Stale, Close, Release, ReleaseRead, At, Return
  <1>7. ASSUME NEW p \in Pid, Die(p) \/ Spawn(p) PROVE pc'[lock'.by] \in Holding
    <2>1. lock.by \in Runner /\ lock.pid \in Pid /\ lock.life \in Nat /\ lock' = lock
      BY <1>7 DEF File, Die, Spawn
    <2>2. lock.pid = PidOf[lock.by] /\ lock.life <= born[lock.pid]
      BY <1>7 DEF FilesHonest, Honest, Die, Spawn
    <2>3. alive'[lock.pid] /\ ~(lock.life < born'[lock.pid])
      BY <2>1 DEF Over
    <2>4. lock.pid # p
      BY <1>7, <2>1, <2>2, <2>3 DEF Die, Spawn
    <2>5. ~Over(lock) /\ ~theft
      BY <1>7, <2>1, <2>3, <2>4 DEF Die, Spawn, Over
    <2>6. pc[lock.by] \in Holding
      BY <2>1, <2>5 DEF LiveRecordIsHeld
    <2> QED BY <1>7, <2>1, <2>2, <2>4, <2>6 DEF Die, Spawn
  <1>8. CASE UNCHANGED vars
    BY <1>8 DEF vars, LiveRecordIsHeld, Over
  <1> QED
    BY <1>1, <1>2, <1>3, <1>4, <1>5, <1>6, <1>7, <1>8 DEF Next, Acquire, Unlock

-----------------------------------------------------------------------------
(* The theorems *)

LEMMA IInvInit == Init => IInv
  <1> SUFFICES ASSUME Init PROVE IInv
    OBVIOUS
  <1>1. TypeOK
    BY TypeInit
  <1>2. FilesHonest /\ SeenIsRecord /\ RemoverIsRight
    BY DEF Init, FilesHonest, SeenIsRecord, RemoverIsRight, FreshLocal
  <1>3. HoldersLive /\ HolderHasLock /\ LiveRecordIsHeld
    BY DEF Init, HoldersLive, HolderHasLock, LiveRecordIsHeld, Holding, Readable
  <1> QED BY <1>1, <1>2, <1>3 DEF IInv

LEMMA IInvStep == IInv /\ [Next]_vars => IInv'
  BY TypeStep, FilesHonestStep, SeenIsRecordStep, RemoverIsRightStep, HoldersLiveStep,
     HolderHasLockStep, LiveRecordIsHeldStep DEF IInv

\* Every reachable state satisfies the inductive invariant.
THEOREM Inductive == Spec => []IInv
  BY IInvInit, IInvStep, PTL DEF Spec

LEMMA OwnersHaveLock == IInv => ExclusionUnlessTheft /\ OwnerLockOnDisk
  <1> SUFFICES ASSUME IInv, ~theft PROVE MutualExclusion /\ OwnerLockOnDisk
    BY DEF ExclusionUnlessTheft, OwnerLockOnDisk
  <1>1. \A r \in Runner : Owner(r) => lock = RecordOf(r)
    BY DEF IInv, HolderHasLock, Holding, Owner, Owning
  <1>2. MutualExclusion
    BY <1>1, OneCreator DEF IInv, MutualExclusion
  <1>3. OwnerLockOnDisk
    BY <1>1, EmptyOrNot DEF IInv, OwnerLockOnDisk, Readable, RecordOf
  <1> QED BY <1>2, <1>3

\* acquireRunOwnership: as long as no remove has hit another file than the one
\* that was judged, at most one runner owns the logs root.
THEOREM Exclusion == Spec => []ExclusionUnlessTheft
  BY Inductive, OwnersHaveLock, PTL

\* Until then a live owner's record is on disk, where contenders and the stop
\* command find it.
THEOREM OwnerIsOnDisk == Spec => []OwnerLockOnDisk
  BY Inductive, OwnersHaveLock, PTL

LEMMA LiveRecordsHeld == IInv => NoLeakedLock
  <1> SUFFICES ASSUME IInv, ProcFS, ~theft, Readable, MatchesLiveProcess(lock)
               PROVE  Owner(lock.by) \/ pc[lock.by] = "close"
    BY DEF NoLeakedLock
  <1>1. lock \in File /\ Honest(lock)
    BY DEF IInv, TypeOK, FilesHonest, Readable
  <1>2. ~Over(lock)
    BY <1>1 DEF Over, MatchesLiveProcess, Honest, File, IInv, TypeOK
  <1> QED BY <1>2 DEF IInv, LiveRecordIsHeld, Holding, Owner, Owning

\* Where start times are known, a record of a live process is held by a runner
\* of that process: no release, failed write or crash leaves one behind.
THEOREM NoLeak == Spec => []NoLeakedLock
  BY Inductive, LiveRecordsHeld, PTL
=============================================================================
