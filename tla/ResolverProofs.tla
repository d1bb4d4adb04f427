--------------------------- MODULE ResolverProofs ---------------------------
(***************************************************************************)
(* Proofs about the file resolver, for any number of clients, processes    *)
(* and kdbSet() calls.                                                     *)
(***************************************************************************)
EXTENDS ResolverInv, FiniteSetTheorems, TLAPS

LEMMA ReleasedType ==
    ASSUME NEW c \in Clients, NEW inodes,
           locks \in [Inodes -> Procs \union {NoProc}]
    PROVE  Released(inodes, c) \in [Inodes -> Procs \union {NoProc}]
BY DEF Released

LEMMA ProcOfType == ASSUME NEW c \in Clients PROVE ProcOf[c] \in Procs
BY ProcOfAssumption

(* Times that are stored and made up. *)

LEMMA StoredType == \A t \in Int : Stored(t) \in Int
BY ClockAssumption DEF Stored

LEMMA StoredExact == ASSUME ~WholeSeconds PROVE \A t : Stored(t) = t
BY DEF Stored

LEMMA NowType == ASSUME clock \in Nat PROVE Now \in Nat /\ Stored(Now) \in Int
BY StoredType DEF Now

\* The parts of a time, of which whoever compares two times compares both.
LEMMA TimeParts ==
    ASSUME NEW t \in Int
    PROVE  /\ Sec(t) \in Int /\ Nsec(t) \in 0 .. Second - 1
           /\ t = Second * Sec(t) + Nsec(t)
BY ClockAssumption DEF Sec, Nsec

LEMMA ModifiedType ==
    ASSUME NEW t \in Int, NEW ts \in Int, NEW fix \in {-1, 1}
    PROVE  /\ ModifyFileTime(t, ts, fix) \in Int \union {NoTime}
           /\ NextTimeFix(t, ts, fix) \in {-1, 1}
<1>1. NextTimeFix(t, ts, fix) \in {-1, 1}
  BY DEF NextTimeFix
<1>2. Sec(t) \in Int /\ Sec(ts) \in Int /\ Nsec(t) \in Int /\ Nsec(ts) \in Int /\ Second \in Int
  BY TimeParts, ClockAssumption
<1>3. QED
  BY <1>1, <1>2 DEF ModifyFileTime

LEMMA UpdatedType ==
    ASSUME mtime \in [Inodes -> Int], NEW i \in Inodes, NEW t \in Int \union {NoTime},
           UpdateFileTime(i, t)
    PROVE  mtime' \in [Inodes -> Int]
BY StoredType DEF UpdateFileTime

LEMMA FreshType ==
    ASSUME TypeOK, NEW cs, Fresh(cs)
    PROVE  /\ pc' \in [Clients -> Labels]
           /\ fd' \in [Clients -> Inodes \union {Closed, Removing}]
           /\ stamp' \in [Clients -> Int \union {NoTime}]
           /\ timeFix' \in [Clients -> {-1, 1}]
           /\ isMissing' \in [Clients -> BOOLEAN]
           /\ removalNeeded' \in [Clients -> BOOLEAN]
           /\ tmp' \in [Clients -> Inodes \union {Nothing}]
           /\ base' \in [Clients -> Inodes \union {Nothing}]
<1>1. /\ pc' \in [Clients -> Labels]
      /\ fd' \in [Clients -> Inodes \union {Closed, Removing}]
      /\ stamp' \in [Clients -> Int \union {NoTime}]
      /\ timeFix' \in [Clients -> {-1, 1}]
      /\ tmp' \in [Clients -> Inodes \union {Nothing}]
      /\ base' \in [Clients -> Inodes \union {Nothing}]
  BY DEF TypeOK, Fresh, Labels
<1>2. isMissing' \in [Clients -> BOOLEAN]
  BY Zenon DEF TypeOK, Fresh
<1>3. removalNeeded' \in [Clients -> BOOLEAN]
  BY Zenon DEF TypeOK, Fresh
<1>4. QED
  BY <1>1, <1>2, <1>3

LEMMA TypeInit == Init => TypeOK /\ FilesExist
BY BoundsAssumption, FlagsAssumption, ClockAssumption
   DEF Init, TypeOK, FilesExist, HasFile, HasTmp, Opened, HoldsLock,
       Labels, Inodes, MaxInodes, Nothing, Closed, Removing

LEMMA TypeStep ==
    ASSUME TypeOK, FilesExist, [Next]_vars
    PROVE  TypeOK' /\ FilesExist'
<1> USE DEF TypeOK, FilesExist, HasFile, HasTmp, Opened, HoldsLock, Labels
<1> USE ReleasedType, ProcOfType
<1>1. ASSUME NEW c \in Clients, GetResolve(c) PROVE TypeOK' /\ FilesExist'
  BY <1>1 DEF GetResolve, fileVars, lockVars, clockVars
<1>2. ASSUME NEW c \in Clients, OpenFile(c) PROVE TypeOK' /\ FilesExist'
  <2>1. removalNeeded' \in [Clients -> BOOLEAN]
    BY <1>2, Zenon DEF OpenFile
  <2>2. /\ pc' \in [Clients -> Labels]
        /\ fd' \in [Clients -> Inodes \union {Closed, Removing}]
        /\ FilesExist'
    BY <1>2 DEF OpenFile, GiveUp, NewInode, Nothing
  <2>3. /\ path' \in Inodes \union {Nothing} /\ dir' \in BOOLEAN
        /\ written' \subseteq Inodes
        /\ mtime' \in [Inodes -> Int]
        /\ clock' \in Nat /\ mono' \in Int /\ next' \in Nat \ {0} /\ sets' \in Nat
        /\ timeFix' \in [Clients -> {-1, 1}]
    BY <1>2, NowType DEF OpenFile, NewInode, fileVars, clockVars
  <2>4. QED
    BY <1>2, <2>1, <2>2, <2>3 DEF OpenFile, lockVars
<1>3. ASSUME NEW c \in Clients, PrepareRemoval(c) PROVE TypeOK' /\ FilesExist'
  BY <1>3 DEF PrepareRemoval, fileVars, lockVars, clockVars
<1>4. ASSUME NEW c \in Clients, Reopen(c) PROVE TypeOK' /\ FilesExist'
  <2>1. TypeOK /\ Fresh({c}) /\ UNCHANGED <<fileVars, lockVars, clock, mono, sets>>
    BY <1>4 DEF Reopen
  <2>2. TypeOK'
    BY <2>1, FreshType DEF fileVars, lockVars
  <2>3. FilesExist'
    BY <2>1 DEF Fresh
  <2>4. QED
    BY <2>2, <2>3
<1>5. ASSUME NEW c \in Clients, GetStorage(c) PROVE TypeOK' /\ FilesExist'
  BY <1>5 DEF GetStorage, fileVars, clockVars, handleVars, Nothing
<1>6. ASSUME NEW c \in Clients, GetStorageFails(c) PROVE TypeOK' /\ FilesExist'
  BY <1>6 DEF GetStorageFails, fileVars, lockVars, clockVars, handleVars
<1>7. ASSUME NEW c \in Clients, MkdirParents(c) PROVE TypeOK' /\ FilesExist'
  BY <1>7 DEF MkdirParents, lockVars, clockVars, handleVars
<1>8. ASSUME NEW c \in Clients, CreateFile(c) PROVE TypeOK' /\ FilesExist'
  BY <1>8, NowType DEF CreateFile, NewInode, lockVars, Nothing
<1>9. ASSUME NEW c \in Clients, LockMutex(c) PROVE TypeOK' /\ FilesExist'
  BY <1>9 DEF LockMutex, GiveUp, fileVars, clockVars, Closed
<1>10. ASSUME NEW c \in Clients, LockFile(c) PROVE TypeOK' /\ FilesExist'
  BY <1>10 DEF LockFile, GiveUp, fileVars, clockVars, Closed
<1>11. ASSUME NEW c \in Clients, CheckConflict(c) PROVE TypeOK' /\ FilesExist'
  BY <1>11 DEF CheckConflict, GiveUp, fileVars, lockVars, clockVars, Closed
<1>12. ASSUME NEW c \in Clients, SetStorage(c) PROVE TypeOK' /\ FilesExist'
  BY <1>12, NowType DEF SetStorage, NewInode, lockVars, handleVars
<1>13. ASSUME NEW c \in Clients, SetFails(c) PROVE TypeOK' /\ FilesExist'
  BY <1>13 DEF SetFails, fileVars, lockVars, clockVars, handleVars
<1>14. ASSUME NEW c \in Clients, Rename(c) PROVE TypeOK' /\ FilesExist'
  BY <1>14 DEF Rename, clockVars, handleVars
<1>15. ASSUME NEW c \in Clients, UpdateStamp(c) PROVE TypeOK' /\ FilesExist'
  <2>1. pc[c] = "stamp" /\ tmp[c] \in Inodes
    BY <1>15 DEF UpdateStamp
  <2>2. /\ mtime' \in [Inodes -> Int] /\ stamp' \in [Clients -> Int \union {NoTime}]
        /\ mono' \in Int /\ timeFix' \in [Clients -> {-1, 1}]
    <3>1. CASE stamp[c] # mtime[tmp[c]]
      BY <1>15, <2>1, <3>1 DEF UpdateStamp
    <3>2. CASE stamp[c] = mtime[tmp[c]]
      <4>1. PICK ts \in (mono + 1) .. (mono + Second) :
               /\ mono' = ts
               /\ timeFix' = [timeFix EXCEPT ![c] = NextTimeFix(stamp[c], ts, @)]
               /\ stamp' = [stamp EXCEPT ![c] = ModifyFileTime(@, ts, timeFix[c])]
               /\ UpdateFileTime(tmp[c], stamp'[c])
        BY <1>15, <3>2 DEF UpdateStamp
      <4>2. ts \in Int /\ stamp[c] \in Int /\ timeFix[c] \in {-1, 1}
        BY <2>1, <3>2, ClockAssumption
      <4>3. /\ stamp' \in [Clients -> Int \union {NoTime}] /\ timeFix' \in [Clients -> {-1, 1}]
            /\ stamp'[c] \in Int \union {NoTime}
        BY <4>1, <4>2, ModifiedType
      <4>4. mtime' \in [Inodes -> Int]
        BY <2>1, <4>1, <4>3, UpdatedType
      <4>5. QED
        BY <4>1, <4>2, <4>3, <4>4
    <3>3. QED
      BY <3>1, <3>2
  <2>3. QED
    BY <1>15, <2>1, <2>2 DEF UpdateStamp, lockVars
<1>16. ASSUME NEW c \in Clients, TouchOld(c) PROVE TypeOK' /\ FilesExist'
  <2>1. fd[c] \in Inodes /\ stamp[c] \in Int \union {NoTime}
    BY <1>16 DEF TouchOld
  <2>2. mtime' \in [Inodes -> Int]
    BY <1>16, <2>1, UpdatedType DEF TouchOld
  <2>3. QED
    BY <1>16, <2>2 DEF TouchOld, lockVars, clockVars
<1>17. ASSUME NEW c \in Clients, Unlock(c) PROVE TypeOK' /\ FilesExist'
  BY <1>17 DEF Unlock, fileVars, clockVars, Closed, Nothing
<1>18. ASSUME NEW c \in Clients, Remove(c) PROVE TypeOK' /\ FilesExist'
  BY <1>18 DEF Remove, lockVars, clockVars, Closed, Nothing
<1>19. ASSUME NEW c \in Clients, Error(c) PROVE TypeOK' /\ FilesExist'
  BY <1>19 DEF Error, fileVars, clockVars, Closed, Nothing
<1>20. ASSUME NEW c \in Clients, ErrorUnlink(c) PROVE TypeOK' /\ FilesExist'
  BY <1>20 DEF ErrorUnlink, clockVars, Closed, Nothing
<1>21. ASSUME NEW p \in Procs, Crash(p) PROVE TypeOK' /\ FilesExist'
  <2> DEFINE dead == {c \in Clients : ProcOf[c] = p}
  <2>1. TypeOK /\ Fresh(dead)
    BY <1>21 DEF Crash
  <2>2. TypeOK'
    BY <1>21, <2>1, FreshType DEF Crash, fileVars
  <2>3. FilesExist'
    BY <2>1 DEF Fresh
  <2>4. QED
    BY <2>2, <2>3
<1>22. CASE Tick
  BY <1>22 DEF Tick, fileVars, lockVars, handleVars
<1>23. CASE UNCHANGED vars
  BY <1>23 DEF vars, fileVars, lockVars, clockVars, handleVars
<1>24. QED
  BY <1>1, <1>2, <1>3, <1>4, <1>5, <1>6, <1>7, <1>8, <1>9, <1>10, <1>11, <1>12, <1>13,
     <1>14, <1>15, <1>16, <1>17, <1>18, <1>19, <1>20, <1>21, <1>22, <1>23
     DEF Next, Continue

\* Every variable of the resolver keeps its type: file descriptors are an
\* inode, closed (-1) or marked for removal (-2), locks belong to processes.
THEOREM TypeCorrect == Spec => []TypeOK
<1>1. TypeOK /\ FilesExist /\ [Next]_vars => TypeOK' /\ FilesExist'
  BY TypeStep
<1>2. QED
  BY TypeInit, <1>1, PTL DEF Spec

-----------------------------------------------------------------------------
(* The invariant of a good environment, action by action. *)

LEMMA InodesPositive == \A i \in Inodes : i \in Int /\ i > 0
BY BoundsAssumption DEF Inodes, MaxInodes

LEMMA PathExists ==
    ASSUME TypeOK, AlwaysPresent
    PROVE  path \in Inodes /\ path # Nothing
BY DEF TypeOK, AlwaysPresent, Inodes, Nothing

LEMMA ReleasedValue ==
    ASSUME NEW inodes, NEW c \in Clients, NEW i \in Inodes
    PROVE  /\ Released(inodes, c)[i] \in {locks[i], NoProc}
           /\ locks[i] # ProcOf[c] => Released(inodes, c)[i] = locks[i]
BY DEF Released

LEMMA TmpTime ==
    ASSUME FilesExist, Allocated, TimesPast, NEW c \in Clients, HasTmp(c)
    PROVE  tmp[c] \in Inodes /\ tmp[c] < next /\ mtime[tmp[c]] \in 1 .. clock
<1>1. tmp[c] \in Inodes /\ tmp[c] < next
  BY DEF FilesExist, Allocated
<1>2. QED
  BY <1>1 DEF TimesPast

\* Unlocking and closing files leaves the locks of other processes alone.
LEMMA ReleaseKeepsLocks ==
    ASSUME GoodEnvironment, TypeOK, FilesExist, LocksHeld,
           NEW c \in Clients, NEW d \in Clients, c # d,
           NEW inodes, locks' = Released(inodes, c),
           pc'[d] = pc[d], fd'[d] = fd[d], tmp'[d] = tmp[d]
    PROVE  LocksHeldBy(d)'
<1>1. LocksHeldBy(d) /\ ProcOf[c] # ProcOf[d]
  BY DEF LocksHeld, GoodEnvironment
<1>2. \A i \in Inodes : locks[i] \in {NoProc, ProcOf[d]} => locks'[i] = locks[i]
  BY <1>1, ReleasedValue, ProcOfType, ClientsAssumption
<1>3. QED
  BY <1>1, <1>2 DEF LocksHeldBy, FilesExist, HasFile, HasTmp, HoldsLock, Opened

\* stat: the handle takes the time stamp of the current file.
LEMMA GetResolveStep ==
    ASSUME GoodEnvironment, ResolverInvariant, NEW c \in Clients, GetResolve(c),
           TypeOK', FilesExist'
    PROVE  ResolverInvariant'
<1> USE DEF ResolverInvariant, TypeOK, FilesExist, HasFile, HasTmp, Opened, HoldsLock,
            Checked, Committing, Unpublished, Nothing, Closed, Removing
<1>1. AlwaysPresent'
  <2>1. isMissing' = [isMissing EXCEPT ![c] = FALSE]
    BY PathExists DEF GetResolve
  <2>2. QED
    BY <2>1 DEF AlwaysPresent, GetResolve, fileVars
<1>2. Allocated'
  BY DEF Allocated, AlwaysPresent, GetResolve, fileVars, lockVars, clockVars
<1>3. TimesPast'
  BY DEF TimesPast, Allocated, AlwaysPresent, TmpStamp, GetResolve, fileVars, lockVars,
     clockVars
<1>4. LocksHeld'
  BY ProcOfType, ClientsAssumption DEF LocksHeld, Allocated, TmpOwned, TmpUnknown,
     LocksHeldBy, GoodEnvironment, AlwaysPresent, GetResolve, fileVars, lockVars, clockVars
<1>5. TmpOwned'
  BY DEF TmpOwned, Allocated, AlwaysPresent, GetResolve, fileVars, lockVars, clockVars
<1>6. TmpUnknown'
  BY ProcOfType, ClientsAssumption DEF TmpUnknown, TmpOwned, TmpStamp, LocksHeld,
     LocksHeldBy, TimesPast, Allocated, CommitPending, CheckValid, GoodEnvironment,
     AlwaysPresent, GetResolve, fileVars, lockVars, clockVars
<1>7. TmpStamp'
  BY ProcOfType, ClientsAssumption DEF TmpStamp, TmpUnknown, TmpOwned, LocksHeld,
     LocksHeldBy, TimesPast, Allocated, CheckValid, GoodEnvironment, AlwaysPresent,
     GetResolve, fileVars, lockVars, clockVars
<1>8. CheckValid'
  BY ProcOfType, ClientsAssumption DEF CheckValid, LocksHeld, LocksHeldBy,
     ReplacedConflicts, StampIdentifies, Allocated, GoodEnvironment, AlwaysPresent,
     GetResolve, fileVars, lockVars, clockVars
<1>9. CommitPending'
  BY ProcOfType, ClientsAssumption DEF CommitPending, CheckValid, LocksHeld, LocksHeldBy,
     GoodEnvironment, AlwaysPresent, GetResolve, fileVars, lockVars, clockVars
<1>10. ReplacedConflicts'
  BY ProcOfType, ClientsAssumption DEF ReplacedConflicts, TmpUnknown, TmpStamp, CheckValid,
     CommitPending, LocksHeld, LocksHeldBy, TimesPast, Allocated, GoodEnvironment,
     AlwaysPresent, GetResolve, fileVars, lockVars, clockVars
<1>11. StampIdentifies'
  BY DEF StampIdentifies, TmpUnknown, TmpStamp, CommitPending, CheckValid, TimesPast,
     Allocated, AlwaysPresent, GetResolve, fileVars, lockVars, clockVars
<1>12. QED
  BY <1>1, <1>2, <1>3, <1>4, <1>5, <1>6, <1>7, <1>8, <1>9, <1>10, <1>11

\* The key set becomes what the file holds.
LEMMA GetStorageStep ==
    ASSUME GoodEnvironment, ResolverInvariant, NEW c \in Clients, GetStorage(c),
           TypeOK', FilesExist'
    PROVE  ResolverInvariant'
<1> USE DEF ResolverInvariant, TypeOK, FilesExist, HasFile, HasTmp, Opened, HoldsLock,
            Checked, Committing, Unpublished, Nothing, Closed, Removing
<1>1. AlwaysPresent'
  BY DEF AlwaysPresent, TmpOwned, GetStorage, fileVars, clockVars, handleVars
<1>2. Allocated'
  BY ReleasedValue DEF Allocated, AlwaysPresent, GetStorage, fileVars, clockVars,
     handleVars
<1>3. TimesPast'
  BY DEF TimesPast, Allocated, AlwaysPresent, TmpStamp, GetStorage, fileVars, clockVars,
     handleVars
<1>4. LocksHeld'
  <2> SUFFICES ASSUME NEW d \in Clients PROVE LocksHeldBy(d)'
    BY DEF LocksHeld
  <2>1. CASE d = c
    BY <2>1 DEF LocksHeldBy, GetStorage, GiveUp, LocksHeld, lockVars
  <2>2. CASE d # c /\ UNCHANGED locks
    BY <2>2 DEF LocksHeldBy, LocksHeld, GetStorage, GiveUp, handleVars
  <2>3. CASE d # c /\ \E inodes : locks' = Released(inodes, c)
    <3>1. pc'[d] = pc[d] /\ fd'[d] = fd[d] /\ tmp'[d] = tmp[d]
      BY <2>3 DEF GetStorage, GiveUp, handleVars
    <3>2. QED
      BY <2>3, <3>1, ReleaseKeepsLocks
  <2>4. QED
    BY <2>1, <2>2, <2>3 DEF GetStorage, lockVars
<1>5. TmpOwned'
  BY DEF TmpOwned, Allocated, AlwaysPresent, GetStorage, fileVars, clockVars, handleVars
<1>6. TmpUnknown'
  BY ProcOfType, ClientsAssumption DEF TmpUnknown, TmpOwned, TmpStamp, LocksHeld,
     LocksHeldBy, TimesPast, Allocated, CommitPending, CheckValid, GoodEnvironment,
     AlwaysPresent, GetStorage, fileVars, clockVars, handleVars
<1>7. TmpStamp'
  BY ProcOfType, ClientsAssumption DEF TmpStamp, TmpUnknown, TmpOwned, LocksHeld,
     LocksHeldBy, TimesPast, Allocated, CheckValid, GoodEnvironment, AlwaysPresent,
     GetStorage, fileVars, clockVars, handleVars
<1>8. CheckValid'
  BY ProcOfType, ClientsAssumption DEF CheckValid, LocksHeld, LocksHeldBy,
     ReplacedConflicts, StampIdentifies, Allocated, GoodEnvironment, AlwaysPresent,
     GetStorage, fileVars, clockVars, handleVars
<1>9. CommitPending'
  BY ProcOfType, ClientsAssumption DEF CommitPending, CheckValid, LocksHeld, LocksHeldBy,
     GoodEnvironment, AlwaysPresent, GetStorage, fileVars, clockVars, handleVars
<1>10. ReplacedConflicts'
  BY ProcOfType, ClientsAssumption DEF ReplacedConflicts, TmpUnknown, TmpStamp, CheckValid,
     CommitPending, LocksHeld, LocksHeldBy, TimesPast, Allocated, GoodEnvironment,
     AlwaysPresent, GetStorage, fileVars, clockVars, handleVars
<1>11. StampIdentifies'
  BY DEF StampIdentifies, TmpUnknown, TmpStamp, CommitPending, CheckValid, TimesPast,
     Allocated, AlwaysPresent, GetStorage, fileVars, clockVars, handleVars
<1>12. QED
  BY <1>1, <1>2, <1>3, <1>4, <1>5, <1>6, <1>7, <1>8, <1>9, <1>10, <1>11

\* Only the last alternative of elektraOpenFile is possible: the file is there.
LEMMA OpenFileStep ==
    ASSUME GoodEnvironment, ResolverInvariant, NEW c \in Clients, OpenFile(c),
           TypeOK', FilesExist'
    PROVE  ResolverInvariant'
<1> USE DEF ResolverInvariant, TypeOK, FilesExist, HasFile, HasTmp, Opened, HoldsLock,
            Checked, Committing, Unpublished, Nothing, Closed, Removing
<1>0. /\ pc[c] = "idle"
      /\ fd' = [fd EXCEPT ![c] = path]
      /\ pc' = [pc EXCEPT ![c] = "lockMutex"]
      /\ removalNeeded' = [removalNeeded EXCEPT ![c] = FALSE]
      /\ UNCHANGED <<path, dir, written, mtime, next, locks, mutex, clock, mono, stamp,
                     isMissing, tmp, base>>
  BY PathExists DEF AlwaysPresent, OpenFile, OpenConflict, fileVars, lockVars, clockVars
<1>1. AlwaysPresent'
  <2>1. \A d \in Clients : fd'[d] # Removing /\ pc'[d] \notin {"mkdir", "create", "remove"}
    BY <1>0, PathExists DEF AlwaysPresent, Inodes
  <2>2. \A d \in Clients : ~isMissing'[d] /\ ~removalNeeded'[d]
    BY <1>0, Zenon DEF AlwaysPresent
  <2>3. QED
    BY <1>0, <2>1, <2>2 DEF AlwaysPresent
<1>2. Allocated'
  BY <1>0 DEF Allocated, AlwaysPresent
<1>3. TimesPast'
  BY <1>0 DEF TimesPast, Allocated, AlwaysPresent, TmpStamp
<1>4. LocksHeld'
  BY <1>0, ProcOfType, ClientsAssumption DEF LocksHeld, Allocated, TmpOwned, TmpUnknown,
     LocksHeldBy, GoodEnvironment, AlwaysPresent
<1>5. TmpOwned'
  BY <1>0 DEF TmpOwned, Allocated, AlwaysPresent
<1>6. TmpUnknown'
  BY <1>0, ProcOfType, ClientsAssumption DEF TmpUnknown, TmpOwned, TmpStamp, LocksHeld,
     LocksHeldBy, TimesPast, Allocated, CommitPending, CheckValid, GoodEnvironment,
     AlwaysPresent
<1>7. TmpStamp'
  BY <1>0, ProcOfType, ClientsAssumption DEF TmpStamp, TmpUnknown, TmpOwned, LocksHeld,
     LocksHeldBy, TimesPast, Allocated, CheckValid, GoodEnvironment, AlwaysPresent
<1>8. CheckValid'
  BY <1>0, ProcOfType, ClientsAssumption DEF CheckValid, LocksHeld, LocksHeldBy,
     ReplacedConflicts, StampIdentifies, Allocated, GoodEnvironment, AlwaysPresent
<1>9. CommitPending'
  BY <1>0, ProcOfType, ClientsAssumption DEF CommitPending, CheckValid, LocksHeld,
     LocksHeldBy, GoodEnvironment, AlwaysPresent
<1>10. ReplacedConflicts'
  BY <1>0, ProcOfType, ClientsAssumption DEF ReplacedConflicts, TmpUnknown, TmpStamp,
     CheckValid, CommitPending, LocksHeld, LocksHeldBy, TimesPast, Allocated,
     GoodEnvironment, AlwaysPresent
<1>11. StampIdentifies'
  BY <1>0 DEF StampIdentifies, TmpUnknown, TmpStamp, CommitPending, CheckValid, TimesPast,
     Allocated, AlwaysPresent
<1>12. QED
  BY <1>1, <1>2, <1>3, <1>4, <1>5, <1>6, <1>7, <1>8, <1>9, <1>10, <1>11

\* Locks of other processes are not affected by a close.
LEMMA LockMutexStep ==
    ASSUME GoodEnvironment, ResolverInvariant, NEW c \in Clients, LockMutex(c),
           TypeOK', FilesExist'
    PROVE  ResolverInvariant'
<1> USE DEF ResolverInvariant, TypeOK, FilesExist, HasFile, HasTmp, Opened, HoldsLock,
            Checked, Committing, Unpublished, Nothing, Closed, Removing
<1>1. AlwaysPresent'
  BY DEF AlwaysPresent, TmpOwned, LockMutex, GiveUp, fileVars, clockVars
<1>2. Allocated'
  BY ReleasedValue DEF Allocated, AlwaysPresent, LockMutex, GiveUp, fileVars, clockVars
<1>3. TimesPast'
  BY DEF TimesPast, Allocated, AlwaysPresent, TmpStamp, LockMutex, GiveUp, fileVars,
     clockVars
<1>4. LocksHeld'
  <2> SUFFICES ASSUME NEW d \in Clients PROVE LocksHeldBy(d)'
    BY DEF LocksHeld
  <2>1. CASE d = c
    BY <2>1 DEF LocksHeldBy, LockMutex, GiveUp, LocksHeld, lockVars
  <2>2. CASE d # c /\ UNCHANGED locks
    BY <2>2 DEF LocksHeldBy, LocksHeld, LockMutex, GiveUp, handleVars
  <2>3. CASE d # c /\ \E inodes : locks' = Released(inodes, c)
    <3>1. pc'[d] = pc[d] /\ fd'[d] = fd[d] /\ tmp'[d] = tmp[d]
      BY <2>3 DEF LockMutex, GiveUp, handleVars
    <3>2. QED
      BY <2>3, <3>1, ReleaseKeepsLocks
  <2>4. QED
    BY <2>1, <2>2, <2>3 DEF LockMutex, lockVars
<1>5. TmpOwned'
  BY DEF TmpOwned, Allocated, AlwaysPresent, LockMutex, GiveUp, fileVars, clockVars
<1>6. TmpUnknown'
  BY ProcOfType, ClientsAssumption DEF TmpUnknown, TmpOwned, TmpStamp, LocksHeld,
     LocksHeldBy, TimesPast, Allocated, CommitPending, CheckValid, GoodEnvironment,
     AlwaysPresent, LockMutex, GiveUp, fileVars, clockVars
<1>7. TmpStamp'
  BY ProcOfType, ClientsAssumption DEF TmpStamp, TmpUnknown, TmpOwned, LocksHeld,
     LocksHeldBy, TimesPast, Allocated, CheckValid, GoodEnvironment, AlwaysPresent,
     LockMutex, GiveUp, fileVars, clockVars
<1>8. CheckValid'
  BY ProcOfType, ClientsAssumption DEF CheckValid, LocksHeld, LocksHeldBy,
     ReplacedConflicts, StampIdentifies, Allocated, GoodEnvironment, AlwaysPresent,
     LockMutex, GiveUp, fileVars, clockVars
<1>9. CommitPending'
  BY ProcOfType, ClientsAssumption DEF CommitPending, CheckValid, LocksHeld, LocksHeldBy,
     GoodEnvironment, AlwaysPresent, LockMutex, GiveUp, fileVars, clockVars
<1>10. ReplacedConflicts'
  BY ProcOfType, ClientsAssumption DEF ReplacedConflicts, TmpUnknown, TmpStamp, CheckValid,
     CommitPending, LocksHeld, LocksHeldBy, TimesPast, Allocated, GoodEnvironment,
     AlwaysPresent, LockMutex, GiveUp, fileVars, clockVars
<1>11. StampIdentifies'
  BY DEF StampIdentifies, TmpUnknown, TmpStamp, CommitPending, CheckValid, TimesPast,
     Allocated, AlwaysPresent, LockMutex, GiveUp, fileVars, clockVars
<1>12. QED
  BY <1>1, <1>2, <1>3, <1>4, <1>5, <1>6, <1>7, <1>8, <1>9, <1>10, <1>11

\* A lock is only taken when nobody else holds it.
LEMMA LockFileStep ==
    ASSUME GoodEnvironment, ResolverInvariant, NEW c \in Clients, LockFile(c),
           TypeOK', FilesExist'
    PROVE  ResolverInvariant'
<1> USE DEF ResolverInvariant, TypeOK, FilesExist, HasFile, HasTmp, Opened, HoldsLock,
            Checked, Committing, Unpublished, Nothing, Closed, Removing
<1>1. AlwaysPresent'
  BY DEF AlwaysPresent, TmpOwned, LockFile, GiveUp, LockTaken, fileVars, clockVars
<1>2. Allocated'
  BY DEF Allocated, AlwaysPresent, LockFile, GiveUp, LockTaken, fileVars, clockVars
<1>3. TimesPast'
  BY DEF TimesPast, Allocated, AlwaysPresent, TmpStamp, LockFile, GiveUp, LockTaken,
     fileVars, clockVars
<1>4. LocksHeld'
  <2> SUFFICES ASSUME NEW d \in Clients PROVE LocksHeldBy(d)'
    BY DEF LocksHeld
  <2>1. CASE d = c
    BY <2>1 DEF LocksHeldBy, LocksHeld, LockFile, GiveUp
  <2>2. CASE d # c
    <3>1. LocksHeldBy(d) /\ ProcOf[d] # ProcOf[c] /\ ProcOf[d] # NoProc
      BY <2>2, ProcOfType, ClientsAssumption DEF LocksHeld, GoodEnvironment
    <3>2. /\ HoldsLock(d) /\ ~LockTaken(c) => fd[d] # fd[c]
          /\ pc[d] = "commit" => tmp[d] # fd[c]
          /\ pc[d] \in {"stamp", "touchOld", "unlock"} /\ ~LockTaken(c) => tmp[d] # fd[c]
      BY <3>1 DEF LocksHeldBy, LockTaken, TmpUnknown
    <3>3. QED
      BY <2>2, <3>1, <3>2 DEF LocksHeldBy, LockFile, GiveUp
  <2>3. QED
    BY <2>1, <2>2
<1>5. TmpOwned'
  BY DEF TmpOwned, Allocated, AlwaysPresent, LockFile, GiveUp, LockTaken, fileVars,
     clockVars
<1>6. TmpUnknown'
  BY ProcOfType, ClientsAssumption DEF TmpUnknown, TmpOwned, TmpStamp, LocksHeld,
     LocksHeldBy, TimesPast, Allocated, CommitPending, CheckValid, GoodEnvironment,
     AlwaysPresent, LockFile, GiveUp, LockTaken, fileVars, clockVars
<1>7. TmpStamp'
  BY ProcOfType, ClientsAssumption DEF TmpStamp, TmpUnknown, TmpOwned, LocksHeld,
     LocksHeldBy, TimesPast, Allocated, CheckValid, GoodEnvironment, AlwaysPresent,
     LockFile, GiveUp, LockTaken, fileVars, clockVars
<1>8. CheckValid'
  BY ProcOfType, ClientsAssumption DEF CheckValid, LocksHeld, LocksHeldBy,
     ReplacedConflicts, StampIdentifies, Allocated, GoodEnvironment, AlwaysPresent,
     LockFile, GiveUp, LockTaken, fileVars, clockVars
<1>9. CommitPending'
  BY ProcOfType, ClientsAssumption DEF CommitPending, CheckValid, LocksHeld, LocksHeldBy,
     GoodEnvironment, AlwaysPresent, LockFile, GiveUp, LockTaken, fileVars, clockVars
<1>10. ReplacedConflicts'
  BY ProcOfType, ClientsAssumption DEF ReplacedConflicts, TmpUnknown, TmpStamp, CheckValid,
     CommitPending, LocksHeld, LocksHeldBy, TimesPast, Allocated, GoodEnvironment,
     AlwaysPresent, LockFile, GiveUp, LockTaken, fileVars, clockVars
<1>11. StampIdentifies'
  BY DEF StampIdentifies, TmpUnknown, TmpStamp, CommitPending, CheckValid, TimesPast,
     Allocated, AlwaysPresent, LockFile, GiveUp, LockTaken, fileVars, clockVars
<1>12. QED
  BY <1>1, <1>2, <1>3, <1>4, <1>5, <1>6, <1>7, <1>8, <1>9, <1>10, <1>11

\* A replaced file shows a conflict, an equal stamp the loaded contents.
LEMMA CheckConflictStep ==
    ASSUME GoodEnvironment, ResolverInvariant, NEW c \in Clients, CheckConflict(c),
           TypeOK', FilesExist'
    PROVE  ResolverInvariant'
<1> USE DEF ResolverInvariant, TypeOK, FilesExist, HasFile, HasTmp, Opened, HoldsLock,
            Checked, Committing, Unpublished, Nothing, Closed, Removing
<1>1. AlwaysPresent'
  BY DEF AlwaysPresent, TmpOwned, CheckConflict, Conflict, GiveUp, fileVars, lockVars,
     clockVars
<1>2. Allocated'
  BY ReleasedValue DEF Allocated, AlwaysPresent, CheckConflict, Conflict, GiveUp, fileVars,
     lockVars, clockVars
<1>3. TimesPast'
  BY DEF TimesPast, Allocated, AlwaysPresent, TmpStamp, CheckConflict, Conflict, GiveUp,
     fileVars, lockVars, clockVars
<1>4. LocksHeld'
  <2> SUFFICES ASSUME NEW d \in Clients PROVE LocksHeldBy(d)'
    BY DEF LocksHeld
  <2>1. CASE d = c
    BY <2>1 DEF LocksHeldBy, CheckConflict, GiveUp, LocksHeld, lockVars
  <2>2. CASE d # c /\ UNCHANGED locks
    BY <2>2 DEF LocksHeldBy, LocksHeld, CheckConflict, GiveUp, handleVars
  <2>3. CASE d # c /\ \E inodes : locks' = Released(inodes, c)
    <3>1. pc'[d] = pc[d] /\ fd'[d] = fd[d] /\ tmp'[d] = tmp[d]
      BY <2>3 DEF CheckConflict, GiveUp, handleVars
    <3>2. QED
      BY <2>3, <3>1, ReleaseKeepsLocks
  <2>4. QED
    BY <2>1, <2>2, <2>3 DEF CheckConflict, lockVars
<1>5. TmpOwned'
  BY DEF TmpOwned, Allocated, AlwaysPresent, CheckConflict, Conflict, GiveUp, fileVars,
     lockVars, clockVars
<1>6. TmpUnknown'
  BY ProcOfType, ClientsAssumption DEF TmpUnknown, TmpOwned, TmpStamp, LocksHeld,
     LocksHeldBy, TimesPast, Allocated, CommitPending, CheckValid, GoodEnvironment,
     AlwaysPresent, CheckConflict, Conflict, GiveUp, fileVars, lockVars, clockVars
<1>7. TmpStamp'
  BY ProcOfType, ClientsAssumption DEF TmpStamp, TmpUnknown, TmpOwned, LocksHeld,
     LocksHeldBy, TimesPast, Allocated, CheckValid, GoodEnvironment, AlwaysPresent,
     CheckConflict, Conflict, GiveUp, fileVars, lockVars, clockVars
<1>8. CheckValid'
  BY ProcOfType, ClientsAssumption DEF CheckValid, LocksHeld, LocksHeldBy,
     ReplacedConflicts, StampIdentifies, Allocated, GoodEnvironment, AlwaysPresent,
     CheckConflict, Conflict, GiveUp, fileVars, lockVars, clockVars
<1>9. CommitPending'
  BY ProcOfType, ClientsAssumption DEF CommitPending, CheckValid, LocksHeld, LocksHeldBy,
     GoodEnvironment, AlwaysPresent, CheckConflict, Conflict, GiveUp, fileVars, lockVars,
     clockVars
<1>10. ReplacedConflicts'
  BY ProcOfType, ClientsAssumption DEF ReplacedConflicts, TmpUnknown, TmpStamp, CheckValid,
     CommitPending, LocksHeld, LocksHeldBy, TimesPast, Allocated, GoodEnvironment,
     AlwaysPresent, CheckConflict, Conflict, GiveUp, fileVars, lockVars, clockVars
<1>11. StampIdentifies'
  BY DEF StampIdentifies, TmpUnknown, TmpStamp, CommitPending, CheckValid, TimesPast,
     Allocated, AlwaysPresent, CheckConflict, Conflict, GiveUp, fileVars, lockVars,
     clockVars
<1>12. QED
  BY <1>1, <1>2, <1>3, <1>4, <1>5, <1>6, <1>7, <1>8, <1>9, <1>10, <1>11

\* The new temporary file has a time stamp nobody has seen.
LEMMA SetStorageStep ==
    ASSUME GoodEnvironment, ResolverInvariant, NEW c \in Clients, SetStorage(c),
           TypeOK', FilesExist'
    PROVE  ResolverInvariant'
<1> USE DEF ResolverInvariant, TypeOK, FilesExist, HasFile, HasTmp, Opened, HoldsLock,
            Checked, Committing, Unpublished, Nothing, Closed, Removing
<1>0. Now = clock + 1 /\ Stored(Now) = Now
  BY StoredExact, ClockAssumption DEF GoodEnvironment, Now
<1>1. AlwaysPresent'
  BY DEF AlwaysPresent, TmpOwned, SetStorage, NewInode, lockVars, handleVars
<1>2. Allocated'
  <2>1. next' = next + 1 /\ written' = written \union {next} /\ tmp' = [tmp EXCEPT ![c] = next]
    BY DEF SetStorage, NewInode
  <2>2. written' \subseteq 1 .. next
    BY <2>1 DEF Allocated
  <2>3. UNCHANGED <<path, fd, locks>>
    BY DEF SetStorage, lockVars, handleVars
  <2>4. \A d \in Clients : fd'[d] < next' /\ tmp'[d] < next'
    <3> TAKE d \in Clients
    <3>1. fd[d] \in Inodes \union {-1, -2} /\ tmp[d] \in Inodes \union {0} /\ next \in Nat
      BY DEF TypeOK
    <3>2. fd[d] \in Int /\ tmp[d] \in Int
      BY <3>1, InodesPositive
    <3>3. fd[d] < next /\ tmp[d] < next
      BY DEF Allocated
    <3>4. QED
      BY <2>1, <2>3, <3>1, <3>2, <3>3
  <2>5. QED
    BY <2>1, <2>2, <2>3, <2>4 DEF Allocated
<1>3. TimesPast'
  BY <1>0 DEF TimesPast, Allocated, AlwaysPresent, TmpStamp, SetStorage, NewInode,
     lockVars, handleVars
<1>4. LocksHeld'
  BY ProcOfType, ClientsAssumption DEF LocksHeld, Allocated, TmpOwned, TmpUnknown,
     LocksHeldBy, GoodEnvironment, AlwaysPresent, SetStorage, NewInode, Now, lockVars,
     handleVars
<1>5. TmpOwned'
  BY DEF TmpOwned, Allocated, AlwaysPresent, SetStorage, NewInode, Now, lockVars,
     handleVars
<1>6. TmpUnknown'
  <2>1. /\ tmp' = [tmp EXCEPT ![c] = next] /\ mtime' = [mtime EXCEPT ![next] = clock + 1]
        /\ next \in Inodes /\ UNCHANGED <<path, fd, stamp>>
        /\ pc' = [pc EXCEPT ![c] = "commit"]
    BY <1>0 DEF SetStorage, NewInode, handleVars
  <2>2. /\ path # next /\ mtime'[path] = mtime[path] /\ mtime[path] <= clock
        /\ mtime'[next] = clock + 1
    BY <2>1, PathExists DEF Allocated, TimesPast
  <2>3. \A d \in Clients : fd[d] # next /\ tmp[d] # next /\ stamp[d] <= clock
    BY DEF Allocated, TimesPast
  <2>4. \A d \in Clients : HasTmp(d) => mtime'[tmp[d]] = mtime[tmp[d]] /\ mtime[tmp[d]] <= clock
    BY <2>1, <2>3, TmpTime, InodesPositive
  <2>5. \A d \in Clients \ {c} : pc'[d] = pc[d] /\ tmp'[d] = tmp[d]
    BY <2>1
  <2>6. pc'[c] = "commit" /\ tmp'[c] = next
    BY <2>1
  <2>7. QED
    BY <2>1, <2>2, <2>3, <2>4, <2>5, <2>6 DEF TmpUnknown
<1>7. TmpStamp'
  BY <1>0, ProcOfType, ClientsAssumption DEF TmpStamp, TmpUnknown, TmpOwned, LocksHeld,
     LocksHeldBy, TimesPast, Allocated, CheckValid, GoodEnvironment, AlwaysPresent,
     SetStorage, NewInode, lockVars, handleVars
<1>8. CheckValid'
  BY ProcOfType, ClientsAssumption DEF CheckValid, LocksHeld, LocksHeldBy,
     ReplacedConflicts, StampIdentifies, Allocated, GoodEnvironment, AlwaysPresent,
     SetStorage, NewInode, Now, lockVars, handleVars
<1>9. CommitPending'
  BY ProcOfType, ClientsAssumption DEF CommitPending, CheckValid, LocksHeld, LocksHeldBy,
     GoodEnvironment, AlwaysPresent, SetStorage, NewInode, Now, lockVars, handleVars
<1>10. ReplacedConflicts'
  BY ProcOfType, ClientsAssumption DEF ReplacedConflicts, TmpUnknown, TmpStamp, CheckValid,
     CommitPending, LocksHeld, LocksHeldBy, TimesPast, Allocated, GoodEnvironment,
     AlwaysPresent, SetStorage, NewInode, Now, lockVars, handleVars
<1>11. StampIdentifies'
  BY DEF StampIdentifies, TmpUnknown, TmpStamp, CommitPending, CheckValid, TimesPast,
     Allocated, AlwaysPresent, SetStorage, NewInode, Now, lockVars, handleVars
<1>12. QED
  BY <1>1, <1>2, <1>3, <1>4, <1>5, <1>6, <1>7, <1>8, <1>9, <1>10, <1>11

\* The rollback forgets the temporary file.
LEMMA SetFailsStep ==
    ASSUME GoodEnvironment, ResolverInvariant, NEW c \in Clients, SetFails(c),
           TypeOK', FilesExist'
    PROVE  ResolverInvariant'
<1> USE DEF ResolverInvariant, TypeOK, FilesExist, HasFile, HasTmp, Opened, HoldsLock,
            Checked, Committing, Unpublished, Nothing, Closed, Removing
<1>1. AlwaysPresent'
  BY DEF AlwaysPresent, TmpOwned, SetFails, fileVars, lockVars, clockVars, handleVars
<1>2. Allocated'
  BY DEF Allocated, AlwaysPresent, SetFails, fileVars, lockVars, clockVars, handleVars
<1>3. TimesPast'
  BY DEF TimesPast, Allocated, AlwaysPresent, TmpStamp, SetFails, fileVars, lockVars,
     clockVars, handleVars
<1>4. LocksHeld'
  BY ProcOfType, ClientsAssumption DEF LocksHeld, Allocated, TmpOwned, TmpUnknown,
     LocksHeldBy, GoodEnvironment, AlwaysPresent, SetFails, fileVars, lockVars, clockVars,
     handleVars
<1>5. TmpOwned'
  BY DEF TmpOwned, Allocated, AlwaysPresent, SetFails, fileVars, lockVars, clockVars,
     handleVars
<1>6. TmpUnknown'
  BY ProcOfType, ClientsAssumption DEF TmpUnknown, TmpOwned, TmpStamp, LocksHeld,
     LocksHeldBy, TimesPast, Allocated, CommitPending, CheckValid, GoodEnvironment,
     AlwaysPresent, SetFails, fileVars, lockVars, clockVars, handleVars
<1>7. TmpStamp'
  BY ProcOfType, ClientsAssumption DEF TmpStamp, TmpUnknown, TmpOwned, LocksHeld,
     LocksHeldBy, TimesPast, Allocated, CheckValid, GoodEnvironment, AlwaysPresent,
     SetFails, fileVars, lockVars, clockVars, handleVars
<1>8. CheckValid'
  BY ProcOfType, ClientsAssumption DEF CheckValid, LocksHeld, LocksHeldBy,
     ReplacedConflicts, StampIdentifies, Allocated, GoodEnvironment, AlwaysPresent,
     SetFails, fileVars, lockVars, clockVars, handleVars
<1>9. CommitPending'
  BY ProcOfType, ClientsAssumption DEF CommitPending, CheckValid, LocksHeld, LocksHeldBy,
     GoodEnvironment, AlwaysPresent, SetFails, fileVars, lockVars, clockVars, handleVars
<1>10. ReplacedConflicts'
  BY ProcOfType, ClientsAssumption DEF ReplacedConflicts, TmpUnknown, TmpStamp, CheckValid,
     CommitPending, LocksHeld, LocksHeldBy, TimesPast, Allocated, GoodEnvironment,
     AlwaysPresent, SetFails, fileVars, lockVars, clockVars, handleVars
<1>11. StampIdentifies'
  BY DEF StampIdentifies, TmpUnknown, TmpStamp, CommitPending, CheckValid, TimesPast,
     Allocated, AlwaysPresent, SetFails, fileVars, lockVars, clockVars, handleVars
<1>12. QED
  BY <1>1, <1>2, <1>3, <1>4, <1>5, <1>6, <1>7, <1>8, <1>9, <1>10, <1>11

\* The file replaced is the one that was loaded; whoever has it open is now behind.
LEMMA RenameStep ==
    ASSUME GoodEnvironment, ResolverInvariant, NEW c \in Clients, Rename(c),
           TypeOK', FilesExist'
    PROVE  ResolverInvariant'
<1> USE DEF ResolverInvariant, TypeOK, FilesExist, HasFile, HasTmp, Opened, HoldsLock,
            Checked, Committing, Unpublished, Nothing, Closed, Removing
<1>1. AlwaysPresent'
  BY DEF AlwaysPresent, TmpOwned, Rename, clockVars, handleVars
<1>2. Allocated'
  BY DEF Allocated, AlwaysPresent, Rename, clockVars, handleVars
<1>3. TimesPast'
  BY DEF TimesPast, Allocated, AlwaysPresent, TmpStamp, Rename, clockVars, handleVars
<1>4. LocksHeld'
  BY ProcOfType, ClientsAssumption DEF LocksHeld, Allocated, TmpOwned, TmpUnknown,
     LocksHeldBy, GoodEnvironment, AlwaysPresent, Rename, clockVars, handleVars
<1>5. TmpOwned'
  BY DEF TmpOwned, Allocated, AlwaysPresent, Rename, clockVars, handleVars
<1>6. TmpUnknown'
  BY ProcOfType, ClientsAssumption DEF TmpUnknown, TmpOwned, TmpStamp, LocksHeld,
     LocksHeldBy, TimesPast, Allocated, CommitPending, CheckValid, GoodEnvironment,
     AlwaysPresent, Rename, clockVars, handleVars
<1>7. TmpStamp'
  BY ProcOfType, ClientsAssumption DEF TmpStamp, TmpUnknown, TmpOwned, LocksHeld,
     LocksHeldBy, TimesPast, Allocated, CheckValid, GoodEnvironment, AlwaysPresent, Rename,
     clockVars, handleVars
<1>8. CheckValid'
  BY ProcOfType, ClientsAssumption DEF CheckValid, LocksHeld, LocksHeldBy,
     ReplacedConflicts, StampIdentifies, Allocated, GoodEnvironment, AlwaysPresent, Rename,
     clockVars, handleVars
<1>9. CommitPending'
  BY ProcOfType, ClientsAssumption DEF CommitPending, CheckValid, LocksHeld, LocksHeldBy,
     GoodEnvironment, AlwaysPresent, Rename, clockVars, handleVars
<1>10. ReplacedConflicts'
  BY ProcOfType, ClientsAssumption DEF ReplacedConflicts, TmpUnknown, TmpStamp, CheckValid,
     CommitPending, LocksHeld, LocksHeldBy, TimesPast, Allocated, GoodEnvironment,
     AlwaysPresent, Rename, clockVars, handleVars
<1>11. StampIdentifies'
  BY DEF StampIdentifies, TmpUnknown, TmpStamp, CommitPending, CheckValid, TimesPast,
     Allocated, AlwaysPresent, Rename, clockVars, handleVars
<1>12. QED
  BY <1>1, <1>2, <1>3, <1>4, <1>5, <1>6, <1>7, <1>8, <1>9, <1>10, <1>11

\* The new file never has the time stamp the handle already had.
LEMMA UpdateStampStep ==
    ASSUME GoodEnvironment, ResolverInvariant, NEW c \in Clients, UpdateStamp(c),
           TypeOK', FilesExist'
    PROVE  ResolverInvariant'
<1> USE DEF ResolverInvariant, TypeOK, FilesExist, HasFile, HasTmp, Opened, HoldsLock,
            Checked, Committing, Unpublished, Nothing, Closed, Removing
<1>0. /\ pc[c] = "stamp"
      /\ pc' = [pc EXCEPT ![c] = "touchOld"]
      /\ stamp' = [stamp EXCEPT ![c] = mtime[tmp[c]]]
      /\ UNCHANGED <<path, dir, written, mtime, next, locks, mutex, clock, mono, fd,
                     isMissing, removalNeeded, tmp, base>>
  BY DEF TmpStamp, UpdateStamp, lockVars
<1>1. AlwaysPresent'
  BY <1>0 DEF AlwaysPresent, TmpOwned
<1>2. Allocated'
  BY <1>0 DEF Allocated, AlwaysPresent
<1>3. TimesPast'
  <2>1. mtime[tmp[c]] \in 1 .. clock
    BY <1>0 DEF TimesPast, Allocated
  <2>2. QED
    BY <1>0, <2>1 DEF TimesPast
<1>4. LocksHeld'
  BY <1>0, ProcOfType, ClientsAssumption DEF LocksHeld, Allocated, TmpOwned, TmpUnknown,
     LocksHeldBy, GoodEnvironment, AlwaysPresent
<1>5. TmpOwned'
  BY <1>0 DEF TmpOwned, Allocated, AlwaysPresent
<1>6. TmpUnknown'
  BY <1>0, ProcOfType, ClientsAssumption DEF TmpUnknown, TmpOwned, TmpStamp, LocksHeld,
     LocksHeldBy, TimesPast, Allocated, CommitPending, CheckValid, GoodEnvironment,
     AlwaysPresent
<1>7. TmpStamp'
  BY <1>0, ProcOfType, ClientsAssumption DEF TmpStamp, TmpUnknown, TmpOwned, LocksHeld,
     LocksHeldBy, TimesPast, Allocated, CheckValid, GoodEnvironment, AlwaysPresent
<1>8. CheckValid'
  BY <1>0, ProcOfType, ClientsAssumption DEF CheckValid, LocksHeld, LocksHeldBy,
     ReplacedConflicts, StampIdentifies, Allocated, GoodEnvironment, AlwaysPresent
<1>9. CommitPending'
  BY <1>0, ProcOfType, ClientsAssumption DEF CommitPending, CheckValid, LocksHeld,
     LocksHeldBy, GoodEnvironment, AlwaysPresent
<1>10. ReplacedConflicts'
  BY <1>0, ProcOfType, ClientsAssumption DEF ReplacedConflicts, TmpUnknown, TmpStamp,
     CheckValid, CommitPending, LocksHeld, LocksHeldBy, TimesPast, Allocated,
     GoodEnvironment, AlwaysPresent
<1>11. StampIdentifies'
  BY <1>0 DEF StampIdentifies, TmpUnknown, TmpStamp, CommitPending, CheckValid, TimesPast,
     Allocated, AlwaysPresent
<1>12. QED
  BY <1>1, <1>2, <1>3, <1>4, <1>5, <1>6, <1>7, <1>8, <1>9, <1>10, <1>11

\* Whoever has opened the replaced file gets a stamp that is not his.
LEMMA TouchOldStep ==
    ASSUME GoodEnvironment, ResolverInvariant, NEW c \in Clients, TouchOld(c),
           TypeOK', FilesExist'
    PROVE  ResolverInvariant'
<1> USE DEF ResolverInvariant, TypeOK, FilesExist, HasFile, HasTmp, Opened, HoldsLock,
            Checked, Committing, Unpublished, Nothing, Closed, Removing
<1>0. /\ pc[c] = "touchOld" /\ pc' = [pc EXCEPT ![c] = "unlock"]
      /\ mtime' = [mtime EXCEPT ![fd[c]] = stamp[c]]
      /\ isMissing' = [isMissing EXCEPT ![c] = FALSE]
      /\ UNCHANGED <<path, dir, written, next, locks, mutex, clock, fd, stamp,
                     removalNeeded, tmp, base>>
  <2>1. stamp[c] \in 0 .. clock
    BY DEF TimesPast
  <2>2. stamp[c] \in Int
    BY <2>1
  <2>3. stamp[c] # NoTime
    BY <2>2, ClockAssumption, Zenon
  <2>4. Stored(stamp[c]) = stamp[c]
    BY StoredExact, ClockAssumption DEF GoodEnvironment
  <2>5. QED
    BY <2>3, <2>4 DEF TouchOld, UpdateFileTime, lockVars, clockVars
<1>1. AlwaysPresent'
  BY <1>0 DEF AlwaysPresent, TmpOwned
<1>2. Allocated'
  BY <1>0 DEF Allocated, AlwaysPresent
<1>3. TimesPast'
  <2>1. stamp[c] \in 1 .. clock
    BY <1>0 DEF TmpStamp, TimesPast, Allocated
  <2>2. QED
    BY <1>0, <2>1 DEF TimesPast
<1>4. LocksHeld'
  BY <1>0, ProcOfType, ClientsAssumption DEF LocksHeld, Allocated, TmpOwned, TmpUnknown,
     LocksHeldBy, GoodEnvironment, AlwaysPresent
<1>5. TmpOwned'
  BY <1>0 DEF TmpOwned, Allocated, AlwaysPresent
<1>6. TmpUnknown'
  BY <1>0, ProcOfType, ClientsAssumption DEF TmpUnknown, TmpOwned, TmpStamp, LocksHeld,
     LocksHeldBy, TimesPast, Allocated, CommitPending, CheckValid, GoodEnvironment,
     AlwaysPresent
<1>7. TmpStamp'
  BY <1>0, ProcOfType, ClientsAssumption DEF TmpStamp, TmpUnknown, TmpOwned, LocksHeld,
     LocksHeldBy, TimesPast, Allocated, CheckValid, GoodEnvironment, AlwaysPresent
<1>8. CheckValid'
  BY <1>0, ProcOfType, ClientsAssumption DEF CheckValid, LocksHeld, LocksHeldBy,
     ReplacedConflicts, StampIdentifies, Allocated, GoodEnvironment, AlwaysPresent
<1>9. CommitPending'
  BY <1>0, ProcOfType, ClientsAssumption DEF CommitPending, CheckValid, LocksHeld, LocksHeldBy,
     GoodEnvironment, AlwaysPresent
<1>10. ReplacedConflicts'
  BY <1>0, ProcOfType, ClientsAssumption DEF ReplacedConflicts, TmpUnknown, TmpStamp, CheckValid,
     CommitPending, LocksHeld, LocksHeldBy, TimesPast, Allocated, GoodEnvironment,
     AlwaysPresent
<1>11. StampIdentifies'
  BY <1>0 DEF StampIdentifies, TmpUnknown, TmpStamp, CommitPending, CheckValid, TimesPast,
     Allocated, AlwaysPresent
<1>12. QED
  BY <1>1, <1>2, <1>3, <1>4, <1>5, <1>6, <1>7, <1>8, <1>9, <1>10, <1>11

\* The commit is over.
LEMMA UnlockStep ==
    ASSUME GoodEnvironment, ResolverInvariant, NEW c \in Clients, Unlock(c),
           TypeOK', FilesExist'
    PROVE  ResolverInvariant'
<1> USE DEF ResolverInvariant, TypeOK, FilesExist, HasFile, HasTmp, Opened, HoldsLock,
            Checked, Committing, Unpublished, Nothing, Closed, Removing
<1>1. AlwaysPresent'
  BY DEF AlwaysPresent, TmpOwned, Unlock, fileVars, clockVars
<1>2. Allocated'
  BY ReleasedValue DEF Allocated, AlwaysPresent, Unlock, fileVars, clockVars
<1>3. TimesPast'
  BY DEF TimesPast, Allocated, AlwaysPresent, TmpStamp, Unlock, fileVars, clockVars
<1>4. LocksHeld'
  <2> SUFFICES ASSUME NEW d \in Clients PROVE LocksHeldBy(d)'
    BY DEF LocksHeld
  <2>1. CASE d = c
    BY <2>1 DEF LocksHeldBy, Unlock, GiveUp, LocksHeld, lockVars
  <2>2. CASE d # c /\ UNCHANGED locks
    BY <2>2 DEF LocksHeldBy, LocksHeld, Unlock, GiveUp, handleVars
  <2>3. CASE d # c /\ \E inodes : locks' = Released(inodes, c)
    <3>1. pc'[d] = pc[d] /\ fd'[d] = fd[d] /\ tmp'[d] = tmp[d]
      BY <2>3 DEF Unlock, GiveUp, handleVars
    <3>2. QED
      BY <2>3, <3>1, ReleaseKeepsLocks
  <2>4. QED
    BY <2>1, <2>2, <2>3 DEF Unlock, lockVars
<1>5. TmpOwned'
  BY DEF TmpOwned, Allocated, AlwaysPresent, Unlock, fileVars, clockVars
<1>6. TmpUnknown'
  BY ProcOfType, ClientsAssumption DEF TmpUnknown, TmpOwned, TmpStamp, LocksHeld,
     LocksHeldBy, TimesPast, Allocated, CommitPending, CheckValid, GoodEnvironment,
     AlwaysPresent, Unlock, fileVars, clockVars
<1>7. TmpStamp'
  BY ProcOfType, ClientsAssumption DEF TmpStamp, TmpUnknown, TmpOwned, LocksHeld,
     LocksHeldBy, TimesPast, Allocated, CheckValid, GoodEnvironment, AlwaysPresent, Unlock,
     fileVars, clockVars
<1>8. CheckValid'
  BY ProcOfType, ClientsAssumption DEF CheckValid, LocksHeld, LocksHeldBy,
     ReplacedConflicts, StampIdentifies, Allocated, GoodEnvironment, AlwaysPresent, Unlock,
     fileVars, clockVars
<1>9. CommitPending'
  BY ProcOfType, ClientsAssumption DEF CommitPending, CheckValid, LocksHeld, LocksHeldBy,
     GoodEnvironment, AlwaysPresent, Unlock, fileVars, clockVars
<1>10. ReplacedConflicts'
  BY ProcOfType, ClientsAssumption DEF ReplacedConflicts, TmpUnknown, TmpStamp, CheckValid,
     CommitPending, LocksHeld, LocksHeldBy, TimesPast, Allocated, GoodEnvironment,
     AlwaysPresent, Unlock, fileVars, clockVars
<1>11. StampIdentifies'
  BY DEF StampIdentifies, TmpUnknown, TmpStamp, CommitPending, CheckValid, TimesPast,
     Allocated, AlwaysPresent, Unlock, fileVars, clockVars
<1>12. QED
  BY <1>1, <1>2, <1>3, <1>4, <1>5, <1>6, <1>7, <1>8, <1>9, <1>10, <1>11

\* Rollback: unlock.
LEMMA ErrorStep ==
    ASSUME GoodEnvironment, ResolverInvariant, NEW c \in Clients, Error(c),
           TypeOK', FilesExist'
    PROVE  ResolverInvariant'
<1> USE DEF ResolverInvariant, TypeOK, FilesExist, HasFile, HasTmp, Opened, HoldsLock,
            Checked, Committing, Unpublished, Nothing, Closed, Removing
<1>1. AlwaysPresent'
  BY DEF AlwaysPresent, TmpOwned, Error, fileVars, clockVars
<1>2. Allocated'
  BY ReleasedValue DEF Allocated, AlwaysPresent, Error, fileVars, clockVars
<1>3. TimesPast'
  BY DEF TimesPast, Allocated, AlwaysPresent, TmpStamp, Error, fileVars, clockVars
<1>4. LocksHeld'
  <2> SUFFICES ASSUME NEW d \in Clients PROVE LocksHeldBy(d)'
    BY DEF LocksHeld
  <2>1. CASE d = c
    BY <2>1 DEF LocksHeldBy, Error, GiveUp, LocksHeld, lockVars
  <2>2. CASE d # c /\ UNCHANGED locks
    BY <2>2 DEF LocksHeldBy, LocksHeld, Error, GiveUp, handleVars
  <2>3. CASE d # c /\ \E inodes : locks' = Released(inodes, c)
    <3>1. pc'[d] = pc[d] /\ fd'[d] = fd[d] /\ tmp'[d] = tmp[d]
      BY <2>3 DEF Error, GiveUp, handleVars
    <3>2. QED
      BY <2>3, <3>1, ReleaseKeepsLocks
  <2>4. QED
    BY <2>1, <2>2, <2>3 DEF Error, lockVars
<1>5. TmpOwned'
  BY DEF TmpOwned, Allocated, AlwaysPresent, Error, fileVars, clockVars
<1>6. TmpUnknown'
  BY ProcOfType, ClientsAssumption DEF TmpUnknown, TmpOwned, TmpStamp, LocksHeld,
     LocksHeldBy, TimesPast, Allocated, CommitPending, CheckValid, GoodEnvironment,
     AlwaysPresent, Error, fileVars, clockVars
<1>7. TmpStamp'
  BY ProcOfType, ClientsAssumption DEF TmpStamp, TmpUnknown, TmpOwned, LocksHeld,
     LocksHeldBy, TimesPast, Allocated, CheckValid, GoodEnvironment, AlwaysPresent, Error,
     fileVars, clockVars
<1>8. CheckValid'
  BY ProcOfType, ClientsAssumption DEF CheckValid, LocksHeld, LocksHeldBy,
     ReplacedConflicts, StampIdentifies, Allocated, GoodEnvironment, AlwaysPresent, Error,
     fileVars, clockVars
<1>9. CommitPending'
  BY ProcOfType, ClientsAssumption DEF CommitPending, CheckValid, LocksHeld, LocksHeldBy,
     GoodEnvironment, AlwaysPresent, Error, fileVars, clockVars
<1>10. ReplacedConflicts'
  BY ProcOfType, ClientsAssumption DEF ReplacedConflicts, TmpUnknown, TmpStamp, CheckValid,
     CommitPending, LocksHeld, LocksHeldBy, TimesPast, Allocated, GoodEnvironment,
     AlwaysPresent, Error, fileVars, clockVars
<1>11. StampIdentifies'
  BY DEF StampIdentifies, TmpUnknown, TmpStamp, CommitPending, CheckValid, TimesPast,
     Allocated, AlwaysPresent, Error, fileVars, clockVars
<1>12. QED
  BY <1>1, <1>2, <1>3, <1>4, <1>5, <1>6, <1>7, <1>8, <1>9, <1>10, <1>11

\* Rollback: nothing to unlink.
LEMMA ErrorUnlinkStep ==
    ASSUME GoodEnvironment, ResolverInvariant, NEW c \in Clients, ErrorUnlink(c),
           TypeOK', FilesExist'
    PROVE  ResolverInvariant'
<1> USE DEF ResolverInvariant, TypeOK, FilesExist, HasFile, HasTmp, Opened, HoldsLock,
            Checked, Committing, Unpublished, Nothing, Closed, Removing
<1>1. AlwaysPresent'
  BY DEF AlwaysPresent, TmpOwned, ErrorUnlink, clockVars
<1>2. Allocated'
  BY DEF Allocated, AlwaysPresent, ErrorUnlink, clockVars
<1>3. TimesPast'
  BY DEF TimesPast, Allocated, AlwaysPresent, TmpStamp, ErrorUnlink, clockVars
<1>4. LocksHeld'
  BY ProcOfType, ClientsAssumption DEF LocksHeld, Allocated, TmpOwned, TmpUnknown,
     LocksHeldBy, GoodEnvironment, AlwaysPresent, ErrorUnlink, clockVars
<1>5. TmpOwned'
  BY DEF TmpOwned, Allocated, AlwaysPresent, ErrorUnlink, clockVars
<1>6. TmpUnknown'
  BY ProcOfType, ClientsAssumption DEF TmpUnknown, TmpOwned, TmpStamp, LocksHeld,
     LocksHeldBy, TimesPast, Allocated, CommitPending, CheckValid, GoodEnvironment,
     AlwaysPresent, ErrorUnlink, clockVars
<1>7. TmpStamp'
  BY ProcOfType, ClientsAssumption DEF TmpStamp, TmpUnknown, TmpOwned, LocksHeld,
     LocksHeldBy, TimesPast, Allocated, CheckValid, GoodEnvironment, AlwaysPresent,
     ErrorUnlink, clockVars
<1>8. CheckValid'
  BY ProcOfType, ClientsAssumption DEF CheckValid, LocksHeld, LocksHeldBy,
     ReplacedConflicts, StampIdentifies, Allocated, GoodEnvironment, AlwaysPresent,
     ErrorUnlink, clockVars
<1>9. CommitPending'
  BY ProcOfType, ClientsAssumption DEF CommitPending, CheckValid, LocksHeld, LocksHeldBy,
     GoodEnvironment, AlwaysPresent, ErrorUnlink, clockVars
<1>10. ReplacedConflicts'
  BY ProcOfType, ClientsAssumption DEF ReplacedConflicts, TmpUnknown, TmpStamp, CheckValid,
     CommitPending, LocksHeld, LocksHeldBy, TimesPast, Allocated, GoodEnvironment,
     AlwaysPresent, ErrorUnlink, clockVars
<1>11. StampIdentifies'
  BY DEF StampIdentifies, TmpUnknown, TmpStamp, CommitPending, CheckValid, TimesPast,
     Allocated, AlwaysPresent, ErrorUnlink, clockVars
<1>12. QED
  BY <1>1, <1>2, <1>3, <1>4, <1>5, <1>6, <1>7, <1>8, <1>9, <1>10, <1>11

\* A new handle has seen nothing.
LEMMA ReopenStep ==
    ASSUME GoodEnvironment, ResolverInvariant, NEW c \in Clients, Reopen(c),
           TypeOK', FilesExist'
    PROVE  ResolverInvariant'
<1> USE DEF ResolverInvariant, TypeOK, FilesExist, HasFile, HasTmp, Opened, HoldsLock,
            Checked, Committing, Unpublished, Nothing, Closed, Removing
<1>1. AlwaysPresent'
  BY DEF AlwaysPresent, TmpOwned, Reopen, Fresh, fileVars, lockVars, clockVars
<1>2. Allocated'
  BY DEF Allocated, AlwaysPresent, Reopen, Fresh, fileVars, lockVars, clockVars
<1>3. TimesPast'
  BY DEF TimesPast, Allocated, AlwaysPresent, TmpStamp, Reopen, Fresh, fileVars, lockVars,
     clockVars
<1>4. LocksHeld'
  BY ProcOfType, ClientsAssumption DEF LocksHeld, Allocated, TmpOwned, TmpUnknown,
     LocksHeldBy, GoodEnvironment, AlwaysPresent, Reopen, Fresh, fileVars, lockVars,
     clockVars
<1>5. TmpOwned'
  BY DEF TmpOwned, Allocated, AlwaysPresent, Reopen, Fresh, fileVars, lockVars, clockVars
<1>6. TmpUnknown'
  <2>1. \A d \in Clients : HasTmp(d) => mtime[tmp[d]] > 0
    BY TmpTime
  <2>2. UNCHANGED <<path, mtime>> /\ pc'[c] = "new" /\ stamp'[c] = 0 /\ fd'[c] = Closed
    BY DEF Reopen, Fresh, fileVars
  <2>3. \A d \in Clients \ {c} : /\ pc'[d] = pc[d] /\ stamp'[d] = stamp[d]
                                /\ fd'[d] = fd[d] /\ tmp'[d] = tmp[d]
    BY DEF Reopen, Fresh
  <2>4. \A d \in Clients : HasTmp(d) => tmp[d] # Closed
    BY DEF Inodes
  <2>5. QED
    BY <2>1, <2>2, <2>3, <2>4 DEF TmpUnknown
<1>7. TmpStamp'
  BY ProcOfType, ClientsAssumption DEF TmpStamp, TmpUnknown, TmpOwned, LocksHeld,
     LocksHeldBy, TimesPast, Allocated, CheckValid, GoodEnvironment, AlwaysPresent, Reopen,
     Fresh, fileVars, lockVars, clockVars
<1>8. CheckValid'
  BY ProcOfType, ClientsAssumption DEF CheckValid, LocksHeld, LocksHeldBy,
     ReplacedConflicts, StampIdentifies, Allocated, GoodEnvironment, AlwaysPresent, Reopen,
     Fresh, fileVars, lockVars, clockVars
<1>9. CommitPending'
  BY ProcOfType, ClientsAssumption DEF CommitPending, CheckValid, LocksHeld, LocksHeldBy,
     GoodEnvironment, AlwaysPresent, Reopen, Fresh, fileVars, lockVars, clockVars
<1>10. ReplacedConflicts'
  BY ProcOfType, ClientsAssumption DEF ReplacedConflicts, TmpUnknown, TmpStamp, CheckValid,
     CommitPending, LocksHeld, LocksHeldBy, TimesPast, Allocated, GoodEnvironment,
     AlwaysPresent, Reopen, Fresh, fileVars, lockVars, clockVars
<1>11. StampIdentifies'
  BY DEF StampIdentifies, TmpUnknown, TmpStamp, CommitPending, CheckValid, TimesPast,
     Allocated, AlwaysPresent, Reopen, Fresh, fileVars, lockVars, clockVars
<1>12. QED
  BY <1>1, <1>2, <1>3, <1>4, <1>5, <1>6, <1>7, <1>8, <1>9, <1>10, <1>11

\* A crash outside the commit releases the locks of a client that has not
\* replaced the file.
LEMMA CrashStep ==
    ASSUME GoodEnvironment, ResolverInvariant, NEW p \in Procs, Crash(p),
           TypeOK', FilesExist'
    PROVE  ResolverInvariant'
<1> USE DEF ResolverInvariant, TypeOK, FilesExist, HasFile, HasTmp, Opened, HoldsLock,
            Checked, Committing, Unpublished, Nothing, Closed, Removing
<1> DEFINE dead == {c \in Clients : ProcOf[c] = p}
<1>1. UNCHANGED <<path, written, mtime, next, clock>>
  BY DEF Crash, fileVars, clockVars
<1>2. \A d \in dead : /\ pc'[d] = "new" /\ stamp'[d] = 0 /\ fd'[d] = Closed
                      /\ tmp'[d] = Nothing /\ pc[d] \notin {"stamp", "touchOld"}
  BY DEF Crash, Fresh, GoodEnvironment
<1>3. \A d \in Clients \ dead :
          /\ pc'[d] = pc[d] /\ stamp'[d] = stamp[d] /\ fd'[d] = fd[d] /\ tmp'[d] = tmp[d]
          /\ base'[d] = base[d] /\ ProcOf[d] # p
  BY DEF Crash, Fresh
<1>4. \A i \in Inodes : locks'[i] = IF locks[i] = p THEN NoProc ELSE locks[i]
  BY DEF Crash
<1>5. \A d \in Clients : HasTmp(d) => mtime[tmp[d]] > 0 /\ tmp[d] # Closed
  BY TmpTime, InodesPositive
<1>6. mtime[path] > 0
  BY PathExists DEF Allocated, TimesPast
<1>7. AlwaysPresent'
  <2>1. \A d \in Clients : ~isMissing'[d] /\ ~removalNeeded'[d]
    BY Zenon DEF Crash, Fresh, AlwaysPresent
  <2>2. QED
    BY <1>1, <1>2, <1>3, <2>1 DEF AlwaysPresent
<1>8. Allocated'
  BY <1>1, <1>2, <1>3, <1>4 DEF Allocated
<1>9. TimesPast'
  BY <1>1, <1>2, <1>3 DEF TimesPast
<1>10. LocksHeld'
  <2> SUFFICES ASSUME NEW d \in Clients PROVE LocksHeldBy(d)'
    BY DEF LocksHeld
  <2>1. CASE d \in dead
    BY <1>2, <2>1 DEF LocksHeldBy
  <2>2. CASE d \notin dead
    BY <1>3, <1>4, <2>2 DEF LocksHeldBy, LocksHeld
  <2>3. QED
    BY <2>1, <2>2
<1>11. TmpOwned'
  BY <1>1, <1>2, <1>3 DEF TmpOwned
<1>12. TmpUnknown'
  BY <1>1, <1>2, <1>3, <1>5 DEF TmpUnknown
<1>13. TmpStamp'
  BY <1>1, <1>2, <1>3 DEF TmpStamp
<1>14. CheckValid'
  BY <1>1, <1>2, <1>3 DEF CheckValid
<1>15. CommitPending'
  BY <1>1, <1>2, <1>3 DEF CommitPending
<1>16. ReplacedConflicts'
  BY <1>1, <1>2, <1>3 DEF ReplacedConflicts
<1>17. StampIdentifies'
  BY <1>1, <1>2, <1>3, <1>6 DEF StampIdentifies
<1>18. QED
  BY <1>7, <1>8, <1>9, <1>10, <1>11, <1>12, <1>13, <1>14, <1>15, <1>16, <1>17

LEMMA InvariantInit ==
    ASSUME GoodEnvironment, Init
    PROVE  ResolverInvariant
<1>1. TypeOK /\ FilesExist
  BY TypeInit
<1>2. 1 \in Inodes
  BY BoundsAssumption DEF Inodes, MaxInodes
<1>3. QED
  BY <1>1, <1>2, ClockAssumption
     DEF Init, GoodEnvironment, ResolverInvariant, AlwaysPresent, Allocated, TimesPast,
         LocksHeld, LocksHeldBy, TmpOwned, TmpUnknown, TmpStamp, CheckValid, CommitPending,
         ReplacedConflicts, StampIdentifies, HasTmp, Opened, HoldsLock, Checked,
         Committing, Unpublished, Nothing, Closed, Removing

\* Creating, removing and failing to read the file are excluded by the
\* environment, the clock does not tick by itself.
LEMMA Excluded ==
    ASSUME GoodEnvironment, ResolverInvariant
    PROVE  /\ ~Tick
           /\ \A c \in Clients : /\ ~PrepareRemoval(c) /\ ~GetStorageFails(c)
                                 /\ ~MkdirParents(c) /\ ~CreateFile(c) /\ ~Remove(c)
BY DEF GoodEnvironment, ResolverInvariant, AlwaysPresent, Tick, PrepareRemoval,
       GetStorageFails, MkdirParents, CreateFile, Remove

LEMMA InvariantStep ==
    ASSUME GoodEnvironment, ResolverInvariant, [Next]_vars
    PROVE  ResolverInvariant'
<1>1. TypeOK' /\ FilesExist'
  BY TypeStep DEF ResolverInvariant
<1>2. CASE UNCHANGED vars
  BY <1>2 DEF vars, fileVars, lockVars, clockVars, handleVars, ResolverInvariant, TypeOK,
       FilesExist, AlwaysPresent, Allocated, TimesPast, LocksHeld, LocksHeldBy, TmpOwned,
       TmpUnknown, TmpStamp, CheckValid, CommitPending, ReplacedConflicts, StampIdentifies,
       HasFile, HasTmp, Opened, HoldsLock, Checked, Committing, Unpublished
<1>3. CASE Next
  <2>1. ASSUME NEW c \in Clients,
               GetResolve(c) \/ OpenFile(c) \/ Reopen(c) \/ Continue(c)
        PROVE  ResolverInvariant'
    BY <1>1, <2>1, Excluded, GetResolveStep, GetStorageStep, OpenFileStep, LockMutexStep,
       LockFileStep, CheckConflictStep, SetStorageStep, SetFailsStep, RenameStep,
       UpdateStampStep, TouchOldStep, UnlockStep, ErrorStep, ErrorUnlinkStep, ReopenStep
       DEF Continue
  <2>2. ASSUME NEW p \in Procs, Crash(p)
        PROVE  ResolverInvariant'
    BY <1>1, <2>2, CrashStep
  <2>3. QED
    BY <1>3, <2>1, <2>2, Excluded DEF Next
<1>4. QED
  BY <1>2, <1>3

\* In a good environment the inductive invariant holds for any number of
\* clients, kdbSet() calls, crashes and failures.
THEOREM InvariantHolds ==
    ASSUME GoodEnvironment
    PROVE  Spec => []ResolverInvariant
<1>1. Init => ResolverInvariant
  BY InvariantInit
<1>2. ResolverInvariant /\ [Next]_vars => ResolverInvariant'
  BY InvariantStep
<1>3. QED
  BY <1>1, <1>2, PTL DEF Spec

\* The conflict check of elektraCheckConflict stays valid until the rename.
THEOREM CheckStaysValid ==
    ASSUME GoodEnvironment
    PROVE  Spec => []CheckedIsCurrent
<1>1. ResolverInvariant => CheckedIsCurrent
  BY DEF ResolverInvariant, CheckedIsCurrent, CheckValid, AlwaysPresent, Current, Checked
<1>2. QED
  BY <1>1, InvariantHolds, PTL

\* A kdbGet() that reports "no update" leaves a key set that is up to date.
THEOREM NoUpdateMeansUpToDate ==
    ASSUME GoodEnvironment
    PROVE  Spec => []UpToDate
<1>1. ResolverInvariant => UpToDate
  BY DEF ResolverInvariant, UpToDate, StampIdentifies, AlwaysPresent, Current
<1>2. QED
  BY <1>1, InvariantHolds, PTL

\* Steps of the resolver that leave the file and the clients' key sets alone.
LEMMA QuietSteps ==
    ASSUME ResolverInvariant, NEW c \in Clients,
           \/ GetResolve(c) \/ LockMutex(c) \/ LockFile(c)
           \/ CheckConflict(c) \/ SetStorage(c) \/ SetFails(c) \/ UpdateStamp(c)
           \/ TouchOld(c) \/ Unlock(c) \/ Error(c)
    PROVE  UNCHANGED <<path, base>> /\ written \subseteq written'
BY DEF GetResolve, LockMutex, LockFile, CheckConflict, SetStorage, SetFails, UpdateStamp,
       TouchOld, Unlock, Error, fileVars, handleVars

\* Every step of the resolver is a step of the store or leaves it unchanged.
LEMMA StoreStep ==
    ASSUME GoodEnvironment, ResolverInvariant, ResolverInvariant', [Next]_vars
    PROVE  [Store!Next]_(Store!vars)
<1>1. Current = path /\ Current' = path'
  BY DEF ResolverInvariant, AlwaysPresent, Current
<1> SUFFICES ASSUME Next PROVE [Store!Next]_(Store!vars)
  BY DEF vars, fileVars, Store!vars, Current
<1>2. ASSUME NEW c \in Clients, UNCHANGED <<path, base>> PROVE UNCHANGED Store!vars
  BY <1>1, <1>2 DEF Store!vars
<1>3. ASSUME NEW c \in Clients, OpenFile(c) \/ ErrorUnlink(c) PROVE UNCHANGED <<path, base>>
  BY <1>3, PathExists DEF ResolverInvariant, AlwaysPresent, OpenFile, OpenConflict,
       ErrorUnlink, fileVars
<1>4. ASSUME NEW c \in Clients, GetStorage(c) PROVE Store!Get(c)
  <2>1. path # Nothing /\ path \in written
    BY PathExists DEF ResolverInvariant, AlwaysPresent
  <2>2. QED
    BY <1>1, <1>4, <2>1 DEF GetStorage, Store!Get, fileVars
<1>5. ASSUME NEW c \in Clients, Rename(c) PROVE Store!Set(c) \/ UNCHANGED <<path, base>>
  <2>1. base[c] = path /\ tmp[c] \in Inodes /\ tmp[c] # path
    BY <1>5 DEF Rename, ResolverInvariant, CheckValid, Checked, TmpUnknown, FilesExist, HasTmp
  <2>2. QED
    BY <1>1, <1>5, <2>1 DEF Rename, Store!Set
<1>6. ASSUME NEW c \in Clients, Reopen(c) PROVE Store!Forget({c})
  BY <1>1, <1>6 DEF Reopen, Fresh, Store!Forget, fileVars
<1>7. ASSUME NEW p \in Procs, Crash(p)
      PROVE  Store!Forget({c \in Clients : ProcOf[c] = p})
  BY <1>1, <1>7 DEF Crash, Fresh, Store!Forget, fileVars
<1>8. CASE \E c \in Clients : \/ GetResolve(c) \/ OpenFile(c) \/ PrepareRemoval(c)
                              \/ Reopen(c) \/ Continue(c)
  <2>1. PICK c \in Clients : \/ GetResolve(c) \/ OpenFile(c) \/ PrepareRemoval(c)
                             \/ Reopen(c) \/ Continue(c)
    BY <1>8
  <2>2. QED
    BY <1>2, <1>3, <1>4, <1>5, <1>6, <2>1, QuietSteps, Excluded DEF Continue, Store!Next
<1>9. CASE \E p \in Procs : Crash(p)
  BY <1>7, <1>9 DEF Store!Next
<1>10. QED
  BY <1>8, <1>9, Excluded DEF Next

\* The resolver implements the optimistic store: whatever interleaving of
\* kdbGet() and kdbSet(), the file is only replaced by a client that knew it.
THEOREM ResolverImplementsStore ==
    ASSUME GoodEnvironment
    PROVE  Spec => ImplementsStore
<1>1. Init => Store!Init
  <2>1. 1 \in Inodes
    BY BoundsAssumption DEF Inodes, MaxInodes
  <2>2. QED
    BY <2>1 DEF GoodEnvironment, Init, Store!Init, Current
<1>2. ResolverInvariant /\ ResolverInvariant' /\ [Next]_vars => [Store!Next]_(Store!vars)
  BY StoreStep
<1>3. QED
  BY <1>1, <1>2, InvariantHolds, PTL DEF Spec, Store!Spec, ImplementsStore

\* No kdbSet() replaces or unlinks a configuration it has not loaded.
THEOREM NoUpdateLost ==
    ASSUME GoodEnvironment
    PROVE  Spec => NoLostUpdate
<1> DEFINE Loaded == Current' # Current /\ Current # Nothing =>
                       \E c \in Clients : base[c] = Current /\ pc'[c] # pc[c]
<1>1. ASSUME ResolverInvariant, ResolverInvariant', Next PROVE Loaded
  <2>1. Current = path /\ Current' = path'
    BY <1>1 DEF ResolverInvariant, AlwaysPresent, Current
  <2>2. ASSUME NEW c \in Clients, Rename(c) PROVE base[c] = path /\ pc'[c] # pc[c]
    BY <1>1, <2>2 DEF Rename, ResolverInvariant, TypeOK, CheckValid, Checked
  <2>3. ASSUME NEW c \in Clients, OpenFile(c) \/ ErrorUnlink(c) PROVE path' = path
    BY <1>1, <2>3, PathExists DEF ResolverInvariant, AlwaysPresent, OpenFile, OpenConflict,
         ErrorUnlink, fileVars
  <2>4. ASSUME NEW c \in Clients, GetStorage(c) \/ Reopen(c) PROVE path' = path
    BY <2>4 DEF GetStorage, Reopen, fileVars
  <2>5. ASSUME NEW p \in Procs, Crash(p) PROVE path' = path
    BY <2>5 DEF Crash, fileVars
  <2>6. QED
    BY <1>1, <2>1, <2>2, <2>3, <2>4, <2>5, QuietSteps, Excluded DEF Next, Continue
<1>2. ResolverInvariant /\ ResolverInvariant' /\ [Next]_vars => [Loaded]_vars
  BY <1>1
<1>3. QED
  BY <1>2, InvariantHolds, PTL DEF Spec, NoLostUpdate

-----------------------------------------------------------------------------
(***************************************************************************)
(* Locks and creation in any environment.                                  *)
(***************************************************************************)

\* The steps of client c, one disjunct per action.
NextOf(c) ==
    \/ GetResolve(c)
    \/ OpenFile(c)
    \/ PrepareRemoval(c)
    \/ Reopen(c)
    \/ GetStorage(c)
    \/ GetStorageFails(c)
    \/ MkdirParents(c)
    \/ CreateFile(c)
    \/ LockMutex(c)
    \/ LockFile(c)
    \/ CheckConflict(c)
    \/ SetStorage(c)
    \/ SetFails(c)
    \/ Rename(c)
    \/ UpdateStamp(c)
    \/ TouchOld(c)
    \/ Unlock(c)
    \/ Remove(c)
    \/ Error(c)
    \/ ErrorUnlink(c)

LEMMA NextSplit ==
    Next => (\E c \in Clients : NextOf(c)) \/ (\E p \in Procs : Crash(p)) \/ Tick
  BY DEF Next, Continue, NextOf

LEMMA AtRestStep ==
    ASSUME TypeOK, FilesExist, HandleAtRest, [Next]_vars
    PROVE  HandleAtRest'
  <1> USE DEF TypeOK, FilesExist, HasFile, HasTmp, Opened, HoldsLock, Nothing, Closed, Removing
  <1>1. ASSUME NEW c \in Clients, NextOf(c) PROVE HandleAtRest'
    <2>1. CASE GetResolve(c)
      BY <2>1 DEF GetResolve, HandleAtRest, fileVars, lockVars, clockVars, handleVars
    <2>2. CASE OpenFile(c)
      BY <2>2 DEF OpenFile, OpenConflict, GiveUp, NewInode, HandleAtRest, fileVars, lockVars,
         clockVars, handleVars
    <2>3. CASE PrepareRemoval(c)
      BY <2>3 DEF PrepareRemoval, HandleAtRest, fileVars, lockVars, clockVars, handleVars
    <2>4. CASE Reopen(c)
      BY <2>4 DEF Reopen, Fresh, HandleAtRest, fileVars, lockVars, clockVars, handleVars
    <2>5. CASE GetStorage(c)
      BY <2>5 DEF GetStorage, HandleAtRest, fileVars, lockVars, clockVars, handleVars
    <2>6. CASE GetStorageFails(c)
      BY <2>6 DEF GetStorageFails, HandleAtRest, fileVars, lockVars, clockVars, handleVars
    <2>7. CASE MkdirParents(c)
      BY <2>7 DEF MkdirParents, HandleAtRest, fileVars, lockVars, clockVars, handleVars
    <2>8. CASE CreateFile(c)
      BY <2>8 DEF CreateFile, NewInode, HandleAtRest, fileVars, lockVars, clockVars, handleVars
    <2>9. CASE LockMutex(c)
      BY <2>9 DEF LockMutex, MutexTaken, GiveUp, HandleAtRest, fileVars, lockVars, clockVars,
         handleVars
    <2>10. CASE LockFile(c)
      BY <2>10 DEF LockFile, LockTaken, GiveUp, HandleAtRest, fileVars, lockVars, clockVars,
         handleVars
    <2>11. CASE CheckConflict(c)
      BY <2>11 DEF CheckConflict, Conflict, GiveUp, HandleAtRest, fileVars, lockVars, clockVars,
         handleVars
    <2>12. CASE SetStorage(c)
      BY <2>12 DEF SetStorage, NewInode, HandleAtRest, fileVars, lockVars, clockVars, handleVars
    <2>13. CASE SetFails(c)
      BY <2>13 DEF SetFails, HandleAtRest, fileVars, lockVars, clockVars, handleVars
    <2>14. CASE Rename(c)
      BY <2>14 DEF Rename, HandleAtRest, fileVars, lockVars, clockVars, handleVars
    <2>15. CASE UpdateStamp(c)
      BY <2>15 DEF UpdateStamp, HandleAtRest, fileVars, lockVars, clockVars, handleVars
    <2>16. CASE TouchOld(c)
      BY <2>16 DEF TouchOld, HandleAtRest, fileVars, lockVars, clockVars, handleVars
    <2>17. CASE Unlock(c)
      BY <2>17 DEF Unlock, HandleAtRest, fileVars, lockVars, clockVars, handleVars
    <2>18. CASE Remove(c)
      BY <2>18 DEF Remove, HandleAtRest, fileVars, lockVars, clockVars, handleVars
    <2>19. CASE Error(c)
      BY <2>19 DEF Error, HandleAtRest, fileVars, lockVars, clockVars, handleVars
    <2>20. CASE ErrorUnlink(c)
      BY <2>20 DEF ErrorUnlink, HandleAtRest, fileVars, lockVars, clockVars, handleVars
    <2> QED
      BY <1>1, <2>1, <2>2, <2>3, <2>4, <2>5, <2>6, <2>7, <2>8, <2>9, <2>10, <2>11, <2>12, <2>13,
         <2>14, <2>15, <2>16, <2>17, <2>18, <2>19, <2>20 DEF NextOf
  <1>2. CASE \E p \in Procs : Crash(p)
    BY <1>2 DEF Crash, Fresh, HandleAtRest, fileVars, lockVars, clockVars, handleVars
  <1>3. CASE Tick
    BY <1>3 DEF Tick, HandleAtRest, fileVars, lockVars, clockVars, handleVars
  <1>4. CASE UNCHANGED vars
    BY <1>4 DEF vars, HandleAtRest, fileVars, lockVars, clockVars, handleVars
  <1> QED
    BY <1>1, <1>2, <1>3, <1>4, NextSplit

LEMMA MutexStep ==
    ASSUME TypeOK, FilesExist, HandleAtRest, MutexExact, [Next]_vars
    PROVE  MutexExact'
  <1> USE DEF TypeOK, FilesExist, HasFile, HasTmp, Opened, HoldsLock, Nothing, Closed, Removing, HandleAtRest, HoldsMutex
  <1>1. ASSUME NEW c \in Clients, NextOf(c) PROVE MutexExact'
    <2>1. CASE GetResolve(c)
      BY <2>1, ProcOfType, ClientsAssumption, InodesPositive DEF GetResolve, MutexExact, fileVars,
         lockVars, clockVars, handleVars
    <2>2. CASE OpenFile(c)
      BY <2>2, ProcOfType, ClientsAssumption, InodesPositive DEF OpenFile, OpenConflict, GiveUp,
         NewInode, MutexExact, fileVars, lockVars, clockVars, handleVars
    <2>3. CASE PrepareRemoval(c)
      BY <2>3, ProcOfType, ClientsAssumption, InodesPositive DEF PrepareRemoval, MutexExact,
         fileVars, lockVars, clockVars, handleVars
    <2>4. CASE Reopen(c)
      BY <2>4, ProcOfType, ClientsAssumption, InodesPositive DEF Reopen, Fresh, MutexExact,
         fileVars, lockVars, clockVars, handleVars
    <2>5. CASE GetStorage(c)
      BY <2>5, ProcOfType, ClientsAssumption, InodesPositive DEF GetStorage, MutexExact, fileVars,
         lockVars, clockVars, handleVars
    <2>6. CASE GetStorageFails(c)
      BY <2>6, ProcOfType, ClientsAssumption, InodesPositive DEF GetStorageFails, MutexExact,
         fileVars, lockVars, clockVars, handleVars
    <2>7. CASE MkdirParents(c)
      BY <2>7, ProcOfType, ClientsAssumption, InodesPositive DEF MkdirParents, MutexExact,
         fileVars, lockVars, clockVars, handleVars
    <2>8. CASE CreateFile(c)
      BY <2>8, ProcOfType, ClientsAssumption, InodesPositive DEF CreateFile, NewInode, MutexExact,
         fileVars, lockVars, clockVars, handleVars
    <2>9. CASE LockMutex(c)
      BY <2>9, ProcOfType, ClientsAssumption, InodesPositive DEF LockMutex, MutexTaken, GiveUp,
         MutexExact, fileVars, lockVars, clockVars, handleVars
    <2>10. CASE LockFile(c)
      BY <2>10, ProcOfType, ClientsAssumption, InodesPositive DEF LockFile, LockTaken, GiveUp,
         MutexExact, fileVars, lockVars, clockVars, handleVars
    <2>11. CASE CheckConflict(c)
      BY <2>11, ProcOfType, ClientsAssumption, InodesPositive DEF CheckConflict, Conflict, GiveUp,
         MutexExact, fileVars, lockVars, clockVars, handleVars
    <2>12. CASE SetStorage(c)
      BY <2>12, ProcOfType, ClientsAssumption, InodesPositive DEF SetStorage, NewInode,
         MutexExact, fileVars, lockVars, clockVars, handleVars
    <2>13. CASE SetFails(c)
      BY <2>13, ProcOfType, ClientsAssumption, InodesPositive DEF SetFails, MutexExact, fileVars,
         lockVars, clockVars, handleVars
    <2>14. CASE Rename(c)
      BY <2>14, ProcOfType, ClientsAssumption, InodesPositive DEF Rename, MutexExact, fileVars,
         lockVars, clockVars, handleVars
    <2>15. CASE UpdateStamp(c)
      BY <2>15, ProcOfType, ClientsAssumption, InodesPositive DEF UpdateStamp, MutexExact,
         fileVars, lockVars, clockVars, handleVars
    <2>16. CASE TouchOld(c)
      BY <2>16, ProcOfType, ClientsAssumption, InodesPositive DEF TouchOld, MutexExact, fileVars,
         lockVars, clockVars, handleVars
    <2>17. CASE Unlock(c)
      BY <2>17, ProcOfType, ClientsAssumption, InodesPositive DEF Unlock, MutexExact, fileVars,
         lockVars, clockVars, handleVars
    <2>18. CASE Remove(c)
      BY <2>18, ProcOfType, ClientsAssumption, InodesPositive DEF Remove, MutexExact, fileVars,
         lockVars, clockVars, handleVars
    <2>19. CASE Error(c)
      BY <2>19, ProcOfType, ClientsAssumption, InodesPositive DEF Error, MutexExact, fileVars,
         lockVars, clockVars, handleVars
    <2>20. CASE ErrorUnlink(c)
      BY <2>20, ProcOfType, ClientsAssumption, InodesPositive DEF ErrorUnlink, MutexExact,
         fileVars, lockVars, clockVars, handleVars
    <2> QED
      BY <1>1, <2>1, <2>2, <2>3, <2>4, <2>5, <2>6, <2>7, <2>8, <2>9, <2>10, <2>11, <2>12, <2>13,
         <2>14, <2>15, <2>16, <2>17, <2>18, <2>19, <2>20 DEF NextOf
  <1>2. CASE \E p \in Procs : Crash(p)
    BY <1>2, ProcOfType, ClientsAssumption, InodesPositive DEF Crash, Fresh, MutexExact, fileVars,
       lockVars, clockVars, handleVars
  <1>3. CASE Tick
    BY <1>3, ProcOfType, ClientsAssumption, InodesPositive DEF Tick, MutexExact, fileVars,
       lockVars, clockVars, handleVars
  <1>4. CASE UNCHANGED vars
    BY <1>4, ProcOfType, ClientsAssumption, InodesPositive DEF vars, MutexExact, fileVars,
       lockVars, clockVars, handleVars
  <1> QED
    BY <1>1, <1>2, <1>3, <1>4, NextSplit

LEMMA ExplainedStep ==
    ASSUME TypeOK, FilesExist, HandleAtRest, LocksExplained, [Next]_vars
    PROVE  LocksExplained'
  <1> USE DEF TypeOK, FilesExist, HasFile, HasTmp, Opened, HoldsLock, Nothing, Closed, Removing, HandleAtRest, Explains
  <1>1. ASSUME NEW c \in Clients, NextOf(c) PROVE LocksExplained'
    <2>1. CASE GetResolve(c)
      BY <2>1, ProcOfType, ClientsAssumption, InodesPositive DEF GetResolve, LocksExplained,
         Released, fileVars, lockVars, clockVars, handleVars
    <2>2. CASE OpenFile(c)
      BY <2>2, ProcOfType, ClientsAssumption, InodesPositive DEF OpenFile, OpenConflict, GiveUp,
         NewInode, LocksExplained, Released, fileVars, lockVars, clockVars, handleVars
    <2>3. CASE PrepareRemoval(c)
      BY <2>3, ProcOfType, ClientsAssumption, InodesPositive DEF PrepareRemoval, LocksExplained,
         Released, fileVars, lockVars, clockVars, handleVars
    <2>4. CASE Reopen(c)
      BY <2>4, ProcOfType, ClientsAssumption, InodesPositive DEF Reopen, Fresh, LocksExplained,
         Released, fileVars, lockVars, clockVars, handleVars
    <2>5. CASE GetStorage(c)
      BY <2>5, ProcOfType, ClientsAssumption, InodesPositive DEF GetStorage, LocksExplained,
         Released, fileVars, lockVars, clockVars, handleVars
    <2>6. CASE GetStorageFails(c)
      BY <2>6, ProcOfType, ClientsAssumption, InodesPositive DEF GetStorageFails, LocksExplained,
         Released, fileVars, lockVars, clockVars, handleVars
    <2>7. CASE MkdirParents(c)
      BY <2>7, ProcOfType, ClientsAssumption, InodesPositive DEF MkdirParents, LocksExplained,
         Released, fileVars, lockVars, clockVars, handleVars
    <2>8. CASE CreateFile(c)
      BY <2>8, ProcOfType, ClientsAssumption, InodesPositive DEF CreateFile, NewInode,
         LocksExplained, Released, fileVars, lockVars, clockVars, handleVars
    <2>9. CASE LockMutex(c)
      BY <2>9, ProcOfType, ClientsAssumption, InodesPositive DEF LockMutex, MutexTaken, GiveUp,
         LocksExplained, Released, fileVars, lockVars, clockVars, handleVars
    <2>10. CASE LockFile(c)
      BY <2>10, ProcOfType, ClientsAssumption, InodesPositive DEF LockFile, LockTaken, GiveUp,
         LocksExplained, Released, fileVars, lockVars, clockVars, handleVars
    <2>11. CASE CheckConflict(c)
      BY <2>11, ProcOfType, ClientsAssumption, InodesPositive DEF CheckConflict, Conflict, GiveUp,
         LocksExplained, Released, fileVars, lockVars, clockVars, handleVars
    <2>12. CASE SetStorage(c)
      BY <2>12, ProcOfType, ClientsAssumption, InodesPositive DEF SetStorage, NewInode,
         LocksExplained, Released, fileVars, lockVars, clockVars, handleVars
    <2>13. CASE SetFails(c)
      BY <2>13, ProcOfType, ClientsAssumption, InodesPositive DEF SetFails, LocksExplained,
         Released, fileVars, lockVars, clockVars, handleVars
    <2>14. CASE Rename(c)
      BY <2>14, ProcOfType, ClientsAssumption, InodesPositive DEF Rename, LocksExplained,
         Released, fileVars, lockVars, clockVars, handleVars
    <2>15. CASE UpdateStamp(c)
      BY <2>15, ProcOfType, ClientsAssumption, InodesPositive DEF UpdateStamp, LocksExplained,
         Released, fileVars, lockVars, clockVars, handleVars
    <2>16. CASE TouchOld(c)
      BY <2>16, ProcOfType, ClientsAssumption, InodesPositive DEF TouchOld, LocksExplained,
         Released, fileVars, lockVars, clockVars, handleVars
    <2>17. CASE Unlock(c)
      BY <2>17, ProcOfType, ClientsAssumption, InodesPositive DEF Unlock, LocksExplained,
         Released, fileVars, lockVars, clockVars, handleVars
    <2>18. CASE Remove(c)
      BY <2>18, ProcOfType, ClientsAssumption, InodesPositive DEF Remove, LocksExplained,
         Released, fileVars, lockVars, clockVars, handleVars
    <2>19. CASE Error(c)
      BY <2>19, ProcOfType, ClientsAssumption, InodesPositive DEF Error, LocksExplained, Released,
         fileVars, lockVars, clockVars, handleVars
    <2>20. CASE ErrorUnlink(c)
      BY <2>20, ProcOfType, ClientsAssumption, InodesPositive DEF ErrorUnlink, LocksExplained,
         Released, fileVars, lockVars, clockVars, handleVars
    <2> QED
      BY <1>1, <2>1, <2>2, <2>3, <2>4, <2>5, <2>6, <2>7, <2>8, <2>9, <2>10, <2>11, <2>12, <2>13,
         <2>14, <2>15, <2>16, <2>17, <2>18, <2>19, <2>20 DEF NextOf
  <1>2. CASE \E p \in Procs : Crash(p)
    BY <1>2, ProcOfType, ClientsAssumption, InodesPositive DEF Crash, Fresh, LocksExplained,
       Released, fileVars, lockVars, clockVars, handleVars
  <1>3. CASE Tick
    BY <1>3, ProcOfType, ClientsAssumption, InodesPositive DEF Tick, LocksExplained, Released,
       fileVars, lockVars, clockVars, handleVars
  <1>4. CASE UNCHANGED vars
    BY <1>4, ProcOfType, ClientsAssumption, InodesPositive DEF vars, LocksExplained, Released,
       fileVars, lockVars, clockVars, handleVars
  <1> QED
    BY <1>1, <1>2, <1>3, <1>4, NextSplit

LEMMA FileLockedStep ==
    ASSUME OneHandleEach, TypeOK, FilesExist, HandleAtRest, FileLocked, [Next]_vars
    PROVE  FileLocked'
  <1> USE DEF TypeOK, FilesExist, HasFile, HasTmp, Opened, HoldsLock, Nothing, Closed, Removing, HandleAtRest, OneHandleEach
  <1>1. ASSUME NEW c \in Clients, NextOf(c) PROVE FileLocked'
    <2>1. CASE GetResolve(c)
      BY <2>1, ProcOfType, ClientsAssumption, InodesPositive DEF GetResolve, FileLocked, Released,
         fileVars, lockVars, clockVars, handleVars
    <2>2. CASE OpenFile(c)
      BY <2>2, ProcOfType, ClientsAssumption, InodesPositive DEF OpenFile, OpenConflict, GiveUp,
         NewInode, FileLocked, Released, fileVars, lockVars, clockVars, handleVars
    <2>3. CASE PrepareRemoval(c)
      BY <2>3, ProcOfType, ClientsAssumption, InodesPositive DEF PrepareRemoval, FileLocked,
         Released, fileVars, lockVars, clockVars, handleVars
    <2>4. CASE Reopen(c)
      BY <2>4, ProcOfType, ClientsAssumption, InodesPositive DEF Reopen, Fresh, FileLocked,
         Released, fileVars, lockVars, clockVars, handleVars
    <2>5. CASE GetStorage(c)
      BY <2>5, ProcOfType, ClientsAssumption, InodesPositive DEF GetStorage, FileLocked, Released,
         fileVars, lockVars, clockVars, handleVars
    <2>6. CASE GetStorageFails(c)
      BY <2>6, ProcOfType, ClientsAssumption, InodesPositive DEF GetStorageFails, FileLocked,
         Released, fileVars, lockVars, clockVars, handleVars
    <2>7. CASE MkdirParents(c)
      BY <2>7, ProcOfType, ClientsAssumption, InodesPositive DEF MkdirParents, FileLocked,
         Released, fileVars, lockVars, clockVars, handleVars
    <2>8. CASE CreateFile(c)
      BY <2>8, ProcOfType, ClientsAssumption, InodesPositive DEF CreateFile, NewInode, FileLocked,
         Released, fileVars, lockVars, clockVars, handleVars
    <2>9. CASE LockMutex(c)
      BY <2>9, ProcOfType, ClientsAssumption, InodesPositive DEF LockMutex, MutexTaken, GiveUp,
         FileLocked, Released, fileVars, lockVars, clockVars, handleVars
    <2>10. CASE LockFile(c)
      BY <2>10, ProcOfType, ClientsAssumption, InodesPositive DEF LockFile, LockTaken, GiveUp,
         FileLocked, Released, fileVars, lockVars, clockVars, handleVars
    <2>11. CASE CheckConflict(c)
      BY <2>11, ProcOfType, ClientsAssumption, InodesPositive DEF CheckConflict, Conflict, GiveUp,
         FileLocked, Released, fileVars, lockVars, clockVars, handleVars
    <2>12. CASE SetStorage(c)
      BY <2>12, ProcOfType, ClientsAssumption, InodesPositive DEF SetStorage, NewInode,
         FileLocked, Released, fileVars, lockVars, clockVars, handleVars
    <2>13. CASE SetFails(c)
      BY <2>13, ProcOfType, ClientsAssumption, InodesPositive DEF SetFails, FileLocked, Released,
         fileVars, lockVars, clockVars, handleVars
    <2>14. CASE Rename(c)
      BY <2>14, ProcOfType, ClientsAssumption, InodesPositive DEF Rename, FileLocked, Released,
         fileVars, lockVars, clockVars, handleVars
    <2>15. CASE UpdateStamp(c)
      BY <2>15, ProcOfType, ClientsAssumption, InodesPositive DEF UpdateStamp, FileLocked,
         Released, fileVars, lockVars, clockVars, handleVars
    <2>16. CASE TouchOld(c)
      BY <2>16, ProcOfType, ClientsAssumption, InodesPositive DEF TouchOld, FileLocked, Released,
         fileVars, lockVars, clockVars, handleVars
    <2>17. CASE Unlock(c)
      BY <2>17, ProcOfType, ClientsAssumption, InodesPositive DEF Unlock, FileLocked, Released,
         fileVars, lockVars, clockVars, handleVars
    <2>18. CASE Remove(c)
      BY <2>18, ProcOfType, ClientsAssumption, InodesPositive DEF Remove, FileLocked, Released,
         fileVars, lockVars, clockVars, handleVars
    <2>19. CASE Error(c)
      BY <2>19, ProcOfType, ClientsAssumption, InodesPositive DEF Error, FileLocked, Released,
         fileVars, lockVars, clockVars, handleVars
    <2>20. CASE ErrorUnlink(c)
      BY <2>20, ProcOfType, ClientsAssumption, InodesPositive DEF ErrorUnlink, FileLocked,
         Released, fileVars, lockVars, clockVars, handleVars
    <2> QED
      BY <1>1, <2>1, <2>2, <2>3, <2>4, <2>5, <2>6, <2>7, <2>8, <2>9, <2>10, <2>11, <2>12, <2>13,
         <2>14, <2>15, <2>16, <2>17, <2>18, <2>19, <2>20 DEF NextOf
  <1>2. CASE \E p \in Procs : Crash(p)
    BY <1>2, ProcOfType, ClientsAssumption, InodesPositive DEF Crash, Fresh, FileLocked, Released,
       fileVars, lockVars, clockVars, handleVars
  <1>3. CASE Tick
    BY <1>3, ProcOfType, ClientsAssumption, InodesPositive DEF Tick, FileLocked, Released,
       fileVars, lockVars, clockVars, handleVars
  <1>4. CASE UNCHANGED vars
    BY <1>4, ProcOfType, ClientsAssumption, InodesPositive DEF vars, FileLocked, Released,
       fileVars, lockVars, clockVars, handleVars
  <1> QED
    BY <1>1, <1>2, <1>3, <1>4, NextSplit

LEMMA CreatedStep ==
    ASSUME TypeOK, FilesExist, HandleAtRest, Created, [Next]_vars
    PROVE  Created'
  <1> USE DEF TypeOK, FilesExist, HasFile, HasTmp, Opened, HoldsLock, Nothing, Closed, Removing, HandleAtRest
  <1>1. ASSUME NEW c \in Clients, NextOf(c) PROVE Created'
    <2>1. CASE GetResolve(c)
      BY <2>1, InodesPositive DEF GetResolve, Created, fileVars, lockVars, clockVars, handleVars
    <2>2. CASE OpenFile(c)
      <3>1. dir' = dir /\ written' = written /\ tmp' = tmp
            /\ pc'[c] \notin {"mkdir", "create"} /\ \A d \in Clients \ {c} : pc'[d] = pc[d] /\ fd'[d] = fd[d]
        BY <2>2 DEF Created, OpenFile, GiveUp, fileVars
      <3>2. CASE next' = next + 1 /\ path' = next /\ fd'[c] = next
        <4>1. \A d \in Clients : tmp[d] \in Int /\ fd[d] \in Int
          BY InodesPositive
        <4>2. next \in Nat /\ next' - 1 = next
          BY <3>2
        <4>3. written' \subseteq 1 .. (next' - 1)
          BY <3>1, <4>2 DEF Created
        <4> QED
          BY <3>1, <3>2, <4>1, <4>2, <4>3 DEF Created
      <3>3. CASE next' = next /\ path' = path /\ fd'[c] \in {path, Closed}
        BY <3>1, <3>3 DEF Created
      <3> QED
        BY <2>2, <3>2, <3>3 DEF Created, OpenFile, GiveUp, NewInode, fileVars
    <2>3. CASE PrepareRemoval(c)
      BY <2>3, InodesPositive DEF PrepareRemoval, Created, fileVars, lockVars, clockVars, handleVars
    <2>4. CASE Reopen(c)
      BY <2>4, InodesPositive DEF Reopen, Fresh, Created, fileVars, lockVars, clockVars, handleVars
    <2>5. CASE GetStorage(c)
      BY <2>5, InodesPositive DEF GetStorage, Created, fileVars, lockVars, clockVars, handleVars
    <2>6. CASE GetStorageFails(c)
      BY <2>6, InodesPositive DEF GetStorageFails, Created, fileVars, lockVars, clockVars,
         handleVars
    <2>7. CASE MkdirParents(c)
      BY <2>7, InodesPositive DEF MkdirParents, Created, fileVars, lockVars, clockVars, handleVars
    <2>8. CASE CreateFile(c)
      BY <2>8, InodesPositive DEF CreateFile, NewInode, Created, fileVars, lockVars, clockVars,
         handleVars
    <2>9. CASE LockMutex(c)
      BY <2>9, InodesPositive DEF LockMutex, MutexTaken, GiveUp, Created, fileVars, lockVars,
         clockVars, handleVars
    <2>10. CASE LockFile(c)
      BY <2>10, InodesPositive DEF LockFile, LockTaken, GiveUp, Created, fileVars, lockVars,
         clockVars, handleVars
    <2>11. CASE CheckConflict(c)
      BY <2>11, InodesPositive DEF CheckConflict, Conflict, GiveUp, Created, fileVars, lockVars,
         clockVars, handleVars
    <2>12. CASE SetStorage(c)
      <3>1. next' = next + 1 /\ written' = written \union {next} /\ UNCHANGED <<path, dir, fd>>
        BY <2>12 DEF SetStorage, NewInode, handleVars
      <3>2. \A d \in Clients : tmp'[d] \in {tmp[d], next} /\ (pc'[d] = pc[d] \/ pc'[d] = "commit")
        BY <2>12 DEF SetStorage
      <3>3. next \in Nat /\ written' \subseteq 1 .. next
        BY <3>1 DEF Created
      <3>4. next = next' - 1
        BY <3>1, <3>3
      <3>5. \A d \in Clients : tmp[d] \in Int /\ fd[d] \in Int /\ path \in Int
        BY InodesPositive
      <3> QED
        BY <3>1, <3>2, <3>3, <3>4, <3>5 DEF Created
    <2>13. CASE SetFails(c)
      BY <2>13, InodesPositive DEF SetFails, Created, fileVars, lockVars, clockVars, handleVars
    <2>14. CASE Rename(c)
      BY <2>14, InodesPositive DEF Rename, Created, fileVars, lockVars, clockVars, handleVars
    <2>15. CASE UpdateStamp(c)
      BY <2>15, InodesPositive DEF UpdateStamp, Created, fileVars, lockVars, clockVars, handleVars
    <2>16. CASE TouchOld(c)
      BY <2>16, InodesPositive DEF TouchOld, Created, fileVars, lockVars, clockVars, handleVars
    <2>17. CASE Unlock(c)
      BY <2>17, InodesPositive DEF Unlock, Created, fileVars, lockVars, clockVars, handleVars
    <2>18. CASE Remove(c)
      BY <2>18, InodesPositive DEF Remove, Created, fileVars, lockVars, clockVars, handleVars
    <2>19. CASE Error(c)
      BY <2>19, InodesPositive DEF Error, Created, fileVars, lockVars, clockVars, handleVars
    <2>20. CASE ErrorUnlink(c)
      BY <2>20, InodesPositive DEF ErrorUnlink, Created, fileVars, lockVars, clockVars, handleVars
    <2> QED
      BY <1>1, <2>1, <2>2, <2>3, <2>4, <2>5, <2>6, <2>7, <2>8, <2>9, <2>10, <2>11, <2>12, <2>13,
         <2>14, <2>15, <2>16, <2>17, <2>18, <2>19, <2>20 DEF NextOf
  <1>2. CASE \E p \in Procs : Crash(p)
    BY <1>2, InodesPositive DEF Crash, Fresh, Created, fileVars, lockVars, clockVars, handleVars
  <1>3. CASE Tick
    BY <1>3, InodesPositive DEF Tick, Created, fileVars, lockVars, clockVars, handleVars
  <1>4. CASE UNCHANGED vars
    BY <1>4, InodesPositive DEF vars, Created, fileVars, lockVars, clockVars, handleVars
  <1> QED
    BY <1>1, <1>2, <1>3, <1>4, NextSplit

LEMMA CreationStep ==
    ASSUME TypeOK, FilesExist, HandleAtRest, Created, ExclusiveCreation, [Next]_vars
    PROVE  ExclusiveCreation'
  <1> USE DEF TypeOK, FilesExist, HasFile, HasTmp, Opened, HoldsLock, Nothing, Closed, Removing, HandleAtRest, Created
  <1>1. ASSUME NEW c \in Clients, NextOf(c) PROVE ExclusiveCreation'
    <2>1. CASE GetResolve(c)
      BY <2>1, InodesPositive DEF GetResolve, ExclusiveCreation, fileVars, lockVars, clockVars,
         handleVars
    <2>2. CASE OpenFile(c)
      <3>1. written' = written /\ isMissing' = isMissing /\ \A d \in Clients \ {c} : fd'[d] = fd[d]
        BY <2>2 DEF OpenFile, GiveUp, fileVars
      <3>2. CASE fd'[c] = next
        BY <3>1, <3>2, InodesPositive DEF ExclusiveCreation
      <3>3. CASE fd'[c] = Closed
        BY <3>1, <3>3, InodesPositive DEF ExclusiveCreation
      <3>4. CASE ~isMissing[c]
        BY <3>1, <3>4 DEF ExclusiveCreation
      <3> QED
        BY <2>2, <3>2, <3>3, <3>4 DEF OpenFile, OpenConflict, GiveUp
    <2>3. CASE PrepareRemoval(c)
      BY <2>3, InodesPositive DEF PrepareRemoval, ExclusiveCreation, fileVars, lockVars,
         clockVars, handleVars
    <2>4. CASE Reopen(c)
      BY <2>4, InodesPositive DEF Reopen, Fresh, ExclusiveCreation, fileVars, lockVars, clockVars,
         handleVars
    <2>5. CASE GetStorage(c)
      BY <2>5, InodesPositive DEF GetStorage, ExclusiveCreation, fileVars, lockVars, clockVars,
         handleVars
    <2>6. CASE GetStorageFails(c)
      BY <2>6, InodesPositive DEF GetStorageFails, ExclusiveCreation, fileVars, lockVars,
         clockVars, handleVars
    <2>7. CASE MkdirParents(c)
      BY <2>7, InodesPositive DEF MkdirParents, ExclusiveCreation, fileVars, lockVars, clockVars,
         handleVars
    <2>8. CASE CreateFile(c)
      BY <2>8, InodesPositive DEF CreateFile, NewInode, ExclusiveCreation, fileVars, lockVars,
         clockVars, handleVars
    <2>9. CASE LockMutex(c)
      BY <2>9, InodesPositive DEF LockMutex, MutexTaken, GiveUp, ExclusiveCreation, fileVars,
         lockVars, clockVars, handleVars
    <2>10. CASE LockFile(c)
      BY <2>10, InodesPositive DEF LockFile, LockTaken, GiveUp, ExclusiveCreation, fileVars,
         lockVars, clockVars, handleVars
    <2>11. CASE CheckConflict(c)
      BY <2>11, InodesPositive DEF CheckConflict, Conflict, GiveUp, ExclusiveCreation, fileVars,
         lockVars, clockVars, handleVars
    <2>12. CASE SetStorage(c)
      BY <2>12, InodesPositive DEF SetStorage, NewInode, ExclusiveCreation, fileVars, lockVars,
         clockVars, handleVars
    <2>13. CASE SetFails(c)
      BY <2>13, InodesPositive DEF SetFails, ExclusiveCreation, fileVars, lockVars, clockVars,
         handleVars
    <2>14. CASE Rename(c)
      BY <2>14, InodesPositive DEF Rename, ExclusiveCreation, fileVars, lockVars, clockVars,
         handleVars
    <2>15. CASE UpdateStamp(c)
      BY <2>15, InodesPositive DEF UpdateStamp, ExclusiveCreation, fileVars, lockVars, clockVars,
         handleVars
    <2>16. CASE TouchOld(c)
      BY <2>16, InodesPositive DEF TouchOld, ExclusiveCreation, fileVars, lockVars, clockVars,
         handleVars
    <2>17. CASE Unlock(c)
      BY <2>17, InodesPositive DEF Unlock, ExclusiveCreation, fileVars, lockVars, clockVars,
         handleVars
    <2>18. CASE Remove(c)
      BY <2>18, InodesPositive DEF Remove, ExclusiveCreation, fileVars, lockVars, clockVars,
         handleVars
    <2>19. CASE Error(c)
      BY <2>19, InodesPositive DEF Error, ExclusiveCreation, fileVars, lockVars, clockVars,
         handleVars
    <2>20. CASE ErrorUnlink(c)
      BY <2>20, InodesPositive DEF ErrorUnlink, ExclusiveCreation, fileVars, lockVars, clockVars,
         handleVars
    <2> QED
      BY <1>1, <2>1, <2>2, <2>3, <2>4, <2>5, <2>6, <2>7, <2>8, <2>9, <2>10, <2>11, <2>12, <2>13,
         <2>14, <2>15, <2>16, <2>17, <2>18, <2>19, <2>20 DEF NextOf
  <1>2. CASE \E p \in Procs : Crash(p)
    BY <1>2, InodesPositive DEF Crash, Fresh, ExclusiveCreation, fileVars, lockVars, clockVars,
       handleVars
  <1>3. CASE Tick
    BY <1>3, InodesPositive DEF Tick, ExclusiveCreation, fileVars, lockVars, clockVars, handleVars
  <1>4. CASE UNCHANGED vars
    BY <1>4, InodesPositive DEF vars, ExclusiveCreation, fileVars, lockVars, clockVars, handleVars
  <1> QED
    BY <1>1, <1>2, <1>3, <1>4, NextSplit

LEMMA LoneStep ==
    ASSUME OneClient, Faults = {}, ~Removal, ~WholeSeconds, LockInvariant, Lone, [Next]_vars
    PROVE  Lone'
  <1> USE DEF TypeOK, FilesExist, HasFile, HasTmp, Opened, HoldsLock, Nothing, Closed, Removing, HandleAtRest, Checked
  <1>1. ASSUME NEW c \in Clients, NextOf(c) PROVE Lone'
    <2>1. CASE GetResolve(c)
      <3>1. /\ isMissing' = [isMissing EXCEPT ![c] = (path = Nothing)]
            /\ UNCHANGED <<path, dir, mtime, next, tmp, fd, base>>
        BY <2>1 DEF GetResolve, fileVars
      <3>2. isMissing'[c] <=> path = Nothing
        BY <3>1, Zenon DEF LockInvariant
      <3>3. pc'[c] \in {"idle", "getStorage"} /\ (path # Nothing => stamp'[c] = mtime[path])
        BY <2>1 DEF GetResolve, LockInvariant
      <3>4. Alone(c)'
        BY <3>1, <3>2, <3>3 DEF Alone, Known, Lone
      <3> QED
        BY <3>4 DEF Lone, OneClient
    <2>2. CASE OpenFile(c)
      BY <2>2, InodesPositive, ProcOfType, ClientsAssumption DEF OpenFile, OpenConflict, GiveUp,
         NewInode, Lone, OneClient, Alone, Known, LockInvariant, fileVars, lockVars, clockVars,
         handleVars
    <2>3. CASE PrepareRemoval(c)
      BY <2>3, InodesPositive, ProcOfType, ClientsAssumption DEF PrepareRemoval, Lone, OneClient,
         Alone, Known, LockInvariant, fileVars, lockVars, clockVars, handleVars
    <2>4. CASE Reopen(c)
      BY <2>4, InodesPositive, ProcOfType, ClientsAssumption DEF Reopen, Fresh, Lone, OneClient,
         Alone, Known, LockInvariant, fileVars, lockVars, clockVars, handleVars
    <2>5. CASE GetStorage(c)
      BY <2>5, InodesPositive, ProcOfType, ClientsAssumption DEF GetStorage, Lone, OneClient,
         Alone, Known, LockInvariant, fileVars, lockVars, clockVars, handleVars
    <2>6. CASE GetStorageFails(c)
      BY <2>6, InodesPositive, ProcOfType, ClientsAssumption DEF GetStorageFails, Lone, OneClient,
         Alone, Known, LockInvariant, fileVars, lockVars, clockVars, handleVars
    <2>7. CASE MkdirParents(c)
      BY <2>7, InodesPositive, ProcOfType, ClientsAssumption DEF MkdirParents, Lone, OneClient,
         Alone, Known, LockInvariant, fileVars, lockVars, clockVars, handleVars
    <2>8. CASE CreateFile(c)
      <3>1. isMissing[c] /\ path = Nothing
        BY <2>8 DEF CreateFile, Lone, Alone
      <3>2. /\ path' = next /\ next' = next + 1 /\ fd'[c] = next /\ pc'[c] = "lockMutex"
            /\ next \in Inodes /\ UNCHANGED <<isMissing, tmp, dir>>
        BY <2>8, <3>1 DEF CreateFile, NewInode, LockInvariant
      <3>3. dir
        BY <2>8 DEF CreateFile, Lone, Alone
      <3>4. Alone(c)'
        BY <3>1, <3>2, <3>3, InodesPositive DEF Alone, Known, Lone, LockInvariant
      <3> QED
        BY <3>4 DEF Lone, OneClient
    <2>9. CASE LockMutex(c)
      <3>1. ~MutexTaken(c)
        <4>1. mutex[ProcOf[c]] # c
          BY <2>9 DEF LockMutex, LockInvariant, MutexExact, HoldsMutex
        <4> QED
          BY <4>1, ProcOfType DEF MutexTaken, LockInvariant, OneClient
      <3>2. pc'[c] = "lockFile" /\ UNCHANGED <<path, dir, mtime, next, tmp, fd, stamp, isMissing>>
        BY <2>9, <3>1 DEF LockMutex, LockInvariant, fileVars
      <3>3. Alone(c)'
        BY <2>9, <3>2 DEF LockMutex, Alone, Known, Lone
      <3> QED
        BY <3>3 DEF Lone, OneClient
    <2>10. CASE LockFile(c)
      <3>1. ~LockTaken(c)
        BY <2>10, ProcOfType DEF LockFile, LockTaken, LockInvariant, LocksExplained, OneClient
      <3>2. pc'[c] = "checkConflict" /\ UNCHANGED <<path, dir, mtime, next, tmp, fd, stamp, isMissing>>
        BY <2>10, <3>1 DEF LockFile, LockInvariant, fileVars
      <3>3. Alone(c)'
        BY <2>10, <3>2 DEF LockFile, Alone, Known, Lone
      <3> QED
        BY <3>3 DEF Lone, OneClient
    <2>11. CASE CheckConflict(c)
      BY <2>11, InodesPositive, ProcOfType, ClientsAssumption DEF CheckConflict, Conflict, GiveUp,
         Lone, OneClient, Alone, Known, LockInvariant, fileVars, lockVars, clockVars, handleVars
    <2>12. CASE SetStorage(c)
      <3>1. /\ pc[c] = "storage" /\ pc'[c] = "commit" /\ next' = next + 1 /\ tmp'[c] = next
            /\ next \in Inodes /\ mtime' = [mtime EXCEPT ![next] = Stored(Now)]
            /\ UNCHANGED <<path, dir, fd, stamp, isMissing>>
        BY <2>12 DEF SetStorage, NewInode, LockInvariant, handleVars
      <3>2. path \in Inodes /\ path # next
        BY <3>1, InodesPositive DEF Lone, Alone, Known, LockInvariant
      <3>3. mtime'[path] = mtime[path]
        BY <3>1, <3>2 DEF LockInvariant
      <3>4. Alone(c)'
        BY <3>1, <3>2, <3>3, InodesPositive DEF Alone, Known, Lone, LockInvariant
      <3> QED
        BY <3>4 DEF Lone, OneClient
    <2>13. CASE SetFails(c)
      BY <2>13, InodesPositive, ProcOfType, ClientsAssumption DEF SetFails, Lone, OneClient,
         Alone, Known, LockInvariant, fileVars, lockVars, clockVars, handleVars
    <2>14. CASE Rename(c)
      BY <2>14, InodesPositive, ProcOfType, ClientsAssumption DEF Rename, Lone, OneClient, Alone, Known,
         LockInvariant, fileVars, lockVars, clockVars, handleVars
    <2>15. CASE UpdateStamp(c)
      <3>1. /\ pc[c] = "stamp" /\ pc'[c] = "touchOld" /\ path = tmp[c] /\ base[c] = tmp[c]
            /\ UNCHANGED <<path, dir, next, tmp, base>>
        BY <2>15 DEF UpdateStamp, Lone, Alone, LockInvariant
      <3>2. tmp[c] \in Inodes
        BY <3>1 DEF LockInvariant
      <3>3. stamp'[c] \in {mtime'[tmp[c]], NoTime}
        <4>1. CASE stamp[c] # mtime[tmp[c]]
          BY <2>15, <4>1 DEF UpdateStamp, LockInvariant
        <4>2. CASE stamp[c] = mtime[tmp[c]]
          <5>1. UpdateFileTime(tmp[c], stamp'[c])
            BY <2>15, <4>2 DEF UpdateStamp
          <5>2. CASE stamp'[c] # NoTime
            BY <3>2, <5>1, <5>2, StoredExact DEF UpdateFileTime, LockInvariant
          <5> QED
            BY <5>2
        <4> QED
          BY <4>1, <4>2
      <3>4. Alone(c)'
        BY <3>1, <3>3 DEF Alone, Known, Lone
      <3> QED
        BY <3>4 DEF Lone, OneClient
    <2>16. CASE TouchOld(c)
      <3>1. /\ pc[c] = "touchOld" /\ pc'[c] = "unlock" /\ path = tmp[c] /\ base[c] = tmp[c]
            /\ stamp[c] \in {mtime[path], NoTime} /\ ~isMissing'[c]
            /\ UpdateFileTime(fd[c], stamp[c]) /\ UNCHANGED <<path, dir, next, tmp, base, stamp>>
        BY <2>16 DEF TouchOld, Lone, Alone, Known, LockInvariant
      <3>2. tmp[c] \in Inodes
        BY <3>1 DEF LockInvariant
      <3>3. stamp[c] \in {mtime'[path], NoTime}
        BY <3>1, <3>2, StoredExact DEF UpdateFileTime, LockInvariant
      <3>4. Alone(c)'
        BY <3>1, <3>3 DEF Alone, Known, Lone
      <3> QED
        BY <3>4 DEF Lone, OneClient
    <2>17. CASE Unlock(c)
      BY <2>17, InodesPositive, ProcOfType, ClientsAssumption DEF Unlock, Lone, OneClient, Alone, Known,
         LockInvariant, fileVars, lockVars, clockVars, handleVars
    <2>18. CASE Remove(c)
      BY <2>18, InodesPositive, ProcOfType, ClientsAssumption DEF Remove, Lone, OneClient, Alone, Known,
         LockInvariant, fileVars, lockVars, clockVars, handleVars
    <2>19. CASE Error(c)
      BY <2>19, InodesPositive, ProcOfType, ClientsAssumption DEF Error, Lone, OneClient, Alone, Known,
         LockInvariant, fileVars, lockVars, clockVars, handleVars
    <2>20. CASE ErrorUnlink(c)
      BY <2>20, InodesPositive, ProcOfType, ClientsAssumption DEF ErrorUnlink, Lone, OneClient,
         Alone, Known, LockInvariant, fileVars, lockVars, clockVars, handleVars
    <2> QED
      BY <1>1, <2>1, <2>2, <2>3, <2>4, <2>5, <2>6, <2>7, <2>8, <2>9, <2>10, <2>11, <2>12, <2>13,
         <2>14, <2>15, <2>16, <2>17, <2>18, <2>19, <2>20 DEF NextOf
  <1>2. CASE \E p \in Procs : Crash(p)
    BY <1>2, InodesPositive, ProcOfType, ClientsAssumption DEF Crash, Fresh, Lone, OneClient,
       Alone, Known, LockInvariant, fileVars, lockVars, clockVars, handleVars
  <1>3. CASE Tick
    BY <1>3, InodesPositive, ProcOfType, ClientsAssumption DEF Tick, Lone, OneClient, Alone, Known,
       LockInvariant, fileVars, lockVars, clockVars, handleVars
  <1>4. CASE UNCHANGED vars
    BY <1>4, InodesPositive, ProcOfType, ClientsAssumption DEF vars, Lone, OneClient, Alone, Known,
       LockInvariant, fileVars, lockVars, clockVars, handleVars
  <1> QED
    BY <1>1, <1>2, <1>3, <1>4, NextSplit

LEMMA LockInit == Init => LockInvariant
  <1> SUFFICES ASSUME Init PROVE LockInvariant
    OBVIOUS
  <1>1. TypeOK /\ FilesExist
    BY TypeInit
  <1>2. HandleAtRest
    BY DEF Init, HandleAtRest
  <1>3. MutexExact
    BY ProcOfType, ClientsAssumption DEF Init, MutexExact, HoldsMutex, HoldsLock
  <1>4. LocksExplained
    BY DEF Init, LocksExplained
  <1> QED
    BY <1>1, <1>2, <1>3, <1>4 DEF LockInvariant

LEMMA LockStep == LockInvariant /\ [Next]_vars => LockInvariant'
  BY TypeStep, AtRestStep, MutexStep, ExplainedStep DEF LockInvariant

\* Every path out of kdbSet() gives back what it took, in any environment: several
\* threads in a process, faults of every kind, files and directories that come and
\* go.
THEOREM LocksGivenBack == Spec => []LocksAccounted
  <1>1. LockInvariant => LocksAccounted
    <2> SUFFICES ASSUME LockInvariant PROVE LocksAccounted
      OBVIOUS
    <2> USE DEF LockInvariant
    <2>1. ASSUME NEW c \in Clients, pc[c] \in {"new", "idle"}
          PROVE  fd[c] = Closed /\ tmp[c] = Nothing /\ mutex[ProcOf[c]] # c
      BY <2>1 DEF HandleAtRest, MutexExact, HoldsMutex, HoldsLock, HasTmp
    <2>2. ASSUME NEW i \in Inodes, locks[i] # NoProc
          PROVE  \E c \in Clients : /\ ProcOf[c] = locks[i]
                                   /\ i \in {fd[c], tmp[c]}
                                   /\ (Writing(c) \/ pc[c] \in {"checkConflict", "error"})
      BY <2>2 DEF LocksExplained, Explains, HoldsLock, Writing
    <2> QED
      BY <2>1, <2>2 DEF LocksAccounted
  <1> QED
    BY <1>1, LockInit, LockStep, PTL DEF Spec

\* No two clients are between the conflict check and the unlock with the same file:
\* the mutex is enough for the threads of one process, the lock of the file for
\* processes with one handle each.  (Several processes with several threads each
\* are not covered, and not safe: a thread that closes the file drops the lock of
\* its process.)
THEOREM WritersExclusive ==
    ASSUME OneProcess \/ OneHandleEach
    PROVE  Spec => []ExclusiveWriters
  <1>1. Init => (OneHandleEach => FileLocked)
    BY DEF Init, FileLocked, HoldsLock
  <1>2. LockInvariant /\ (OneHandleEach => FileLocked) /\ [Next]_vars
          => (OneHandleEach => FileLocked)'
    BY FileLockedStep DEF LockInvariant
  <1>3. LockInvariant /\ (OneHandleEach => FileLocked) => ExclusiveWriters
    <2> SUFFICES ASSUME LockInvariant, OneHandleEach => FileLocked,
                        NEW c \in Clients, NEW d \in Clients,
                        Writing(c), Writing(d), fd[c] = fd[d]
                 PROVE  c = d
      BY DEF ExclusiveWriters
    <2>1. CASE OneProcess
      <3>1. mutex[ProcOf[c]] = c /\ mutex[ProcOf[d]] = d
        BY DEF LockInvariant, MutexExact, HoldsMutex, HoldsLock, Writing
      <3> QED
        BY <2>1, <3>1 DEF OneProcess
    <2>2. CASE OneHandleEach
      <3>1. locks[fd[c]] = ProcOf[c] /\ locks[fd[d]] = ProcOf[d]
        BY <2>2 DEF FileLocked, HoldsLock, Writing
      <3> QED
        BY <2>2, <3>1 DEF OneHandleEach
    <2> QED
      BY <2>1, <2>2
  <1> QED
    BY <1>1, <1>2, <1>3, LockInit, LockStep, PTL DEF Spec

\* elektraOpenFile's "it must be created newly": with the directory in place, what a
\* client that found no file writes under is a file of its own, for any number of
\* clients, faults and removals.
THEOREM CreationExclusive ==
    ASSUME InitialDir
    PROVE  Spec => []ExclusiveCreation
  <1>1. Init => Created /\ ExclusiveCreation
    BY InodesPositive DEF Init, Created, ExclusiveCreation, Closed, Nothing
  <1>2. LockInvariant /\ Created /\ ExclusiveCreation /\ [Next]_vars
          => (Created /\ ExclusiveCreation)'
    BY CreatedStep, CreationStep DEF LockInvariant
  <1> QED
    BY <1>1, <1>2, LockInit, LockStep, PTL DEF Spec

\* Without faults a kdbSet() after a kdbGet() never fails if there is nobody to be in
\* conflict with, with the coarsest clock and whether or not file and directory exist.
THEOREM LoneClientNeverFails ==
    ASSUME IsFiniteSet(Clients), Faults = {}, ~Removal, ~WholeSeconds
    PROVE  Spec => []LoneClientSucceeds
  <1>1. CASE Cardinality(Clients) = 1
    <2>1. OneClient
      BY <1>1, FS_Singleton DEF OneClient
    <2>2. Init => Lone
      BY BoundsAssumption, FlagsAssumption DEF Init, Lone, Alone, Opened, Checked, Nothing
    <2>3. LockInvariant /\ Lone /\ [Next]_vars => Lone'
      BY <2>1, LoneStep
    <2>4. Lone => LoneClientSucceeds
      BY DEF Lone, Alone, LoneClientSucceeds
    <2> QED
      BY <2>2, <2>3, <2>4, LockInit, LockStep, PTL DEF Spec
  <1>2. CASE Cardinality(Clients) # 1
    <2>1. LoneClientSucceeds
      BY <1>2 DEF LoneClientSucceeds
    <2> QED
      BY <2>1, PTL
  <1> QED
    BY <1>1, <1>2
=============================================================================
