------------------------------ MODULE Resolver ------------------------------
(***************************************************************************)
(* The file resolver: src/plugins/resolver/resolver.c in its default       *)
(* variant (fcntl lock and process-wide mutex), as kdbGet() and kdbSet()   *)
(* drive it for one configuration file.                                    *)
(*                                                                         *)
(* A client is one KDB handle, used by one thread of a process.  kdbGet()  *)
(* stats the file and lets the storage plugin read it when the time stamp  *)
(* differs from the remembered one.  kdbSet() is optimistic: it opens the  *)
(* file, takes both locks without waiting, compares time stamps, lets the  *)
(* storage plugin write a temporary file and renames it over the original. *)
(* Every step below is one system call that another process can observe.   *)
(*                                                                         *)
(* The inode number stands for the configuration stored in it: a temporary *)
(* file is written once and then only renamed.  `written' holds the inodes *)
(* with a complete configuration, the others are empty placeholders.       *)
(***************************************************************************)
EXTENDS Integers, FiniteSets

CONSTANTS
    Clients,      \* KDB handles
    Procs,        \* processes
    ProcOf,       \* the process a client's thread belongs to
    MaxSets,      \* bound on the kdbSet() calls of a behaviour
    MaxClock,     \* bound on the ticks of the file system's clock
    FineClock,    \* TRUE: every file gets a time stamp of its own
    Second,       \* the units of time in a second (nanoseconds in the code)
    WholeSeconds, \* TRUE: the file system stores seconds only
    Uptime,       \* CLOCK_MONOTONIC at the start
    InitialFile,  \* TRUE: the file exists at the start
    InitialDir,   \* TRUE: its directory exists at the start
    Removal,      \* TRUE: clients may store an empty key set
    Faults,       \* which failures may happen
    NoProc, NoClient,
    NoTime        \* nanoseconds out of range: not the time of any file

FaultKinds == {"crash", "crashInCommit", "storageGet", "storageSet", "rename"}

ASSUME ClientsAssumption == NoClient \notin Clients /\ NoProc \notin Procs
ASSUME ProcOfAssumption  == ProcOf \in [Clients -> Procs]
ASSUME BoundsAssumption  == MaxSets \in Nat /\ MaxClock \in Nat \ {0}
ASSUME FlagsAssumption   ==
    /\ {FineClock, InitialFile, InitialDir, Removal} \subseteq BOOLEAN
    /\ InitialFile => InitialDir
    /\ Faults \subseteq FaultKinds
ASSUME ClockAssumption   ==
    /\ Second \in Nat \ {0, 1} /\ Uptime \in Int /\ NoTime \notin Int
    /\ WholeSeconds \in BOOLEAN /\ FineClock => ~WholeSeconds

\* Every kdbSet() creates at most a placeholder and a temporary file.
MaxInodes == 2 * MaxSets + 1
Inodes    == 1 .. MaxInodes
Nothing   == 0            \* no inode; no configuration
Closed    == -1           \* resolverHandle.fd when no kdbSet() is under way
Removing  == -2           \* resolverHandle.fd when the file is to be removed

VARIABLES
    path,           \* the inode the configuration file's name refers to
    dir,            \* does the directory of the file exist?
    written,        \* the inodes that hold a complete configuration
    mtime,          \* modification time of every inode
    locks,          \* fcntl write lock of every inode: the owning process
    mutex,          \* elektraResolverMutex of every process: the owning thread
    clock, mono,    \* file system clock; the last reading of CLOCK_MONOTONIC
    next,           \* next unused inode
    sets,           \* number of kdbSet() calls so far
    pc,             \* what a client does next
    fd, stamp, isMissing, removalNeeded, timeFix,   \* its resolverHandle
    tmp,            \* its temporary file (local fd of elektraSetCommit)
    base            \* the configuration its key set was loaded from or stored as

fileVars   == <<path, dir, written, mtime, next>>
lockVars   == <<locks, mutex>>
clockVars  == <<clock, mono, timeFix>>
handleVars == <<fd, stamp, isMissing, removalNeeded>>
vars == <<fileVars, lockVars, clockVars, handleVars, sets, pc, tmp, base>>

Labels == {"new", "idle", "getStorage", "mkdir", "create", "lockMutex", "lockFile",
           "checkConflict", "storage", "commit", "stamp", "touchOld", "unlock",
           "remove", "error", "errorUnlink"}

TypeOK ==
    /\ path \in Inodes \union {Nothing}
    /\ dir \in BOOLEAN
    /\ written \subseteq Inodes
    /\ mtime \in [Inodes -> Int]
    /\ locks \in [Inodes -> Procs \union {NoProc}]
    /\ mutex \in [Procs -> Clients \union {NoClient}]
    /\ clock \in Nat /\ mono \in Int /\ timeFix \in [Clients -> {-1, 1}] /\ next \in Nat \ {0} /\ sets \in Nat
    /\ pc \in [Clients -> Labels]
    /\ fd \in [Clients -> Inodes \union {Closed, Removing}]
    /\ stamp \in [Clients -> Int \union {NoTime}]
    /\ isMissing \in [Clients -> BOOLEAN]
    /\ removalNeeded \in [Clients -> BOOLEAN]
    /\ tmp \in [Clients -> Inodes \union {Nothing}]
    /\ base \in [Clients -> Inodes \union {Nothing}]

-----------------------------------------------------------------------------
(***************************************************************************)
(* The operating system.                                                   *)
(***************************************************************************)

\* A file that is created or written now is stamped with the coarse clock of
\* the file system.
Now == IF FineClock THEN clock + 1 ELSE clock

\* What the file system keeps of a time.
Stored(t) == IF WholeSeconds THEN Second * (t \div Second) ELSE t

\* The next unused inode i appears, stamped with the current time.
NewInode(i) ==
    /\ i = next /\ i \in Inodes
    /\ next'  = next + 1
    /\ mtime' = [mtime EXCEPT ![i] = Stored(Now)]
    /\ clock' = Now

ReleasedNever(inodes, c) == locks

\* fcntl locks belong to the process: unlocking, and closing any descriptor
\* of the inode, drops the lock of the whole process.
Released(inodes, c) ==
    [i \in Inodes |-> IF i \in inodes /\ locks[i] = ProcOf[c] THEN NoProc ELSE locks[i]]

Tick ==
    /\ ~FineClock /\ clock < Second + MaxClock
    /\ clock' = clock + 1
    /\ UNCHANGED <<fileVars, lockVars, mono, timeFix, handleVars, sets, pc, tmp, base>>

-----------------------------------------------------------------------------
(***************************************************************************)
(* kdbOpen(), kdbClose() and the end of a process.                         *)
(***************************************************************************)

\* resolverInit: what a handle holds before the first kdbGet().
Fresh(cs) ==
    /\ pc'            = [c \in Clients |-> IF c \in cs THEN "new" ELSE pc[c]]
    /\ fd'            = [c \in Clients |-> IF c \in cs THEN Closed ELSE fd[c]]
    /\ stamp'         = [c \in Clients |-> IF c \in cs THEN 0 ELSE stamp[c]]
    /\ isMissing'     = [c \in Clients |-> IF c \in cs THEN FALSE ELSE isMissing[c]]
    /\ removalNeeded' = [c \in Clients |-> IF c \in cs THEN FALSE ELSE removalNeeded[c]]
    /\ timeFix'       = [c \in Clients |-> IF c \in cs THEN 1 ELSE timeFix[c]]
    /\ tmp'           = [c \in Clients |-> IF c \in cs THEN Nothing ELSE tmp[c]]
    /\ base'          = [c \in Clients |-> IF c \in cs THEN Nothing ELSE base[c]]

Init ==
    /\ path    = IF InitialFile THEN 1 ELSE Nothing
    /\ dir     = InitialDir
    /\ written = IF InitialFile THEN {1} ELSE {}
    /\ mtime   = [i \in Inodes |-> Second]
    /\ locks   = [i \in Inodes |-> NoProc]
    /\ mutex   = [p \in Procs |-> NoClient]
    /\ clock   = Second /\ mono = Uptime /\ sets = 0
    /\ next    = IF InitialFile THEN 2 ELSE 1
    /\ pc      = [c \in Clients |-> "new"]
    /\ fd      = [c \in Clients |-> Closed]
    /\ stamp   = [c \in Clients |-> 0]
    /\ isMissing     = [c \in Clients |-> FALSE]
    /\ removalNeeded = [c \in Clients |-> FALSE]
    /\ timeFix = [c \in Clients |-> 1]
    /\ tmp     = [c \in Clients |-> Nothing]
    /\ base    = [c \in Clients |-> Nothing]

\* kdbClose() and kdbOpen() again.
Reopen(c) ==
    /\ pc[c] = "idle"
    /\ Fresh({c})
    /\ UNCHANGED <<fileVars, lockVars, clock, mono, sets>>

\* The process dies: the kernel closes its files and drops its locks, a
\* placeholder and a temporary file stay behind.
Crash(p) ==
    LET dead == {c \in Clients : ProcOf[c] = p}
    IN  /\ "crash" \in Faults
        /\ \E c \in dead : pc[c] # "new"
        /\ (\E c \in dead : pc[c] \in {"stamp", "touchOld"}) => "crashInCommit" \in Faults
        /\ locks' = [i \in Inodes |-> IF locks[i] = p THEN NoProc ELSE locks[i]]
        /\ mutex' = [mutex EXCEPT ![p] = NoClient]
        /\ Fresh(dead)
        /\ UNCHANGED <<fileVars, clock, mono, sets>>

-----------------------------------------------------------------------------
(***************************************************************************)
(* kdbGet(): the resolver's get function, then the storage plugin.         *)
(***************************************************************************)

GetResolve(c) ==
    /\ pc[c] \in {"new", "idle"}
    /\ isMissing' = [isMissing EXCEPT ![c] = (path = Nothing)]
    /\ IF path = Nothing
         THEN stamp' = [stamp EXCEPT ![c] = 0] /\ pc' = [pc EXCEPT ![c] = "idle"]
         ELSE /\ stamp' = [stamp EXCEPT ![c] = mtime[path]]
              /\ pc' = [pc EXCEPT ![c] = IF stamp[c] = mtime[path] THEN "idle" ELSE "getStorage"]
    /\ UNCHANGED <<fileVars, lockVars, clockVars, fd, removalNeeded, sets, tmp, base>>

\* The storage plugin opens, reads and closes whatever the name refers to by
\* now; a file that is gone is an error, and the key set stays as it was.
GetStorage(c) ==
    /\ pc[c] = "getStorage"
    /\ base'  = [base EXCEPT ![c] = IF path = Nothing THEN @
                                    ELSE IF path \in written THEN path ELSE Nothing]
    /\ locks' = Released({path}, c)
    /\ pc'    = [pc EXCEPT ![c] = "idle"]
    /\ UNCHANGED <<fileVars, mutex, clockVars, handleVars, sets, tmp>>

\* The storage plugin, or another plugin of the get phases, fails.
GetStorageFails(c) ==
    /\ "storageGet" \in Faults
    /\ pc[c] = "getStorage"
    /\ pc' = [pc EXCEPT ![c] = "idle"]
    /\ UNCHANGED <<fileVars, lockVars, clockVars, handleVars, sets, tmp, base>>

-----------------------------------------------------------------------------
(***************************************************************************)
(* kdbSet(), resolver phase: elektraSetPrepare.                            *)
(***************************************************************************)

\* A resolver phase that failed closes what it opened and kdbSet() rolls back.
GiveUp(c) ==
    /\ fd' = [fd EXCEPT ![c] = Closed]
    /\ pc' = [pc EXCEPT ![c] = "error"]

\* A file where kdbGet() found none (EEXIST of O_EXCL), or none where it found
\* one (ENOENT).
OpenWithoutExcl(c) == ~isMissing[c] /\ path = Nothing
OpenConflict(c) == isMissing[c] # (path = Nothing)

\* elektraOpenFile: the file is created newly if kdbGet() found it missing.
OpenFile(c) ==
    /\ pc[c] = "idle" /\ sets < MaxSets
    /\ sets' = sets + 1
    /\ \/ /\ isMissing[c] /\ path = Nothing /\ dir
          /\ NewInode(next)
          /\ path' = next
          /\ fd' = [fd EXCEPT ![c] = next]
          /\ removalNeeded' = [removalNeeded EXCEPT ![c] = TRUE]
          /\ pc' = [pc EXCEPT ![c] = "lockMutex"]
          /\ UNCHANGED <<dir, written, mono, timeFix>>
       \/ /\ isMissing[c] /\ ~dir
          /\ removalNeeded' = [removalNeeded EXCEPT ![c] = FALSE]
          /\ pc' = [pc EXCEPT ![c] = "mkdir"]
          /\ UNCHANGED <<fileVars, clockVars, fd>>
       \/ /\ OpenConflict(c)
          /\ removalNeeded' = [removalNeeded EXCEPT ![c] = FALSE]
          /\ GiveUp(c)
          /\ UNCHANGED <<fileVars, clockVars>>
       \/ /\ ~OpenConflict(c) /\ path # Nothing
          /\ removalNeeded' = [removalNeeded EXCEPT ![c] = FALSE]
          /\ fd' = [fd EXCEPT ![c] = path]
          /\ pc' = [pc EXCEPT ![c] = "lockMutex"]
          /\ UNCHANGED <<fileVars, clockVars>>
    /\ UNCHANGED <<lockVars, stamp, isMissing, tmp, base>>

\* elektraMkdirParents
MkdirParents(c) ==
    /\ pc[c] = "mkdir"
    /\ dir' = TRUE
    /\ pc' = [pc EXCEPT ![c] = "create"]
    /\ UNCHANGED <<path, written, mtime, next, lockVars, clockVars, handleVars, sets, tmp, base>>

\* elektraCreateFile: opens a file that exists by now without complaint.
CreateFile(c) ==
    /\ pc[c] = "create"
    /\ \/ /\ path = Nothing
          /\ NewInode(next)
          /\ path' = next
       \/ /\ path # Nothing
          /\ UNCHANGED <<path, mtime, next, clock>>
    /\ fd' = [fd EXCEPT ![c] = path']
    /\ removalNeeded' = [removalNeeded EXCEPT ![c] = TRUE]
    /\ pc' = [pc EXCEPT ![c] = "lockMutex"]
    /\ UNCHANGED <<dir, written, mono, timeFix, lockVars, stamp, isMissing, sets, tmp, base>>

MutexIgnored(c) == FALSE
MutexTaken(c)   == mutex[ProcOf[c]] # NoClient

\* elektraLockMutex: pthread_mutex_trylock
LockMutex(c) ==
    /\ pc[c] = "lockMutex"
    /\ \/ /\ ~MutexTaken(c)
          /\ mutex' = [mutex EXCEPT ![ProcOf[c]] = c]
          /\ pc' = [pc EXCEPT ![c] = "lockFile"]
          /\ UNCHANGED <<locks, fd>>
       \/ /\ MutexTaken(c)
          /\ locks' = Released({fd[c]}, c)
          /\ GiveUp(c)
          /\ UNCHANGED mutex
    /\ UNCHANGED <<fileVars, clockVars, stamp, isMissing, removalNeeded, sets, tmp, base>>

LockIgnored(c) == FALSE
LockTaken(c)   == locks[fd[c]] \notin {NoProc, ProcOf[c]}

\* elektraLockFile: fcntl with F_SETLK
LockFile(c) ==
    /\ pc[c] = "lockFile"
    /\ \/ /\ ~LockTaken(c)
          /\ locks' = [locks EXCEPT ![fd[c]] = ProcOf[c]]
          /\ pc' = [pc EXCEPT ![c] = "checkConflict"]
          /\ UNCHANGED <<mutex, fd>>
       \/ /\ LockTaken(c)
          /\ mutex' = [mutex EXCEPT ![ProcOf[c]] = NoClient]
          /\ GiveUp(c)
          /\ UNCHANGED locks
    /\ UNCHANGED <<fileVars, clockVars, stamp, isMissing, removalNeeded, sets, tmp, base>>

\* Whoever found no file is not checked: the conflict shows at creation time.
NeverConflict(c) == FALSE
Conflict(c)      == ~isMissing[c] /\ mtime[fd[c]] # stamp[c]

\* elektraCheckConflict
CheckConflict(c) ==
    /\ pc[c] = "checkConflict"
    /\ \/ /\ ~Conflict(c)
          /\ pc' = [pc EXCEPT ![c] = "storage"]
          /\ UNCHANGED <<lockVars, fd>>
       \/ /\ Conflict(c)
          /\ locks' = Released({fd[c]}, c)
          /\ mutex' = [mutex EXCEPT ![ProcOf[c]] = NoClient]
          /\ GiveUp(c)
    /\ UNCHANGED <<fileVars, clockVars, stamp, isMissing, removalNeeded, sets, tmp, base>>

\* An empty key set only marks the file for removal; the directory has to exist.
PrepareRemoval(c) ==
    /\ Removal
    /\ pc[c] = "idle" /\ sets < MaxSets
    /\ sets' = sets + 1
    /\ fd' = [fd EXCEPT ![c] = Removing]
    /\ pc' = [pc EXCEPT ![c] = IF dir THEN "remove" ELSE "error"]
    /\ UNCHANGED <<fileVars, lockVars, clockVars, stamp, isMissing, removalNeeded, tmp, base>>

-----------------------------------------------------------------------------
(***************************************************************************)
(* kdbSet(), storage and commit phase: elektraSetCommit.                   *)
(***************************************************************************)

\* The storage plugin writes the temporary file.
SetStorage(c) ==
    /\ pc[c] = "storage"
    /\ NewInode(next)
    /\ written' = written \union {next}
    /\ tmp' = [tmp EXCEPT ![c] = next]
    /\ pc' = [pc EXCEPT ![c] = "commit"]
    /\ UNCHANGED <<path, dir, mono, timeFix, lockVars, handleVars, sets, base>>

\* The storage plugin, or another plugin or backend before the commit, fails.
SetFails(c) ==
    /\ "storageSet" \in Faults
    /\ pc[c] \in {"storage", "commit", "remove"}
    /\ pc' = [pc EXCEPT ![c] = "error"]
    /\ UNCHANGED <<fileVars, lockVars, clockVars, handleVars, sets, tmp, base>>

\* open, lock and rename of the temporary file.  The result of the lock is
\* ignored; a failing rename does not end the function.
Rename(c) ==
    /\ pc[c] = "commit"
    /\ locks' = [locks EXCEPT ![tmp[c]] = IF @ = NoProc THEN ProcOf[c] ELSE @]
    /\ \/ path' = tmp[c] /\ base' = [base EXCEPT ![c] = tmp[c]]
       \/ "rename" \in Faults /\ UNCHANGED <<path, base>>
    /\ pc' = [pc EXCEPT ![c] = "stamp"]
    /\ UNCHANGED <<dir, written, mtime, next, mutex, clockVars, handleVars, sets, tmp>>

\* The new file gets the time stamp of the old one, like its mode and owner.
UpdateStampRestored(c) ==
    /\ pc[c] = "stamp"
    /\ mtime' = [mtime EXCEPT ![tmp[c]] = stamp[c]]
    /\ pc' = [pc EXCEPT ![c] = "touchOld"]
    /\ UNCHANGED <<path, dir, written, next, lockVars, clockVars, handleVars, sets, tmp, base>>

\* The handle keeps the time stamp of the old file.
UpdateStampForgotten(c) ==
    /\ pc[c] = "stamp"
    /\ pc' = [pc EXCEPT ![c] = "touchOld"]
    /\ UNCHANGED <<fileVars, lockVars, clockVars, handleVars, sets, tmp, base>>

Sec(t)  == t \div Second
Nsec(t) == t % Second

\* The nanosecond alone is changed.
ModifyNsecOnly(t, ts, fix) == IF Nsec(t) + fix \in 0 .. Second - 1 THEN t + fix ELSE NoTime

\* elektraModifyFileTime: seconds and nanoseconds of CLOCK_MONOTONIC, moved by
\* timeFix where they are those of t; timeFix changes its sign with the second.
NextTimeFix(t, ts, fix) == IF Sec(ts) = Sec(t) THEN -fix ELSE fix

ModifyFileTime(t, ts, fix) ==
    LET sec  == IF Sec(ts) = Sec(t) THEN Sec(t) + fix ELSE Sec(ts)
        nsec == IF Nsec(ts) = Nsec(t) THEN Nsec(t) + NextTimeFix(t, ts, fix) ELSE Nsec(ts)
    IN  IF nsec \in 0 .. Second - 1 THEN Second * sec + nsec ELSE NoTime

\* elektraUpdateFileTime: futimens refuses nanoseconds out of range.
UpdateFileTime(i, t) == mtime' = IF t = NoTime THEN mtime ELSE [mtime EXCEPT ![i] = Stored(t)]

\* The handle takes the new file's time stamp.  If that is the one it already
\* had, a stamp is made up for both.  Two readings of CLOCK_MONOTONIC are at
\* most a second apart (a bound).
UpdateStamp(c) ==
    /\ pc[c] = "stamp"
    /\ \/ /\ stamp[c] # mtime[tmp[c]]
          /\ stamp' = [stamp EXCEPT ![c] = mtime[tmp[c]]]
          /\ UNCHANGED <<mtime, mono, timeFix>>
       \/ /\ stamp[c] = mtime[tmp[c]]
          /\ \E ts \in (mono + 1) .. (mono + Second) :
                /\ mono' = ts
                /\ timeFix' = [timeFix EXCEPT ![c] = NextTimeFix(stamp[c], ts, @)]
                /\ stamp' = [stamp EXCEPT ![c] = ModifyFileTime(@, ts, timeFix[c])]
                /\ UpdateFileTime(tmp[c], stamp'[c])
    /\ pc' = [pc EXCEPT ![c] = "touchOld"]
    /\ UNCHANGED <<path, dir, written, next, lockVars, clock, fd, isMissing, removalNeeded,
                   sets, tmp, base>>

TouchOldForgotten(c) ==
    /\ pc[c] = "touchOld"
    /\ isMissing' = [isMissing EXCEPT ![c] = FALSE]
    /\ pc' = [pc EXCEPT ![c] = "unlock"]
    /\ UNCHANGED <<fileVars, lockVars, clockVars, fd, stamp, removalNeeded, sets, tmp, base>>

\* elektraUpdateFileTime on the replaced file: whoever opened it before the
\* rename shall see a conflict.
TouchOld(c) ==
    /\ pc[c] = "touchOld"
    /\ UpdateFileTime(fd[c], stamp[c])
    /\ isMissing' = [isMissing EXCEPT ![c] = FALSE]
    /\ pc' = [pc EXCEPT ![c] = "unlock"]
    /\ UNCHANGED <<path, dir, written, next, lockVars, clockVars, fd, stamp, removalNeeded,
                   sets, tmp, base>>

\* Both files are unlocked and closed, the mutex is given back.  A commit
\* whose rename failed goes on to the rollback.
Unlock(c) ==
    /\ pc[c] = "unlock"
    /\ locks' = Released({fd[c], tmp[c]}, c)
    /\ mutex' = [mutex EXCEPT ![ProcOf[c]] = NoClient]
    /\ fd' = [fd EXCEPT ![c] = Closed]
    /\ tmp' = [tmp EXCEPT ![c] = Nothing]
    /\ pc' = [pc EXCEPT ![c] = IF base[c] = tmp[c] THEN "idle" ELSE "error"]
    /\ UNCHANGED <<fileVars, clockVars, stamp, isMissing, removalNeeded, sets, base>>

\* Commit of an empty key set: no lock, no conflict check; the handle keeps
\* its time stamp and isMissing.
Remove(c) ==
    /\ pc[c] = "remove"
    /\ path' = Nothing
    /\ base' = [base EXCEPT ![c] = Nothing]
    /\ fd' = [fd EXCEPT ![c] = Closed]
    /\ pc' = [pc EXCEPT ![c] = "idle"]
    /\ UNCHANGED <<dir, written, mtime, next, lockVars, clockVars, stamp, isMissing,
                   removalNeeded, sets, tmp>>

-----------------------------------------------------------------------------
(***************************************************************************)
(* Rollback: the resolver's error function.                                *)
(***************************************************************************)

\* The temporary file is unlinked; an open file is unlocked and closed.
Error(c) ==
    /\ pc[c] = "error"
    /\ tmp' = [tmp EXCEPT ![c] = Nothing]
    /\ \/ /\ fd[c] \in {Closed, Removing}
          /\ fd' = [fd EXCEPT ![c] = Closed]
          /\ pc' = [pc EXCEPT ![c] = "idle"]
          /\ UNCHANGED locks
       \/ /\ fd[c] \notin {Closed, Removing}
          /\ locks' = Released({fd[c]}, c)
          /\ pc' = [pc EXCEPT ![c] = "errorUnlink"]
          /\ UNCHANGED fd
    /\ UNCHANGED <<fileVars, mutex, clockVars, stamp, isMissing, removalNeeded, sets, base>>

ErrorKeepsMutex(c) ==
    /\ pc[c] = "errorUnlink"
    /\ path' = IF removalNeeded[c] THEN Nothing ELSE path
    /\ fd' = [fd EXCEPT ![c] = Closed]
    /\ pc' = [pc EXCEPT ![c] = "idle"]
    /\ UNCHANGED <<dir, written, mtime, next, lockVars, clockVars, stamp, isMissing,
                   removalNeeded, sets, tmp, base>>

\* Only then the file the resolver created itself is unlinked, by name.
ErrorUnlink(c) ==
    /\ pc[c] = "errorUnlink"
    /\ path' = IF removalNeeded[c] THEN Nothing ELSE path
    /\ mutex' = [mutex EXCEPT ![ProcOf[c]] = NoClient]
    /\ fd' = [fd EXCEPT ![c] = Closed]
    /\ pc' = [pc EXCEPT ![c] = "idle"]
    /\ UNCHANGED <<dir, written, mtime, next, locks, clockVars, stamp, isMissing,
                   removalNeeded, sets, tmp, base>>

-----------------------------------------------------------------------------
\* What a client does on its own once an operation has begun.
Continue(c) ==
    \/ GetStorage(c) \/ GetStorageFails(c)
    \/ MkdirParents(c) \/ CreateFile(c) \/ LockMutex(c) \/ LockFile(c) \/ CheckConflict(c)
    \/ SetStorage(c) \/ SetFails(c)
    \/ Rename(c) \/ UpdateStamp(c) \/ TouchOld(c) \/ Unlock(c) \/ Remove(c)
    \/ Error(c) \/ ErrorUnlink(c)

Next ==
    \/ \E c \in Clients :
         GetResolve(c) \/ OpenFile(c) \/ PrepareRemoval(c) \/ Reopen(c) \/ Continue(c)
    \/ \E p \in Procs : Crash(p)
    \/ Tick

\* A thread inside kdbGet() or kdbSet() is scheduled again; nobody has to call
\* them, and no process has to crash.
Fairness == \A c \in Clients : WF_vars(Continue(c))

Spec == Init /\ [][Next]_vars /\ Fairness

-----------------------------------------------------------------------------
(***************************************************************************)
(* Properties.                                                             *)
(***************************************************************************)

\* The configuration a reader of the file would see.
Current == IF path \in written THEN path ELSE Nothing

\* kdbSet() has passed the conflict check and not yet given the locks back.
Writing(c) == pc[c] \in {"storage", "commit", "stamp", "touchOld", "unlock"}

\* No update is lost: whoever replaces or unlinks the configuration (rename in
\* elektraSetCommit, unlink on removal and in the error function) had loaded or
\* stored exactly that configuration before.
NoLostUpdate ==
    [][Current' # Current /\ Current # Nothing =>
         \E c \in Clients : base[c] = Current /\ pc'[c] # pc[c]]_vars

\* The conflict check stays valid until the rename: while a client writes its
\* temporary file, the file on disk is the one its key set was loaded from.
CheckedIsCurrent ==
    \A c \in Clients : pc[c] \in {"storage", "commit"} => Current = base[c]

\* An equal time stamp means equal contents: when the resolver's get function
\* would answer "no update", the key set is what the file holds.
UpToDate ==
    \A c \in Clients :
        pc[c] = "idle" /\ path # Nothing /\ stamp[c] = mtime[path] => base[c] = Current

\* The locks of elektraSetPrepare exclude: no two clients are between the
\* conflict check and the unlock with the same file open.
ExclusiveWriters ==
    \A c, d \in Clients : Writing(c) /\ Writing(d) /\ fd[c] = fd[d] => c = d

\* "It must be created newly": what a client that found no file writes under is
\* a file nobody else has stored a configuration in or created for himself.
ExclusiveCreation ==
    \A c \in Clients : isMissing[c] /\ fd[c] \in Inodes =>
        /\ fd[c] \notin written
        /\ \A d \in Clients \ {c} : isMissing[d] => fd[d] # fd[c]

\* Every path out of kdbSet() gives back what it took: a lock or mutex is only
\* held by a kdbSet() that is under way and works on that file.
LocksAccounted ==
    /\ \A c \in Clients : pc[c] \in {"new", "idle"} =>
          fd[c] = Closed /\ tmp[c] = Nothing /\ mutex[ProcOf[c]] # c
    /\ \A i \in Inodes : locks[i] # NoProc =>
          \E c \in Clients : /\ ProcOf[c] = locks[i]
                            /\ i \in {fd[c], tmp[c]}
                            /\ (Writing(c) \/ pc[c] \in {"checkConflict", "error"})

\* Without faults a kdbSet() after a kdbGet() succeeds if there is nobody to be
\* in conflict with: the time that elektraSetCommit leaves in the handle is the
\* file's, also when it is made up and not the first one to be made up (unless
\* its nanoseconds are out of range).
LoneClientSucceeds ==
    Cardinality(Clients) = 1 => \A c \in Clients : pc[c] = "error" => stamp[c] = NoTime

\* The postcondition of elektraSetCommit "that the timestamp changed at least
\* slightly": the file that is renamed into place gets another time than the
\* one it replaces had for all who looked at it, also within one second on a
\* file system that stores seconds only (unless the nanoseconds are out of
\* range).
TimeChanges ==
    [][\A c \in Clients :
         pc[c] = "stamp" /\ pc'[c] = "touchOld" /\ ~isMissing[c] /\ stamp'[c] # NoTime
           => mtime'[tmp[c]] # mtime[fd[c]]]_vars

\* Under the assumptions of GoodEnvironment the file is an OptimisticStore.
Store == INSTANCE OptimisticStore WITH Configs <- Inodes, current <- Current

ImplementsStore == Store!Spec

\* The mutex that refuses the other threads of a process is always given back.
MutexReleased ==
    \A p \in Procs : mutex[p] # NoClient ~> mutex[p] = NoClient
=============================================================================
