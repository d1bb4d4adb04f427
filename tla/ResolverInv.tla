---------------------------- MODULE ResolverInv -----------------------------
(***************************************************************************)
(* Why the resolver loses no update: the circumstances under which it does *)
(* not, and the inductive invariant that shows it.                         *)
(***************************************************************************)
EXTENDS Resolver

\* The file is there and is never removed, time stamps are unique, a process
\* has one handle, and the two failures the protocol cannot cope with (a reader
\* that fails after its time stamp is remembered, a crash between the rename and
\* the touching of the old file) do not happen.  Section 4 of the README shows
\* what goes wrong without each of them.
GoodEnvironment ==
    /\ FineClock /\ InitialFile /\ ~Removal
    /\ "storageGet" \notin Faults /\ "crashInCommit" \notin Faults
    /\ \A c, d \in Clients : ProcOf[c] = ProcOf[d] => c = d

Opened(c)     == pc[c] \in {"lockMutex", "lockFile", "checkConflict"}
Checked(c)    == pc[c] \in {"storage", "commit"}
Committing(c) == pc[c] \in {"stamp", "touchOld"}
HoldsLock(c)  == pc[c] \in {"checkConflict", "storage", "commit", "stamp", "touchOld", "unlock"}
HasFile(c)    == Opened(c) \/ HoldsLock(c) \/ pc[c] = "errorUnlink"
HasTmp(c)     == pc[c] \in {"commit", "stamp", "touchOld", "unlock"}

\* A temporary file that has not become the configuration file (yet).
Unpublished(c) == pc[c] \in {"commit", "stamp", "touchOld"} /\ tmp[c] # path

\* A client works on files that exist.
FilesExist ==
    /\ \A c \in Clients : HasFile(c) => fd[c] \in Inodes
    /\ \A c \in Clients : HasTmp(c) => tmp[c] \in Inodes

\* With the file present from the start nobody ever creates or removes it.
AlwaysPresent ==
    /\ path \in written
    /\ \A c \in Clients : /\ ~isMissing[c] /\ ~removalNeeded[c]
                          /\ fd[c] # Removing
                          /\ pc[c] \notin {"mkdir", "create", "remove"}

\* Inodes from `next' on are untouched.
Allocated ==
    /\ written \subseteq 1 .. (next - 1)
    /\ path < next
    /\ \A c \in Clients : fd[c] < next /\ tmp[c] < next
    /\ \A i \in Inodes : i >= next => locks[i] = NoProc

\* No time stamp is from the future; 0 is none.
TimesPast ==
    /\ \A i \in Inodes : i < next => mtime[i] \in 1 .. clock
    /\ \A c \in Clients : stamp[c] \in 0 .. clock
    /\ \A c \in Clients : pc[c] = "new" => stamp[c] = 0

\* The locks of elektraSetPrepare and elektraSetCommit are held.
LocksHeldBy(c) ==
    /\ HoldsLock(c) => locks[fd[c]] = ProcOf[c]
    /\ pc[c] = "commit" => locks[tmp[c]] = NoProc
    /\ pc[c] \in {"stamp", "touchOld", "unlock"} => locks[tmp[c]] = ProcOf[c]

LocksHeld == \A c \in Clients : LocksHeldBy(c)

\* A temporary file belongs to one client and is complete.
TmpOwned ==
    \A c \in Clients : HasTmp(c) =>
        /\ tmp[c] \in written
        /\ \A d \in Clients \ {c} : HasTmp(d) => tmp[d] # tmp[c]

\* Nobody else has opened a temporary file that is not published, or knows its
\* time stamp.
TmpUnknown ==
    /\ \A c \in Clients : pc[c] = "commit" => tmp[c] # path
    /\ \A c \in Clients : Unpublished(c) =>
          /\ mtime[tmp[c]] # mtime[path]
          /\ \A d \in Clients : fd[d] # tmp[c]
          /\ \A d \in Clients \ {c} : /\ stamp[d] # mtime[tmp[c]]
                                      /\ HasTmp(d) => mtime[tmp[d]] # mtime[tmp[c]]

\* The handle's own time stamp differs from the temporary file's until it is taken.
TmpStamp ==
    \A c \in Clients :
        /\ pc[c] \in {"commit", "stamp"} => stamp[c] # mtime[tmp[c]]
        /\ pc[c] = "touchOld" => stamp[c] = mtime[tmp[c]]

\* What the conflict check found stays true until the rename.
CheckValid ==
    \A c \in Clients : Checked(c) =>
        fd[c] = path /\ base[c] = path /\ stamp[c] = mtime[path]

\* Until the old file is touched, the file is the new one or, after a failed
\* rename, the old one, and the client knows it.
CommitPending ==
    \A c \in Clients : Committing(c) =>
        base[c] = path /\ path \in {tmp[c], fd[c]}

\* Whoever has opened a file that was replaced since will find a conflict, once
\* the client that replaced it has touched it.
ReplacedConflicts ==
    \A c \in Clients : Opened(c) /\ fd[c] # path =>
        /\ stamp[c] # mtime[path]
        /\ \/ stamp[c] # mtime[fd[c]]
           \/ \E d \in Clients : Committing(d) /\ fd[d] = fd[c] /\ path = tmp[d]

\* An equal time stamp means equal contents, except while reading.
StampIdentifies ==
    \A c \in Clients : pc[c] # "getStorage" /\ stamp[c] = mtime[path] => base[c] = path

ResolverInvariant ==
    /\ TypeOK
    /\ FilesExist
    /\ AlwaysPresent
    /\ Allocated
    /\ TimesPast
    /\ LocksHeld
    /\ TmpOwned
    /\ TmpUnknown
    /\ TmpStamp
    /\ CheckValid
    /\ CommitPending
    /\ ReplacedConflicts
    /\ StampIdentifies

-----------------------------------------------------------------------------
(***************************************************************************)
(* Who holds which lock, in any environment.                               *)
(***************************************************************************)

\* The thread has taken the mutex of its process and has to give it back.
HoldsMutex(c) ==
    \/ pc[c] = "lockFile" \/ HoldsLock(c) \/ pc[c] = "errorUnlink"
    \/ pc[c] = "error" /\ fd[c] \in Inodes

MutexExact == \A c \in Clients : mutex[ProcOf[c]] = c <=> HoldsMutex(c)

\* What the handle holds while no kdbSet() is under way, or it has only begun.
HandleAtRest ==
    \A c \in Clients :
        /\ pc[c] \in {"new", "idle", "getStorage", "mkdir", "create"} => fd[c] = Closed
        /\ pc[c] = "remove" => fd[c] = Removing
        /\ ~HasTmp(c) /\ pc[c] # "error" => tmp[c] = Nothing

\* A client on whose behalf its process holds the lock of inode i.
Explains(c, i) ==
    \/ i = fd[c] /\ (HoldsLock(c) \/ pc[c] = "error")
    \/ i = tmp[c] /\ pc[c] \in {"stamp", "touchOld", "unlock"}

LocksExplained ==
    \A i \in Inodes : locks[i] # NoProc =>
        \E c \in Clients : ProcOf[c] = locks[i] /\ Explains(c, i)

LockInvariant ==
    /\ TypeOK
    /\ FilesExist
    /\ HandleAtRest
    /\ MutexExact
    /\ LocksExplained

\* Every process has one handle: its locks are not dropped by another thread that
\* closes the file.
OneHandleEach == \A c, d \in Clients : ProcOf[c] = ProcOf[d] => c = d

\* All threads belong to one process, and the mutex is enough.
OneProcess == \A c, d \in Clients : ProcOf[c] = ProcOf[d]

FileLocked == \A c \in Clients : HoldsLock(c) => locks[fd[c]] = ProcOf[c]

\* Whoever found no file works on a file of its own, if the directory is there.
Created ==
    /\ dir
    /\ written \subseteq 1 .. (next - 1) /\ path < next
    /\ \A c \in Clients : fd[c] < next /\ tmp[c] < next /\ pc[c] \notin {"mkdir", "create"}

\* The only client knows the time of the file, unless that could not be set.
Known(c) == stamp[c] \in {mtime[path], NoTime}

\* The only client knows the file, except while it is being replaced.
Alone(c) ==
    /\ path < next /\ tmp[c] < next
    /\ ~dir => path = Nothing
    /\ pc[c] \in {"idle", "getStorage"} =>
          /\ isMissing[c] <=> path = Nothing
          /\ path # Nothing => Known(c)
    /\ pc[c] \in {"mkdir", "create"} => isMissing[c] /\ path = Nothing
    /\ pc[c] = "create" => dir
    /\ Opened(c) \/ Checked(c) =>
          fd[c] = path /\ path # Nothing /\ (~isMissing[c] => Known(c))
    /\ pc[c] = "stamp" => path = tmp[c] /\ base[c] = tmp[c]
    /\ pc[c] = "touchOld" => path = tmp[c] /\ base[c] = tmp[c] /\ Known(c)
    /\ pc[c] = "unlock" => path = tmp[c] /\ base[c] = tmp[c] /\ Known(c) /\ ~isMissing[c]
    /\ pc[c] = "error" => /\ stamp[c] = NoTime /\ fd[c] = Closed
                          /\ ~isMissing[c] /\ path # Nothing
    /\ pc[c] \notin {"errorUnlink", "remove"}

OneClient == \A c, d \in Clients : c = d

Lone == \A c \in Clients : Alone(c)
=============================================================================
