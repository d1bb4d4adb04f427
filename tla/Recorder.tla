------------------------------ MODULE Recorder ------------------------------
(***************************************************************************)
(* Session recording: the hooks that kdbSet() calls (kdb.c), the recorder  *)
(* plugin (recorder.c) and the record library (record.c), for several      *)
(* processes with a KDB handle each.                                       *)
(*                                                                         *)
(* `disk' holds the keys of all backends' files; the steps of kdbGet() and *)
(* kdbSet() that the recording does not interact with are those of module  *)
(* Kdb and are taken together here.  Every file also holds keys that are   *)
(* never changed, so that no kdbSet() removes one.  The session diff is    *)
(* one file that kdbSet() replaces like any other, and removes when it is  *)
(* to store nothing.  Backends are numbered in the order of their          *)
(* mountpoints; a parent key of kdbGet(), kdbSet() or undo stands for the  *)
(* backends it selects.                                                    *)
(***************************************************************************)
EXTENDS Diff, Integers

CONSTANTS
    Procs,
    Backends,
    Owner,           \* the backend a key is stored in
    MountBelow,      \* the keys same or below a backend's mountpoint
    Parents,         \* the parent keys in use
    SessionParents,  \* the parent keys sessions are started with
    NoSession, NoProc,
    Uses,            \* which of UseKinds may happen
    MaxSets,         \* bound on the calls of kdbSet()
    MaxManage        \* bound on the calls that manage sessions

(***************************************************************************)
(*   crash    a process ends anywhere                                      *)
(*   storage  the storage phase of kdbSet() fails                          *)
(*   commit   the commit of some backends fails                            *)
(*   session  loading or storing the session diff fails                    *)
(*   undo     a session is undone while other processes call kdbSet()      *)
(*   reuse    a session is managed with a handle that was used before      *)
(*   foreign  the key set given to kdbSet() has changes that are not below *)
(*            the parent key                                               *)
(***************************************************************************)
UseKinds == {"crash", "storage", "commit", "session", "undo", "reuse", "foreign"}

KeysOf(par) == UNION {MountBelow[b] : b \in par}

ASSUME RecorderAssumption ==
    /\ Backends \subseteq Nat
    /\ Owner \in [Keys -> Backends]
    /\ MountBelow \in [Backends -> SUBSET Keys]
    /\ \A k \in Keys : k \in MountBelow[Owner[k]]
    /\ Parents \subseteq SUBSET Backends
    /\ \A par \in Parents : \A k \in KeysOf(par) : Owner[k] \in par
    /\ SessionParents \subseteq SUBSET Keys /\ NoSession \notin SessionParents
    /\ NoProc \notin Procs
    /\ Uses \subseteq UseKinds /\ MaxSets \in Nat /\ MaxManage \in Nat

VARIABLES
    disk,      \* the keys of all files
    session,   \* the stored session diff
    config,    \* the stored key /elektra/record/config/active
    flock,     \* the process that has locked the lock file of the recorder
    pc,
    active,    \* the active key in the handle's global key set
    allKeys,   \* KDB.allKeys of the handle
    seen,      \* what the handle's resolvers know of the files
    sess,      \* what the handle's resolver knows of the session file
    ks,        \* the key set of the kdbSet() under way
    parent,    \* its parent key
    changed,   \* the backends that take part in it
    rec,       \* what the recorder's own handle knows of the session file
    rest,      \* the session diff a call will store
    start,     \* history: what each key was before the session had or should
               \* have had a change of it
    lost,      \* history: keys with a change that the session should have and
               \* does not
    sets, manages  \* used up of the bounds

handleVars == <<active, allKeys, seen, sess>>
callVars   == <<ks, parent, changed, rest>>
histVars   == <<start, lost>>
countVars  == <<sets, manages>>
vars == <<disk, session, config, flock, pc, handleVars, callVars, rec, histVars, countVars>>

Knowledge == {"none", "current", "old"}

TypeOK ==
    /\ disk \in KeySets /\ session \in Diffs /\ start \in KeySets /\ lost \subseteq Keys
    /\ config \in SessionParents \union {NoSession}
    /\ flock \in Procs \union {NoProc}
    /\ pc \in [Procs -> {"idle", "lock", "storage", "record", "recordSet", "end",
                         "editStore", "undoSet", "undoStore"}]
    /\ active \in [Procs -> SessionParents \union {NoSession}]
    /\ allKeys \in [Procs -> KeySets] /\ ks \in [Procs -> KeySets]
    /\ seen \in [Procs -> [Backends -> Knowledge]]
    /\ sess \in [Procs -> Knowledge] /\ rec \in [Procs -> Knowledge]
    /\ parent \in [Procs -> Parents \union {{}}] /\ changed \in [Procs -> SUBSET Backends]
    /\ rest \in [Procs -> Diffs]
    /\ sets \in 0 .. MaxSets /\ manages \in 0 .. MaxManage

-----------------------------------------------------------------------------
(***************************************************************************)
(* What kdbGet() and kdbSet() do to files and handles.                     *)
(***************************************************************************)

Outdated(s) == IF s = "current" THEN "old" ELSE s

\* The files in bs are replaced by process p: others that knew them are outdated.
SeenAfterStore(p, bs) ==
    [q \in Procs |-> [b \in Backends |->
        IF b \notin bs THEN seen[q][b]
        ELSE IF q = p THEN "current" ELSE Outdated(seen[q][b])]]

DiskAfterStore(p, bs) == [k \in Keys |-> IF Owner[k] \in bs THEN ks[p][k] ELSE disk[k]]

\* After kdbSet() allKeys has the whole ks instead of what was below the parent.
AllKeysAfterSet(p) ==
    [k \in Keys |-> IF k \in KeysOf(parent[p]) \/ ks[p][k] # Absent THEN ks[p][k]
                    ELSE allKeys[p][k]]

\* kdbGet() reads the files that are not the ones last seen, and allKeys loses
\* all the other keys below the parent.  It gives nothing if there are none.
ToLoad(p, par) == {b \in par : seen[p][b] # "current"}
Loaded(bs)     == [k \in Keys |-> IF Owner[k] \in bs THEN disk[k] ELSE Absent]
AllKeysAfterGet(p, par) ==
    [k \in Keys |-> IF ToLoad(p, par) # {} /\ (k \in KeysOf(par) \/ Owner[k] \in ToLoad(p, par))
                    THEN Loaded(ToLoad(p, par))[k] ELSE allKeys[p][k]]
SeenAfterGet(p, par) ==
    [seen EXCEPT ![p] = [b \in Backends |-> IF b \in par THEN "current" ELSE seen[p][b]]]

Differs(p, new, par) == {b \in par : \E k \in Keys : Owner[k] = b /\ new[k] # allKeys[p][k]}

\* The resolvers refuse files that changed or that another kdbSet() has locked.
FileLocked(b) == \E q \in Procs : pc[q] \in {"lock", "storage"} /\ b \in changed[q]
Conflict(p, bs) == \E b \in bs : seen[p][b] # "current" \/ FileLocked(b)

\* A handle's kdbGet() of the session: nothing if the file was loaded before.
LoadedSession(p) == IF sess[p] = "current" THEN EmptyDiff ELSE session

-----------------------------------------------------------------------------
(***************************************************************************)
(* The part diff of a kdbSet(), and the history it belongs to.             *)
(***************************************************************************)

\* setKs holds the keys of the backends that changed, and parentKey is by now
\* the mountpoint of the last one of them.
LastMount(p) ==
    {k \in Keys : \E b \in changed[p] : k \in MountBelow[b] /\ \A c \in changed[p] : c <= b}

\* If the parent key of the session is below that mountpoint, it is taken instead.
DiffParent(p) ==
    IF active[p] \subseteq LastMount(p) /\ active[p] # LastMount(p) THEN active[p]
    ELSE LastMount(p)

PartDiff(p) ==
    LET toRecord == [k \in Keys |-> IF Owner[k] \in changed[p] THEN ks[p][k] ELSE Absent]
    IN  DiffCalculate(toRecord, allKeys[p], DiffParent(p))

\* The changes of p are stored but not yet recorded.
Pending(p) == active[p] # NoSession /\ pc[p] \in {"record", "recordSet"}

\* A session diff with the changes that are about to be recorded.
WithPending(d) ==
    IF flock # NoProc /\ Pending(flock) THEN DiffAppend(d, PartDiff(flock)) ELSE d

Accounted == WithPending(session)

\* A change that is not meant to be recorded is there to stay, unless the session
\* has the key already.
StartAfterStore(p, bs) ==
    [k \in Keys |->
        IF /\ Owner[k] \in bs /\ Accounted[k] = NoEntry
           /\ active[p] = NoSession \/ (k \notin active[p] /\ PartDiff(p)[k] = NoEntry)
        THEN ks[p][k] ELSE start[k]]

\* The keys whose changes p has to record.
ToRecord(p) == IF active[p] = NoSession THEN {} ELSE {k \in Keys : PartDiff(p)[k] # NoEntry}

\* They are stored, but are not recorded any more.
LostUnrecorded(p) == IF Pending(p) THEN lost \union ToRecord(p) ELSE lost

\* Between the steps of a call that manages the session.
Managing == {"editStore", "undoSet", "undoStore"}

\* A call returns and frees what it has used.
Return(p) ==
    /\ pc' = [pc EXCEPT ![p] = "idle"]
    /\ ks' = [ks EXCEPT ![p] = Empty]
    /\ parent' = [parent EXCEPT ![p] = {}]
    /\ changed' = [changed EXCEPT ![p] = {}]
    /\ rest' = [rest EXCEPT ![p] = EmptyDiff]

-----------------------------------------------------------------------------
Init ==
    /\ disk \in KeySets /\ start = disk /\ lost = {}
    /\ session = EmptyDiff
    /\ config \in SessionParents \union {NoSession}
    /\ flock = NoProc
    /\ pc = [p \in Procs |-> "idle"]
    /\ active = [p \in Procs |-> config]
    /\ allKeys = [p \in Procs |-> Empty] /\ ks = [p \in Procs |-> Empty]
    /\ seen = [p \in Procs |-> [b \in Backends |-> "none"]]
    /\ sess = [p \in Procs |-> "none"] /\ rec = [p \in Procs |-> "none"]
    /\ parent = [p \in Procs |-> {}] /\ changed = [p \in Procs |-> {}]
    /\ rest = [p \in Procs |-> EmptyDiff]
    /\ sets = 0 /\ manages = 0

\* A new handle: kdbOpen() takes the active key from the stored configuration.
FreshHandle(p) ==
    /\ active' = [active EXCEPT ![p] = config]
    /\ allKeys' = [allKeys EXCEPT ![p] = Empty]
    /\ seen' = [seen EXCEPT ![p] = [b \in Backends |-> "none"]]
    /\ sess' = [sess EXCEPT ![p] = "none"]

Reopen(p) ==
    /\ pc[p] = "idle"
    /\ FreshHandle(p)
    /\ UNCHANGED <<disk, session, config, flock, pc, callVars, rec, histVars, countVars>>

\* The end of a process closes its lock file.  A call that manages the session and is
\* cut off does not count, so that it may be made again.
Crash(p) ==
    /\ "crash" \in Uses /\ pc[p] # "idle"
    /\ FreshHandle(p)
    /\ Return(p)
    /\ flock' = IF flock = p THEN NoProc ELSE flock
    /\ lost' = LostUnrecorded(p)
    /\ manages' = IF pc[p] \in Managing /\ manages > 0 THEN manages - 1 ELSE manages
    /\ UNCHANGED <<disk, session, config, rec, start, sets>>

\* kdbGet()
Get(p, par) ==
    /\ pc[p] = "idle"
    /\ allKeys' = [allKeys EXCEPT ![p] = AllKeysAfterGet(p, par)]
    /\ seen' = SeenAfterGet(p, par)
    /\ UNCHANGED <<disk, session, config, flock, pc, active, sess, callVars, rec, histVars,
                   countVars>>

-----------------------------------------------------------------------------
(***************************************************************************)
(* kdbSet().                                                               *)
(***************************************************************************)

UndoUnderWay(p) == \E q \in Procs \ {p} : pc[q] \in {"undoSet", "undoStore"}

\* Up to step 10: the backends that changed are resolved, locked and checked for
\* conflicts; a conflict ends the call.
SetResolver(p, par, new) ==
    LET bs == Differs(p, new, par)
    IN  /\ pc[p] = "idle" /\ sets < MaxSets
        /\ "undo" \in Uses \/ ~UndoUnderWay(p)
        /\ "foreign" \in Uses \/ \A k \in Keys : Owner[k] \notin par => new[k] = allKeys[p][k]
        /\ \A b \in par : seen[p][b] # "none"
        /\ bs # {} /\ ~Conflict(p, bs)
        /\ ks' = [ks EXCEPT ![p] = new]
        /\ parent' = [parent EXCEPT ![p] = par]
        /\ changed' = [changed EXCEPT ![p] = bs]
        /\ pc' = [pc EXCEPT ![p] = "lock"]
        /\ sets' = sets + 1
        /\ UNCHANGED <<disk, session, config, flock, handleVars, rec, rest, histVars,
                       manages>>

RecorderLockIgnored(p) ==
    /\ pc[p] = "lock"
    /\ pc' = [pc EXCEPT ![p] = "storage"]
    /\ flock' = IF active[p] = NoSession THEN flock ELSE p
    /\ UNCHANGED <<disk, session, config, handleVars, callVars, rec, histVars, countVars>>

\* elektraRecorderLock: kdbSet() is rolled back if the lock is not granted.
RecorderLock(p) ==
    /\ pc[p] = "lock"
    /\ \/ /\ active[p] = NoSession
          /\ pc' = [pc EXCEPT ![p] = "storage"]
          /\ UNCHANGED <<flock, callVars>>
       \/ /\ active[p] # NoSession /\ flock = NoProc
          /\ pc' = [pc EXCEPT ![p] = "storage"]
          /\ flock' = p
          /\ UNCHANGED callVars
       \/ /\ active[p] # NoSession /\ flock # NoProc
          /\ Return(p)
          /\ UNCHANGED flock
    /\ UNCHANGED <<disk, session, config, handleVars, rec, histVars, countVars>>

\* elektraRecorderUnlock
RecorderUnlock(p) == flock' = IF flock = p THEN NoProc ELSE flock

SetFailsLocked(p) ==
    /\ pc[p] = "storage" /\ "storage" \in Uses
    /\ Return(p)
    /\ UNCHANGED <<disk, session, config, flock, handleVars, rec, histVars, countVars>>

\* Rollback: the lock of the recorder is given up as well.
SetFails(p) ==
    /\ pc[p] = "storage" /\ "storage" \in Uses
    /\ Return(p)
    /\ RecorderUnlock(p)
    /\ UNCHANGED <<disk, session, config, handleVars, rec, histVars, countVars>>

\* Steps 11 to 12c.
Commit(p) ==
    /\ pc[p] = "storage"
    /\ disk' = DiskAfterStore(p, changed[p])
    /\ seen' = SeenAfterStore(p, changed[p])
    /\ start' = StartAfterStore(p, changed[p])
    /\ pc' = [pc EXCEPT ![p] = "record"]
    /\ UNCHANGED <<session, config, flock, active, allKeys, sess, callVars, rec, lost,
                   countVars>>

\* Only the backends in bs were committed: rollback, nothing is recorded.
CommitFails(p) ==
    /\ pc[p] = "storage" /\ "commit" \in Uses
    /\ \E bs \in SUBSET changed[p] :
         /\ bs # changed[p]
         /\ disk' = DiskAfterStore(p, bs)
         /\ seen' = SeenAfterStore(p, bs)
         /\ start' = StartAfterStore(p, bs)
         /\ lost' = lost \union {k \in ToRecord(p) : Owner[k] \in bs}
    /\ RecorderUnlock(p)
    /\ Return(p)
    /\ UNCHANGED <<session, config, active, allKeys, sess, rec, countVars>>

\* elektraRecorderRecord, elektraRecordRecord: the recorder's own handle loads the
\* session diff, if there is anything to add to it.
Record(p) ==
    LET new == DiffAppend(session, PartDiff(p))
    IN  /\ pc[p] = "record"
        /\ IF active[p] = NoSession \/ DiffIsEmpty(PartDiff(p)) \/ new = session
             THEN pc' = [pc EXCEPT ![p] = "end"] /\ UNCHANGED <<rest, rec>>
             ELSE /\ pc' = [pc EXCEPT ![p] = "recordSet"]
                  /\ rest' = [rest EXCEPT ![p] = new]
                  /\ rec' = [rec EXCEPT ![p] = "current"]
        /\ UNCHANGED <<disk, session, config, flock, handleVars, ks, parent, changed,
                       histVars, countVars>>

\* The session file is replaced or removed by the handle of p, or by its recorder's.
SessionKnown(p, own) ==
    /\ sess' = [q \in Procs |-> IF q = p /\ own THEN "current"
                               ELSE IF rest[p] = session THEN sess[q] ELSE Outdated(sess[q])]
    /\ rec'  = [q \in Procs |-> IF q = p /\ ~own THEN "current"
                               ELSE IF rest[p] = session THEN rec[q] ELSE Outdated(rec[q])]

Knows(p, own) == IF own THEN sess[p] = "current" ELSE rec[p] = "current"

\* kdbSet() of the session diff.  If nothing is left in it, the resolver removes the
\* file: without a lock, and without a look at what others have stored meanwhile.
StoreSession(p, own) ==
    /\ Knows(p, own) \/ rest[p] = EmptyDiff
    /\ session' = rest[p]
    /\ SessionKnown(p, own)
    /\ lost' = IF Knows(p, own) THEN lost
               ELSE LostUnrecorded(p) \union {k \in Keys : session[k] # NoEntry}

\* Otherwise it is refused if another process has stored one meanwhile.
SessionConflict(p, own) == ~Knows(p, own) /\ rest[p] # EmptyDiff

\* The new session diff is stored.  kdbSet() ignores what becomes of it.
RecordSet(p) ==
    /\ pc[p] = "recordSet"
    /\ pc' = [pc EXCEPT ![p] = "end"]
    /\ \/ StoreSession(p, FALSE)
       \/ /\ SessionConflict(p, FALSE)
          /\ lost' = LostUnrecorded(p)
          /\ UNCHANGED <<session, sess, rec>>
    /\ UNCHANGED <<disk, config, flock, active, allKeys, seen, callVars, start, countVars>>

\* Loading or storing the session diff fails for another reason.
RecordFails(p) ==
    /\ pc[p] \in {"record", "recordSet"} /\ active[p] # NoSession /\ "session" \in Uses
    /\ pc' = [pc EXCEPT ![p] = "end"]
    /\ lost' = LostUnrecorded(p)
    /\ UNCHANGED <<disk, session, config, flock, handleVars, callVars, rec, start,
                   countVars>>

\* The lock is given up and allKeys updated.
SetEnd(p) ==
    /\ pc[p] = "end"
    /\ RecorderUnlock(p)
    /\ allKeys' = [allKeys EXCEPT ![p] = AllKeysAfterSet(p)]
    /\ Return(p)
    /\ UNCHANGED <<disk, session, config, active, seen, sess, rec, histVars, countVars>>

-----------------------------------------------------------------------------
(***************************************************************************)
(* Managing sessions (record.c).                                           *)
(***************************************************************************)

Manage(p) ==
    /\ pc[p] = "idle" /\ manages < MaxManage
    /\ "undo" \in Uses \/ ~UndoUnderWay(p)
    /\ manages' = manages + 1

\* elektraRecordEnableRecording, elektraRecordDisableRecording
Configure(p, s) ==
    /\ Manage(p)
    /\ config' = s
    /\ active' = [active EXCEPT ![p] = s]
    /\ UNCHANGED <<disk, session, flock, pc, allKeys, seen, sess, callVars, rec, histVars,
                   sets>>

EnableRecording(p) == \E s \in SessionParents : Configure(p, s)
DisableRecording(p) == Configure(p, NoSession)

\* elektraRecordRemoveKeys, and elektraRecordResetSession if it is all keys: the
\* session is loaded, and if anything is to leave it ...
EditLoad(p, below) ==
    LET left == DiffRemove(LoadedSession(p), below)
    IN  /\ Manage(p)
        /\ "reuse" \in Uses \/ sess[p] = "none"
        /\ sess' = [sess EXCEPT ![p] = "current"]
        /\ IF left = session
             THEN UNCHANGED <<rest, pc>>
             ELSE /\ rest' = [rest EXCEPT ![p] = left]
                  /\ pc' = [pc EXCEPT ![p] = "editStore"]
        /\ UNCHANGED <<disk, session, config, flock, active, allKeys, seen, ks, parent,
                       changed, rec, histVars, sets>>

\* ... stored again.  Keys that leave the session stay as they are: from now on they
\* have been so before the session.
StartAfterEdit(p) ==
    [k \in Keys |-> IF session[k] # NoEntry /\ rest[p][k] = NoEntry
                    THEN DiffUndo(WithPending(rest[p]), disk)[k] ELSE start[k]]

EditStore(p) ==
    /\ pc[p] = "editStore"
    /\ Return(p)
    /\ \/ /\ StoreSession(p, TRUE)
          /\ start' = IF sess[p] = "current" THEN StartAfterEdit(p) ELSE start
       \/ /\ SessionConflict(p, TRUE) \/ "session" \in Uses
          /\ UNCHANGED <<session, sess, rec, histVars>>
    /\ UNCHANGED <<disk, config, flock, active, allKeys, seen, countVars>>

\* elektraRecordUndo: the part of the session below the parent is cut off and
\* undone in a new key set, which kdbGet() has filled.
UndoLoad(p, par) ==
    LET undoDiff == DiffCut(LoadedSession(p), KeysOf(par))
    IN  /\ Manage(p)
        /\ "undo" \in Uses \/ \A q \in Procs \ {p} : pc[q] = "idle"
        /\ "reuse" \in Uses \/ (sess[p] = "none" /\ \A b \in Backends : seen[p][b] = "none")
        /\ sess' = [sess EXCEPT ![p] = "current"]
        /\ IF DiffIsEmpty(undoDiff)
             THEN UNCHANGED <<pc, allKeys, seen, ks, parent, rest>>
             ELSE /\ ks' = [ks EXCEPT ![p] = DiffUndo(undoDiff, Loaded(ToLoad(p, par)))]
                  /\ parent' = [parent EXCEPT ![p] = par]
                  /\ rest' = [rest EXCEPT ![p] = DiffRemove(LoadedSession(p), KeysOf(par))]
                  /\ allKeys' = [allKeys EXCEPT ![p] = AllKeysAfterGet(p, par)]
                  /\ seen' = SeenAfterGet(p, par)
                  /\ pc' = [pc EXCEPT ![p] = "undoSet"]
        /\ UNCHANGED <<disk, session, config, flock, active, changed, rec, histVars, sets>>

\* kdbSet() without the active key: neither locked nor recorded.
UndoSet(p) ==
    LET bs == Differs(p, ks[p], parent[p])
    IN  /\ pc[p] = "undoSet"
        /\ \/ /\ ~Conflict(p, bs)
              /\ disk' = DiskAfterStore(p, bs)
              /\ seen' = SeenAfterStore(p, bs)
              /\ allKeys' = [allKeys EXCEPT ![p] = AllKeysAfterSet(p)]
              /\ pc' = [pc EXCEPT ![p] = "undoStore"]
              /\ UNCHANGED callVars
           \/ /\ Conflict(p, bs) \/ "storage" \in Uses
              /\ Return(p)
              /\ UNCHANGED <<disk, seen, allKeys>>
        /\ UNCHANGED <<session, config, flock, active, sess, rec, histVars, countVars>>

\* What is left of the session is stored.
UndoStore(p) ==
    /\ pc[p] = "undoStore"
    /\ Return(p)
    /\ \/ StoreSession(p, TRUE)
       \/ /\ SessionConflict(p, TRUE) \/ "session" \in Uses
          /\ UNCHANGED <<session, sess, rec, lost>>
    /\ UNCHANGED <<disk, config, flock, active, allKeys, seen, start, countVars>>

-----------------------------------------------------------------------------
\* The steps of a call that has begun.
Continue(p) ==
    \/ RecorderLock(p) \/ SetFails(p) \/ Commit(p) \/ CommitFails(p)
    \/ Record(p) \/ RecordSet(p) \/ RecordFails(p) \/ SetEnd(p)
    \/ EditStore(p) \/ UndoSet(p) \/ UndoStore(p)

Next ==
    \E p \in Procs :
        \/ Reopen(p) \/ Crash(p)
        \/ \E par \in Parents : Get(p, par) \/ UndoLoad(p, par)
        \/ \E par \in Parents, new \in KeySets : SetResolver(p, par, new)
        \/ EnableRecording(p) \/ DisableRecording(p)
        \/ \E below \in SUBSET Keys : EditLoad(p, below)
        \/ Continue(p)

Spec == Init /\ [][Next]_vars

-----------------------------------------------------------------------------
(***************************************************************************)
(* Properties.                                                             *)
(***************************************************************************)

\* Undoing the session, with the changes that are just about to be recorded, would
\* restore every key to what it was before the session got a change of it: what
\* elektraRecordRecord and elektraRecordUndo rely on.  It is not said of keys with a
\* change that is stored and will never be recorded, because the process ended, its
\* recorder failed or met a conflict, or the session file was removed.
SessionExact == \A k \in Keys \ lost : DiffUndo(Accounted, disk)[k] = start[k]

\* Both key sets of modified keys in the session have the same keys, as
\* elektraDiffAppend takes for granted, and no key is in two of the key sets.
SessionWellFormed == WellFormed(session)

\* Changes of one process at a time wait to be recorded.
OneRecorder == \A p, q \in Procs : Pending(p) /\ Pending(q) => p = q

\* After elektraRecordUndo the keys below the parent are what they were before the
\* session got a change of them, except those whose changes were not all recorded.
UndoRestores ==
    [][\A p \in Procs :
         pc[p] = "undoStore" /\ pc'[p] = "idle" /\ sess[p] = "current" /\ sess'[p] = "current" =>
             \A k \in KeysOf(parent[p]) \ lost : disk'[k] = start'[k]]_vars

\* The lock file is locked only while kdbSet() is under way: every way out of it,
\* also the end of the process, unlocks it.
LockOnlyInSet ==
    \A p \in Procs : flock = p => pc[p] \in {"storage", "record", "recordSet", "end"}
=============================================================================
