--------------------------- MODULE RecorderProofs ---------------------------
(***************************************************************************)
(* Proofs about Recorder: sessions stay exact, one process records at a    *)
(* time, undo restores what was there before the session.                  *)
(***************************************************************************)
EXTENDS RecorderInv, DiffProofs

LEMMA EmptyType == Empty \in KeySets /\ EmptyDiff \in Diffs /\ WellFormed(EmptyDiff)
  BY NoEntryType DEF Empty, KeySets, Held, EmptyDiff, Diffs, WellFormed

LEMMA DiffTypes ==
    ASSUME NEW d \in Diffs, NEW s \in KeySets, NEW below
    PROVE  DiffCut(d, below) \in Diffs /\ DiffRemove(d, below) \in Diffs /\ DiffUndo(d, s) \in KeySets
  BY NoEntryType DEF DiffCut, DiffRemove, DiffUndo, UndoEntry, Diffs, Entries, KeySets, Held

LEMMA RemoveWellFormed ==
    ASSUME NEW d \in Diffs, WellFormed(d), NEW below
    PROVE  WellFormed(DiffRemove(d, below))
  BY NoEntryType DEF DiffRemove, WellFormed

LEMMA PartDiffType ==
    ASSUME TypeOK, NEW p \in Procs
    PROVE  PartDiff(p) \in Diffs /\ WellFormed(PartDiff(p))
  <1> DEFINE toRecord == [k \in Keys |-> IF Owner[k] \in changed[p] THEN ks[p][k] ELSE Absent]
  <1>1. toRecord \in KeySets /\ allKeys[p] \in KeySets
    BY DEF TypeOK, KeySets, Held
  <1> QED
    BY <1>1, CalculateType DEF PartDiff

LEMMA AppendType ==
    ASSUME NEW d \in Diffs, NEW s \in Diffs
    PROVE  DiffAppend(d, s) \in Diffs
  <1>1. \A e \in Entries, v \in Held : AppendAdded(e, v) \in Entries
    BY DEF AppendAdded, Entries
  <1>2. \A e \in Entries, v, w \in Held : AppendModified(e, v, w) \in Entries
    <2> SUFFICES ASSUME NEW e \in Entries, NEW v \in Held, NEW w \in Held
                 PROVE  AppendModified(e, v, w) \in Entries
      OBVIOUS
    <2>1. Absent \in Held
      BY DEF Held
    <2>2. [e EXCEPT !.added = v] \in Entries /\ [e EXCEPT !.new = v] \in Entries
      BY DEF Entries
    <2>3. [e EXCEPT !.old = Absent, !.new = Absent] \in Entries
      BY <2>1 DEF Entries
    <2>4. [e EXCEPT !.old = w, !.new = v] \in Entries
      BY DEF Entries
    <2> QED
      BY <2>2, <2>3, <2>4 DEF AppendModified
  <1>3. \A e \in Entries, v \in Held : AppendRemoved(e, v) \in Entries
    <2> SUFFICES ASSUME NEW e \in Entries, NEW v \in Held PROVE AppendRemoved(e, v) \in Entries
      OBVIOUS
    <2>1. Absent \in Held
      BY DEF Held
    <2>2. [e EXCEPT !.added = Absent] \in Entries /\ [e EXCEPT !.removed = v] \in Entries
      BY <2>1 DEF Entries
    <2>3. [e EXCEPT !.removed = e.old, !.old = Absent, !.new = Absent] \in Entries
      BY <2>1 DEF Entries
    <2> QED
      BY <2>2, <2>3 DEF AppendRemoved
  <1>4. \A e, f \in Entries : AppendEntry(e, f) \in Entries
    <2> SUFFICES ASSUME NEW e \in Entries, NEW f \in Entries PROVE AppendEntry(e, f) \in Entries
      OBVIOUS
    <2>1. f.added \in Held /\ f.removed \in Held /\ f.old \in Held /\ f.new \in Held
      BY DEF Entries
    <2> QED
      BY <1>1, <1>2, <1>3, <2>1 DEF AppendEntry
  <1> QED
    BY <1>4 DEF DiffAppend, Diffs

LEMMA WithPendingType ==
    ASSUME TypeOK, NEW d \in Diffs
    PROVE  WithPending(d) \in Diffs
  BY AppendType, PartDiffType DEF WithPending, TypeOK

LEMMA StoreTypes ==
    ASSUME TypeOK, NEW p \in Procs, NEW bs
    PROVE  /\ DiskAfterStore(p, bs) \in KeySets
           /\ SeenAfterStore(p, bs) \in [Procs -> [Backends -> Knowledge]]
           /\ StartAfterStore(p, bs) \in KeySets
           /\ AllKeysAfterSet(p) \in KeySets
  BY DEF TypeOK, DiskAfterStore, SeenAfterStore, StartAfterStore, AllKeysAfterSet, Outdated,
         Knowledge, KeySets

LEMMA GetTypes ==
    ASSUME TypeOK, NEW p \in Procs, NEW par \in Parents
    PROVE  /\ AllKeysAfterGet(p, par) \in KeySets
           /\ SeenAfterGet(p, par) \in [Procs -> [Backends -> Knowledge]]
           /\ Loaded(ToLoad(p, par)) \in KeySets
  <1>1. Loaded(ToLoad(p, par)) \in KeySets
    BY DEF TypeOK, Loaded, KeySets, Held
  <1>2. AllKeysAfterGet(p, par) \in KeySets
    BY <1>1 DEF TypeOK, AllKeysAfterGet, KeySets
  <1>3. SeenAfterGet(p, par) \in [Procs -> [Backends -> Knowledge]]
    BY DEF TypeOK, SeenAfterGet, Knowledge
  <1> QED
    BY <1>1, <1>2, <1>3

LEMMA LostType ==
    ASSUME TypeOK, NEW p \in Procs
    PROVE  ToRecord(p) \subseteq Keys /\ LostUnrecorded(p) \subseteq Keys
  BY DEF TypeOK, LostUnrecorded, ToRecord

LEMMA LoadedSessionType ==
    ASSUME TypeOK, NEW p \in Procs
    PROVE  LoadedSession(p) \in Diffs
  BY EmptyType DEF TypeOK, LoadedSession

LEMMA SessionKnownType ==
    ASSUME TypeOK, NEW p \in Procs, NEW own, SessionKnown(p, own)
    PROVE  sess' \in [Procs -> Knowledge] /\ rec' \in [Procs -> Knowledge]
  BY DEF TypeOK, SessionKnown, Outdated, Knowledge

LEMMA StoreSessionType ==
    ASSUME TypeOK, NEW p \in Procs, NEW own, StoreSession(p, own)
    PROVE  /\ session' \in Diffs /\ lost' \subseteq Keys
           /\ sess' \in [Procs -> Knowledge] /\ rec' \in [Procs -> Knowledge]
  <1>1. session' \in Diffs /\ SessionKnown(p, own)
    BY DEF StoreSession, TypeOK
  <1>2. lost' \subseteq Keys
    BY LostType DEF StoreSession, TypeOK
  <1> QED
    BY <1>1, <1>2, SessionKnownType

LEMMA ReturnType ==
    ASSUME TypeOK, NEW p \in Procs, Return(p)
    PROVE  /\ ks' \in [Procs -> KeySets]
           /\ parent' \in [Procs -> Parents \union {{}}]
           /\ changed' \in [Procs -> SUBSET Backends]
           /\ rest' \in [Procs -> Diffs]
           /\ pc' \in [Procs -> {"idle", "lock", "storage", "record", "recordSet", "end",
                                 "editStore", "undoSet", "undoStore"}]
  BY EmptyType DEF TypeOK, Return

LEMMA FreshHandleType ==
    ASSUME TypeOK, NEW p \in Procs, FreshHandle(p)
    PROVE  /\ active' \in [Procs -> SessionParents \union {NoSession}]
           /\ allKeys' \in [Procs -> KeySets]
           /\ seen' \in [Procs -> [Backends -> Knowledge]]
           /\ sess' \in [Procs -> Knowledge]
  BY EmptyType DEF TypeOK, FreshHandle, Knowledge

LEMMA TypeInit == Init => TypeOK
  BY EmptyType, RecorderAssumption DEF Init, TypeOK, Knowledge

-----------------------------------------------------------------------------
(***************************************************************************)
(* Type correctness.                                                       *)
(***************************************************************************)

\* The steps of process p, one disjunct per action.
NextOf(p) ==
    \/ Reopen(p)
    \/ Crash(p)
    \/ \E par \in Parents : Get(p, par)
    \/ \E par \in Parents : UndoLoad(p, par)
    \/ \E par \in Parents, new \in KeySets : SetResolver(p, par, new)
    \/ \E s \in SessionParents \union {NoSession} : Configure(p, s)
    \/ \E below \in SUBSET Keys : EditLoad(p, below)
    \/ RecorderLock(p)
    \/ SetFails(p)
    \/ Commit(p)
    \/ CommitFails(p)
    \/ Record(p)
    \/ RecordSet(p)
    \/ RecordFails(p)
    \/ SetEnd(p)
    \/ EditStore(p)
    \/ UndoSet(p)
    \/ UndoStore(p)

LEMMA NextIsOfOne ==
    ASSUME Next
    PROVE  \E p \in Procs : NextOf(p)
  BY DEF Next, Continue, EnableRecording, DisableRecording, NextOf

LEMMA TypeStep == TypeOK /\ [Next]_vars => TypeOK'
  <1> SUFFICES ASSUME TypeOK, Next PROVE TypeOK'
    BY DEF TypeOK, vars, handleVars, callVars, histVars, countVars
  <1> USE DEF handleVars, callVars, histVars, countVars
  <1> PICK p \in Procs : NextOf(p)
    BY NextIsOfOne
  <1>1. CASE Reopen(p)
    BY <1>1, FreshHandleType DEF Reopen, TypeOK
  <1>2. CASE Crash(p)
    <2>1. manages' \in 0 .. MaxManage
      BY <1>2, RecorderAssumption DEF Crash, TypeOK
    <2>2. QED
      BY <1>2, <2>1, FreshHandleType, ReturnType, LostType DEF Crash, TypeOK
  <1>3. CASE \E par \in Parents : Get(p, par)
    BY <1>3, GetTypes DEF Get, TypeOK
  <1>4. CASE \E par \in Parents : UndoLoad(p, par)
    <2> PICK par \in Parents : UndoLoad(p, par)
      BY <1>4
    <2> DEFINE undoDiff == DiffCut(LoadedSession(p), KeysOf(par))
    <2>1. /\ DiffUndo(undoDiff, Loaded(ToLoad(p, par))) \in KeySets
          /\ DiffRemove(LoadedSession(p), KeysOf(par)) \in Diffs
      BY GetTypes, LoadedSessionType, DiffTypes
    <2>2. sess' \in [Procs -> Knowledge] /\ manages' \in 0 .. MaxManage
      BY RecorderAssumption DEF UndoLoad, Manage, TypeOK, Knowledge
    <2> HIDE DEF undoDiff
    <2>3. CASE DiffIsEmpty(undoDiff)
      BY <2>2, <2>3 DEF UndoLoad, undoDiff, TypeOK
    <2>4. CASE ~DiffIsEmpty(undoDiff)
      <3>1. /\ ks' = [ks EXCEPT ![p] = DiffUndo(undoDiff, Loaded(ToLoad(p, par)))]
            /\ rest' = [rest EXCEPT ![p] = DiffRemove(LoadedSession(p), KeysOf(par))]
            /\ allKeys' = [allKeys EXCEPT ![p] = AllKeysAfterGet(p, par)]
            /\ seen' = SeenAfterGet(p, par)
            /\ parent' = [parent EXCEPT ![p] = par]
            /\ pc' = [pc EXCEPT ![p] = "undoSet"]
            /\ UNCHANGED <<disk, session, config, flock, active, changed, rec, histVars,
                           sets>>
        BY <2>4 DEF UndoLoad, undoDiff
      <3>2. ks' \in [Procs -> KeySets] /\ rest' \in [Procs -> Diffs]
        BY <2>1, <3>1 DEF TypeOK
      <3>3. allKeys' \in [Procs -> KeySets] /\ seen' \in [Procs -> [Backends -> Knowledge]]
        BY <3>1, GetTypes DEF TypeOK
      <3> QED
        BY <2>2, <3>1, <3>2, <3>3 DEF TypeOK
    <2> QED
      BY <2>3, <2>4
  <1>5. CASE \E par \in Parents, new \in KeySets : SetResolver(p, par, new)
    BY <1>5, RecorderAssumption DEF SetResolver, Differs, TypeOK
  <1>6. CASE \E s \in SessionParents \union {NoSession} : Configure(p, s)
    BY <1>6, RecorderAssumption DEF Configure, Manage, TypeOK
  <1>7. CASE \E below \in SUBSET Keys : EditLoad(p, below)
    <2> PICK below \in SUBSET Keys : EditLoad(p, below)
      BY <1>7
    <2>1. DiffRemove(LoadedSession(p), below) \in Diffs
      BY LoadedSessionType, DiffTypes DEF TypeOK
    <2>2. rest' \in [Procs -> Diffs] /\ pc' \in [Procs -> {"idle", "lock", "storage", "record",
                "recordSet", "end", "editStore", "undoSet", "undoStore"}]
      BY <2>1 DEF EditLoad, TypeOK
    <2>3. sess' \in [Procs -> Knowledge]
      BY DEF EditLoad, TypeOK, Knowledge
    <2> QED
      BY <2>2, <2>3, RecorderAssumption DEF EditLoad, Manage, TypeOK
  <1>8. CASE RecorderLock(p)
    BY <1>8, ReturnType DEF RecorderLock, TypeOK
  <1>9. CASE SetFails(p)
    BY <1>9, ReturnType DEF SetFails, RecorderUnlock, TypeOK
  <1>10. CASE Commit(p)
    BY <1>10, StoreTypes DEF Commit, TypeOK
  <1>11. CASE CommitFails(p)
    BY <1>11, StoreTypes, ReturnType, LostType DEF CommitFails, RecorderUnlock, TypeOK
  <1>12. CASE Record(p)
    <2>1. DiffAppend(session, PartDiff(p)) \in Diffs
      BY PartDiffType, AppendType DEF TypeOK
    <2>2. rest' \in [Procs -> Diffs]
      <3>1. rest' = rest \/ rest' = [rest EXCEPT ![p] = DiffAppend(session, PartDiff(p))]
        BY <1>12 DEF Record
      <3> QED
        BY <2>1, <3>1 DEF TypeOK
    <2>3. rec' \in [Procs -> Knowledge]
      BY <1>12 DEF Record, TypeOK, Knowledge
    <2>4. pc' = [pc EXCEPT ![p] = "end"] \/ pc' = [pc EXCEPT ![p] = "recordSet"]
      BY <1>12 DEF Record
    <2> QED
      BY <1>12, <2>2, <2>4, <2>3 DEF Record, TypeOK
  <1>13. CASE RecordSet(p)
    BY <1>13, StoreSessionType, LostType DEF RecordSet, TypeOK
  <1>14. CASE RecordFails(p)
    BY <1>14, LostType DEF RecordFails, TypeOK
  <1>15. CASE SetEnd(p)
    BY <1>15, StoreTypes, ReturnType DEF SetEnd, RecorderUnlock, TypeOK
  <1>16. CASE EditStore(p)
    <2>1. StartAfterEdit(p) \in KeySets
      <3>1. DiffUndo(WithPending(rest[p]), disk) \in KeySets
        BY WithPendingType, DiffTypes DEF TypeOK
      <3> QED
        BY <3>1 DEF StartAfterEdit, TypeOK, KeySets
    <2>2. start' \in KeySets
      BY <1>16, <2>1 DEF EditStore, TypeOK
    <2>3. /\ session' \in Diffs /\ lost' \subseteq Keys
          /\ sess' \in [Procs -> Knowledge] /\ rec' \in [Procs -> Knowledge]
      BY <1>16, StoreSessionType DEF EditStore, TypeOK
    <2> QED
      BY <1>16, <2>2, <2>3, ReturnType DEF EditStore, TypeOK
  <1>17. CASE UndoSet(p)
    <2> DEFINE bs == Differs(p, ks[p], parent[p])
    <2>1. CASE Return(p) /\ UNCHANGED <<disk, seen, allKeys>>
      BY <1>17, <2>1, ReturnType DEF UndoSet, TypeOK
    <2>2. CASE /\ disk' = DiskAfterStore(p, bs)
               /\ seen' = SeenAfterStore(p, bs)
               /\ allKeys' = [allKeys EXCEPT ![p] = AllKeysAfterSet(p)]
               /\ pc' = [pc EXCEPT ![p] = "undoStore"]
               /\ UNCHANGED callVars
      BY <1>17, <2>2, StoreTypes DEF UndoSet, TypeOK
    <2> QED
      BY <1>17, <2>1, <2>2 DEF UndoSet
  <1>18. CASE UndoStore(p)
    <2>1. /\ session' \in Diffs /\ lost' \subseteq Keys
          /\ sess' \in [Procs -> Knowledge] /\ rec' \in [Procs -> Knowledge]
      BY <1>18, StoreSessionType DEF UndoStore, TypeOK
    <2> QED
      BY <1>18, <2>1, ReturnType DEF UndoStore, TypeOK
  <1> QED
    BY <1>1, <1>2, <1>3, <1>4, <1>5, <1>6, <1>7, <1>8, <1>9, <1>10, <1>11, <1>12, <1>13,
       <1>14, <1>15, <1>16, <1>17, <1>18 DEF NextOf

\* Every variable keeps to its type.
THEOREM TypeCorrect == Spec => []TypeOK
  BY TypeInit, TypeStep, PTL DEF Spec

-----------------------------------------------------------------------------
(***************************************************************************)
(* The lock of the recorder.                                               *)
(***************************************************************************)
LEMMA NoProcOther == NoProc \notin Procs
  BY RecorderAssumption

LEMMA LockStep == TypeOK /\ LockOnlyInSet /\ LockHeld /\ [Next]_vars => (LockOnlyInSet /\ LockHeld)'
  <1> SUFFICES ASSUME TypeOK, LockOnlyInSet, LockHeld, Next PROVE (LockOnlyInSet /\ LockHeld)'
    BY DEF LockOnlyInSet, LockHeld, vars, handleVars, callVars, histVars, countVars
  <1> USE DEF handleVars, callVars, histVars, countVars
  <1> PICK p \in Procs : NextOf(p)
    BY NextIsOfOne
  <1>1. CASE Reopen(p)
    BY <1>1 DEF Reopen, FreshHandle, LockOnlyInSet, LockHeld, TypeOK
  <1>2. CASE Crash(p)
    BY <1>2, NoProcOther DEF Crash, FreshHandle, Return, LockOnlyInSet, LockHeld, TypeOK
  <1>3. CASE \E par \in Parents : Get(p, par)
    BY <1>3 DEF Get, LockOnlyInSet, LockHeld, TypeOK
  <1>4. CASE \E par \in Parents : UndoLoad(p, par)
    BY <1>4 DEF UndoLoad, Manage, LockOnlyInSet, LockHeld, TypeOK
  <1>5. CASE \E par \in Parents, new \in KeySets : SetResolver(p, par, new)
    BY <1>5 DEF SetResolver, LockOnlyInSet, LockHeld, TypeOK
  <1>6. CASE \E s \in SessionParents \union {NoSession} : Configure(p, s)
    BY <1>6 DEF Configure, Manage, LockOnlyInSet, LockHeld, TypeOK
  <1>7. CASE \E below \in SUBSET Keys : EditLoad(p, below)
    BY <1>7 DEF EditLoad, Manage, LockOnlyInSet, LockHeld, TypeOK
  <1>8. CASE RecorderLock(p)
    BY <1>8, NoProcOther DEF RecorderLock, Return, LockOnlyInSet, LockHeld, TypeOK
  <1>9. CASE SetFails(p)
    BY <1>9, NoProcOther DEF SetFails, RecorderUnlock, Return, LockOnlyInSet, LockHeld, TypeOK
  <1>10. CASE Commit(p)
    BY <1>10 DEF Commit, LockOnlyInSet, LockHeld, TypeOK
  <1>11. CASE CommitFails(p)
    BY <1>11, NoProcOther DEF CommitFails, RecorderUnlock, Return, LockOnlyInSet, LockHeld, TypeOK
  <1>12. CASE Record(p)
    BY <1>12 DEF Record, LockOnlyInSet, LockHeld, TypeOK
  <1>13. CASE RecordSet(p)
    BY <1>13 DEF RecordSet, LockOnlyInSet, LockHeld, TypeOK
  <1>14. CASE RecordFails(p)
    BY <1>14 DEF RecordFails, LockOnlyInSet, LockHeld, TypeOK
  <1>15. CASE SetEnd(p)
    BY <1>15, NoProcOther DEF SetEnd, RecorderUnlock, Return, LockOnlyInSet, LockHeld, TypeOK
  <1>16. CASE EditStore(p)
    BY <1>16 DEF EditStore, Return, LockOnlyInSet, LockHeld, TypeOK
  <1>17. CASE UndoSet(p)
    BY <1>17 DEF UndoSet, Return, LockOnlyInSet, LockHeld, TypeOK
  <1>18. CASE UndoStore(p)
    BY <1>18 DEF UndoStore, Return, LockOnlyInSet, LockHeld, TypeOK
  <1> QED
    BY <1>1, <1>2, <1>3, <1>4, <1>5, <1>6, <1>7, <1>8, <1>9, <1>10, <1>11, <1>12, <1>13,
       <1>14, <1>15, <1>16, <1>17, <1>18 DEF NextOf

\* Every way out of kdbSet() gives the lock file up.
THEOREM LockNeverLeaks == Spec => []LockOnlyInSet
  <1>1. Init => LockOnlyInSet /\ LockHeld
    BY NoProcOther DEF Init, LockOnlyInSet, LockHeld
  <1> QED
    BY <1>1, TypeCorrect, LockStep, PTL DEF Spec

\* elektraRecorderRecord of two processes never run at the same time.
THEOREM RecordingExclusive == Spec => []OneRecorder
  <1>1. Init => LockOnlyInSet /\ LockHeld
    BY NoProcOther DEF Init, LockOnlyInSet, LockHeld
  <1>2. LockHeld => OneRecorder
    BY DEF LockHeld, OneRecorder, Pending
  <1> QED
    BY <1>1, <1>2, TypeCorrect, LockStep, PTL DEF Spec

-----------------------------------------------------------------------------
(***************************************************************************)
(* The session diff is a diff.                                             *)
(***************************************************************************)
LEMMA LoadedSessionWellFormed ==
    ASSUME TypeOK, DiffsWellFormed, NEW p \in Procs
    PROVE  WellFormed(LoadedSession(p))
  BY EmptyType DEF LoadedSession, DiffsWellFormed

LEMMA WellFormedStep == TypeOK /\ DiffsWellFormed /\ [Next]_vars => DiffsWellFormed'
  <1> SUFFICES ASSUME TypeOK, DiffsWellFormed, Next PROVE DiffsWellFormed'
    BY DEF DiffsWellFormed, vars, handleVars, callVars, histVars, countVars
  <1> USE DEF handleVars, callVars, histVars, countVars
  <1> PICK p \in Procs : NextOf(p)
    BY NextIsOfOne
  <1>1. CASE Reopen(p)
    BY <1>1 DEF Reopen, FreshHandle, DiffsWellFormed, TypeOK
  <1>2. CASE Crash(p)
    BY <1>2, EmptyType DEF Crash, FreshHandle, Return, DiffsWellFormed, TypeOK
  <1>3. CASE \E par \in Parents : Get(p, par)
    BY <1>3 DEF Get, DiffsWellFormed, TypeOK
  <1>4. CASE \E par \in Parents : UndoLoad(p, par)
    <2> PICK par \in Parents : UndoLoad(p, par)
      BY <1>4
    <2>1. rest' = rest \/ rest' = [rest EXCEPT ![p] = DiffRemove(LoadedSession(p), KeysOf(par))]
      BY DEF UndoLoad
    <2>2. session' = session
      BY DEF UndoLoad
    <2>3. WellFormed(DiffRemove(LoadedSession(p), KeysOf(par)))
      BY LoadedSessionWellFormed, LoadedSessionType, RemoveWellFormed
    <2> QED
      BY <2>1, <2>2, <2>3 DEF DiffsWellFormed, TypeOK
  <1>5. CASE \E par \in Parents, new \in KeySets : SetResolver(p, par, new)
    BY <1>5 DEF SetResolver, DiffsWellFormed, TypeOK
  <1>6. CASE \E s \in SessionParents \union {NoSession} : Configure(p, s)
    BY <1>6 DEF Configure, Manage, DiffsWellFormed, TypeOK
  <1>7. CASE \E below \in SUBSET Keys : EditLoad(p, below)
    <2> PICK below \in SUBSET Keys : EditLoad(p, below)
      BY <1>7
    <2>1. rest' = rest \/ rest' = [rest EXCEPT ![p] = DiffRemove(LoadedSession(p), below)]
      BY DEF EditLoad
    <2>2. session' = session
      BY DEF EditLoad
    <2>3. WellFormed(DiffRemove(LoadedSession(p), below))
      BY LoadedSessionWellFormed, LoadedSessionType, RemoveWellFormed
    <2> QED
      BY <2>1, <2>2, <2>3 DEF DiffsWellFormed, TypeOK
  <1>8. CASE RecorderLock(p)
    BY <1>8, EmptyType DEF RecorderLock, Return, DiffsWellFormed, TypeOK
  <1>9. CASE SetFails(p)
    BY <1>9, EmptyType DEF SetFails, RecorderUnlock, Return, DiffsWellFormed, TypeOK
  <1>10. CASE Commit(p)
    BY <1>10 DEF Commit, DiffsWellFormed, TypeOK
  <1>11. CASE CommitFails(p)
    BY <1>11, EmptyType DEF CommitFails, RecorderUnlock, Return, DiffsWellFormed, TypeOK
  <1>12. CASE Record(p)
    <2>1. rest' = rest \/ rest' = [rest EXCEPT ![p] = DiffAppend(session, PartDiff(p))]
      BY <1>12 DEF Record
    <2>2. session' = session
      BY <1>12 DEF Record
    <2>3. WellFormed(DiffAppend(session, PartDiff(p)))
      BY PartDiffType, AppendWellFormed DEF DiffsWellFormed, TypeOK
    <2> QED
      BY <2>1, <2>2, <2>3 DEF DiffsWellFormed, TypeOK
  <1>13. CASE RecordSet(p)
    BY <1>13 DEF RecordSet, StoreSession, DiffsWellFormed, TypeOK
  <1>14. CASE RecordFails(p)
    BY <1>14 DEF RecordFails, DiffsWellFormed, TypeOK
  <1>15. CASE SetEnd(p)
    BY <1>15, EmptyType DEF SetEnd, RecorderUnlock, Return, DiffsWellFormed, TypeOK
  <1>16. CASE EditStore(p)
    BY <1>16, EmptyType DEF EditStore, StoreSession, Return, DiffsWellFormed, TypeOK
  <1>17. CASE UndoSet(p)
    BY <1>17, EmptyType DEF UndoSet, Return, DiffsWellFormed, TypeOK
  <1>18. CASE UndoStore(p)
    BY <1>18, EmptyType DEF UndoStore, StoreSession, Return, DiffsWellFormed, TypeOK
  <1> QED
    BY <1>1, <1>2, <1>3, <1>4, <1>5, <1>6, <1>7, <1>8, <1>9, <1>10, <1>11, <1>12, <1>13,
       <1>14, <1>15, <1>16, <1>17, <1>18 DEF NextOf

\* Both key sets of modified keys in the session agree, whatever is recorded, undone
\* or removed from it.
THEOREM SessionIsDiff == Spec => []SessionWellFormed
  <1>1. Init => DiffsWellFormed
    BY EmptyType DEF Init, DiffsWellFormed
  <1>2. DiffsWellFormed => SessionWellFormed
    BY DEF DiffsWellFormed, SessionWellFormed
  <1> QED
    BY <1>1, <1>2, TypeCorrect, WellFormedStep, PTL DEF Spec

-----------------------------------------------------------------------------
(***************************************************************************)
(* Sessions stay exact.                                                    *)
(***************************************************************************)

\* A parent key stands for one backend and the keys in its file.
LEMMA KeysOfParent ==
    ASSUME Sound, NEW par \in Parents
    PROVE  /\ \E b \in Backends : par = {b}
           /\ \A k \in Keys : k \in KeysOf(par) <=> Owner[k] \in par
  BY RecorderAssumption DEF Sound, KeysOf

LEMMA SoundUses ==
    ASSUME Sound
    PROVE  "undo" \notin Uses /\ "reuse" \notin Uses /\ "foreign" \notin Uses
  BY DEF Sound

\* kdbSet() of one backend stays one.
LEMMA OneBackendStep ==
    ASSUME Sound, RecorderInvariant, [Next]_vars
    PROVE  SetOfOneBackend'
  <1> USE DEF RecorderInvariant, handleVars, callVars, histVars, countVars
  <1>0. CASE UNCHANGED vars
    BY <1>0 DEF vars, SetOfOneBackend, InSet
  <1> SUFFICES ASSUME Next PROVE SetOfOneBackend'
    BY <1>0
  <1> PICK p \in Procs : NextOf(p)
    BY NextIsOfOne
  <1>1. CASE Reopen(p)
    BY <1>1 DEF Reopen, FreshHandle, SetOfOneBackend, InSet, TypeOK
  <1>2. CASE Crash(p)
    BY <1>2 DEF Crash, FreshHandle, Return, SetOfOneBackend, InSet, TypeOK
  <1>3. CASE \E par \in Parents : Get(p, par)
    BY <1>3 DEF Get, SetOfOneBackend, InSet, TypeOK
  <1>4. CASE \E par \in Parents : UndoLoad(p, par)
    BY <1>4 DEF UndoLoad, Manage, SetOfOneBackend, InSet, UndoUnderWay, TypeOK
  <1>5. CASE \E par \in Parents, new \in KeySets : SetResolver(p, par, new)
    <2> PICK par \in Parents, new \in KeySets : SetResolver(p, par, new)
      BY <1>5
    <2>1. Differs(p, new, par) = par
      BY KeysOfParent DEF SetResolver, Differs
    <2> QED
      BY <2>1, SoundUses DEF SetResolver, SetOfOneBackend, InSet, TypeOK
  <1>6. CASE \E s \in SessionParents \union {NoSession} : Configure(p, s)
    BY <1>6 DEF Configure, Manage, SetOfOneBackend, InSet, TypeOK
  <1>7. CASE \E below \in SUBSET Keys : EditLoad(p, below)
    BY <1>7 DEF EditLoad, Manage, SetOfOneBackend, InSet, TypeOK
  <1>8. CASE RecorderLock(p)
    BY <1>8 DEF RecorderLock, Return, SetOfOneBackend, InSet, TypeOK
  <1>9. CASE SetFails(p)
    BY <1>9 DEF SetFails, RecorderUnlock, Return, SetOfOneBackend, InSet, TypeOK
  <1>10. CASE Commit(p)
    BY <1>10 DEF Commit, SetOfOneBackend, InSet, TypeOK
  <1>11. CASE CommitFails(p)
    BY <1>11 DEF CommitFails, RecorderUnlock, Return, SetOfOneBackend, InSet, TypeOK
  <1>12. CASE Record(p)
    BY <1>12 DEF Record, SetOfOneBackend, InSet, TypeOK
  <1>13. CASE RecordSet(p)
    BY <1>13 DEF RecordSet, SetOfOneBackend, InSet, TypeOK
  <1>14. CASE RecordFails(p)
    BY <1>14 DEF RecordFails, SetOfOneBackend, InSet, TypeOK
  <1>15. CASE SetEnd(p)
    BY <1>15 DEF SetEnd, RecorderUnlock, Return, SetOfOneBackend, InSet, TypeOK
  <1>16. CASE EditStore(p)
    BY <1>16 DEF EditStore, Return, SetOfOneBackend, InSet, TypeOK
  <1>17. CASE UndoSet(p)
    <2>1. pc[p] = "undoSet" /\ pc'[p] \notin InSet
      BY <1>17 DEF UndoSet, Return, InSet, TypeOK
    <2>2. \A q \in Procs \ {p} : /\ pc'[q] = pc[q] /\ parent'[q] = parent[q] /\ ks'[q] = ks[q]
                                /\ allKeys'[q] = allKeys[q] /\ changed'[q] = changed[q]
      BY <1>17 DEF UndoSet, Return, TypeOK, callVars
    <2> QED
      BY <2>1, <2>2 DEF SetOfOneBackend
  <1>18. CASE UndoStore(p)
    BY <1>18 DEF UndoStore, Return, SetOfOneBackend, InSet, TypeOK
  <1> QED
    BY <1>1, <1>2, <1>3, <1>4, <1>5, <1>6, <1>7, <1>8, <1>9, <1>10, <1>11, <1>12, <1>13, <1>14,
       <1>15, <1>16, <1>17, <1>18 DEF NextOf

\* A file that kdbSet() is about to store is reserved for it.
LEMMA FilesReservedStep ==
    ASSUME Sound, RecorderInvariant, [Next]_vars
    PROVE  FilesReserved'
  <1> USE DEF RecorderInvariant, handleVars, callVars, histVars, countVars
  <1>0. CASE UNCHANGED vars
    BY <1>0 DEF vars, FilesReserved
  <1> SUFFICES ASSUME Next PROVE FilesReserved'
    BY <1>0
  <1> PICK p \in Procs : NextOf(p)
    BY NextIsOfOne
  <1>1. CASE Reopen(p)
    BY <1>1 DEF Reopen, FreshHandle, FilesReserved, TypeOK
  <1>2. CASE Crash(p)
    BY <1>2 DEF Crash, FreshHandle, Return, FilesReserved, TypeOK
  <1>3. CASE \E par \in Parents : Get(p, par)
    BY <1>3 DEF Get, FilesReserved, SeenAfterGet, TypeOK
  <1>4. CASE \E par \in Parents : UndoLoad(p, par)
    <2> PICK par \in Parents : UndoLoad(p, par)
      BY <1>4
    <2>1. CASE UNCHANGED <<pc, seen>>
      BY <2>1 DEF UndoLoad, FilesReserved
    <2>2. CASE pc' = [pc EXCEPT ![p] = "undoSet"] /\ seen' = SeenAfterGet(p, par)
      BY <2>2 DEF UndoLoad, SeenAfterGet, FilesReserved, TypeOK
    <2> QED
      BY <2>1, <2>2 DEF UndoLoad
  <1>5. CASE \E par \in Parents, new \in KeySets : SetResolver(p, par, new)
    BY <1>5 DEF SetResolver, FilesReserved, Conflict, FileLocked, TypeOK
  <1>6. CASE \E s \in SessionParents \union {NoSession} : Configure(p, s)
    BY <1>6 DEF Configure, Manage, FilesReserved, TypeOK
  <1>7. CASE \E below \in SUBSET Keys : EditLoad(p, below)
    BY <1>7 DEF EditLoad, Manage, FilesReserved, TypeOK
  <1>8. CASE RecorderLock(p)
    <2>1. CASE pc' = [pc EXCEPT ![p] = "storage"] /\ UNCHANGED callVars
      BY <1>8, <2>1 DEF RecorderLock, FilesReserved, TypeOK
    <2>2. CASE Return(p)
      BY <1>8, <2>2 DEF RecorderLock, Return, FilesReserved, TypeOK
    <2> QED
      BY <1>8, <2>1, <2>2 DEF RecorderLock
  <1>9. CASE SetFails(p)
    BY <1>9 DEF SetFails, RecorderUnlock, Return, FilesReserved, TypeOK
  <1>10. CASE Commit(p)
    BY <1>10 DEF Commit, FilesReserved, SeenAfterStore, SetOfOneBackend, InSet, TypeOK
  <1>11. CASE CommitFails(p)
    BY <1>11 DEF CommitFails, RecorderUnlock, Return, FilesReserved, SeenAfterStore,
       SetOfOneBackend, InSet, TypeOK
  <1>12. CASE Record(p)
    <2>1. CASE pc' = [pc EXCEPT ![p] = "end"]
      BY <1>12, <2>1 DEF Record, FilesReserved, TypeOK
    <2>2. CASE pc' = [pc EXCEPT ![p] = "recordSet"]
      BY <1>12, <2>2 DEF Record, FilesReserved, TypeOK
    <2> QED
      BY <1>12, <2>1, <2>2 DEF Record
  <1>13. CASE RecordSet(p)
    BY <1>13 DEF RecordSet, FilesReserved, TypeOK
  <1>14. CASE RecordFails(p)
    BY <1>14 DEF RecordFails, FilesReserved, TypeOK
  <1>15. CASE SetEnd(p)
    BY <1>15 DEF SetEnd, RecorderUnlock, Return, FilesReserved, TypeOK
  <1>16. CASE EditStore(p)
    BY <1>16 DEF EditStore, Return, FilesReserved, TypeOK
  <1>17. CASE UndoSet(p)
    <2>1. CASE Return(p) /\ UNCHANGED seen
      BY <1>17, <2>1 DEF UndoSet, Return, FilesReserved, TypeOK
    <2>2. CASE pc' = [pc EXCEPT ![p] = "undoStore"]
      BY <1>17, <2>2 DEF UndoSet, FilesReserved, UndoExact, UndoExactOf, TypeOK
    <2> QED
      BY <1>17, <2>1, <2>2 DEF UndoSet
  <1>18. CASE UndoStore(p)
    BY <1>18 DEF UndoStore, Return, FilesReserved, TypeOK
  <1> QED
    BY <1>1, <1>2, <1>3, <1>4, <1>5, <1>6, <1>7, <1>8, <1>9, <1>10, <1>11, <1>12, <1>13, <1>14,
       <1>15, <1>16, <1>17, <1>18 DEF NextOf

\* Whoever stores another session diff outdates what others know of it.
LEMMA OthersOutdated ==
    ASSUME TypeOK, NEW p \in Procs, NEW own \in BOOLEAN, StoreSession(p, own),
           NEW q \in Procs \ {p}
    PROVE  /\ sess'[q] = "current" => sess[q] = "current" /\ session' = session
           /\ rec'[q] = "current" => rec[q] = "current" /\ session' = session
  <1>1. /\ session' = rest[p]
        /\ sess'[q] = IF rest[p] = session THEN sess[q] ELSE Outdated(sess[q])
        /\ rec'[q] = IF rest[p] = session THEN rec[q] ELSE Outdated(rec[q])
    BY DEF StoreSession, SessionKnown
  <1> QED
    BY <1>1 DEF Outdated

\* A process leaves the calls of the others alone.
LEMMA OthersUntouched ==
    ASSUME TypeOK, NEW p \in Procs, NextOf(p), NEW q \in Procs \ {p}
    PROVE  /\ pc'[q] = pc[q] /\ active'[q] = active[q] /\ changed'[q] = changed[q]
           /\ ks'[q] = ks[q] /\ allKeys'[q] = allKeys[q] /\ rest'[q] = rest[q]
           /\ rec'[q] = "current" => rec[q] = "current" /\ session' = session
  <1> USE DEF handleVars, callVars, histVars, countVars
  <1>1. CASE Reopen(p)
    BY <1>1 DEF Reopen, FreshHandle, TypeOK
  <1>2. CASE Crash(p)
    BY <1>2 DEF Crash, FreshHandle, Return, TypeOK
  <1>3. CASE \E par \in Parents : Get(p, par)
    BY <1>3 DEF Get, TypeOK
  <1>4. CASE \E par \in Parents : UndoLoad(p, par)
    BY <1>4 DEF UndoLoad, Manage, TypeOK
  <1>5. CASE \E par \in Parents, new \in KeySets : SetResolver(p, par, new)
    BY <1>5 DEF SetResolver, TypeOK
  <1>6. CASE \E s \in SessionParents \union {NoSession} : Configure(p, s)
    BY <1>6 DEF Configure, Manage, TypeOK
  <1>7. CASE \E below \in SUBSET Keys : EditLoad(p, below)
    BY <1>7 DEF EditLoad, Manage, TypeOK
  <1>8. CASE RecorderLock(p)
    BY <1>8 DEF RecorderLock, Return, TypeOK
  <1>9. CASE SetFails(p)
    BY <1>9 DEF SetFails, Return, TypeOK
  <1>10. CASE Commit(p)
    BY <1>10 DEF Commit, TypeOK
  <1>11. CASE CommitFails(p)
    BY <1>11 DEF CommitFails, Return, TypeOK
  <1>12. CASE Record(p)
    BY <1>12 DEF Record, TypeOK
  <1>13. CASE RecordSet(p)
    <2>1. rec'[q] = "current" => rec[q] = "current" /\ session' = session
      BY <1>13, OthersOutdated DEF RecordSet
    <2> QED
      BY <1>13, <2>1 DEF RecordSet, TypeOK
  <1>14. CASE RecordFails(p)
    BY <1>14 DEF RecordFails, TypeOK
  <1>15. CASE SetEnd(p)
    BY <1>15 DEF SetEnd, Return, TypeOK
  <1>16. CASE EditStore(p)
    <2>1. rec'[q] = "current" => rec[q] = "current" /\ session' = session
      BY <1>16, OthersOutdated DEF EditStore
    <2> QED
      BY <1>16, <2>1 DEF EditStore, Return, TypeOK
  <1>17. CASE UndoSet(p)
    BY <1>17 DEF UndoSet, Return, TypeOK
  <1>18. CASE UndoStore(p)
    <2>1. rec'[q] = "current" => rec[q] = "current" /\ session' = session
      BY <1>18, OthersOutdated DEF UndoStore
    <2> QED
      BY <1>18, <2>1 DEF UndoStore, Return, TypeOK
  <1> QED
    BY <1>1, <1>2, <1>3, <1>4, <1>5, <1>6, <1>7, <1>8, <1>9, <1>10, <1>11, <1>12, <1>13,
       <1>14, <1>15, <1>16, <1>17, <1>18 DEF NextOf

\* A recorder is about to store the session it has loaded with its changes.
LEMMA RecordsPendingStep ==
    ASSUME TypeOK, RecordsPending, [Next]_vars
    PROVE  RecordsPending'
  <1> USE DEF handleVars, callVars, histVars, countVars
  <1>0. CASE UNCHANGED vars
    BY <1>0 DEF vars, RecordsPending, PartDiff, DiffParent, LastMount
  <1> SUFFICES ASSUME Next PROVE RecordsPending'
    BY <1>0
  <1> PICK p \in Procs : NextOf(p)
    BY NextIsOfOne
  <1> SUFFICES ASSUME NEW q \in Procs, pc'[q] = "recordSet", rec'[q] = "current"
               PROVE  rest'[q] = DiffAppend(session', PartDiff(q)')
    BY DEF RecordsPending
  <1>1. CASE q # p
    <2>1. /\ pc[q] = "recordSet" /\ rec[q] = "current" /\ session' = session
          /\ active'[q] = active[q] /\ changed'[q] = changed[q] /\ ks'[q] = ks[q]
          /\ allKeys'[q] = allKeys[q] /\ rest'[q] = rest[q]
      BY <1>1, OthersUntouched
    <2>2. PartDiff(q)' = PartDiff(q)
      BY <2>1 DEF PartDiff, DiffParent, LastMount
    <2> QED
      BY <2>1, <2>2 DEF RecordsPending
  <1>2. CASE q = p
    <2>1. Record(p)
      <3>1. pc'[p] = "recordSet"
        BY <1>2
      <3>2. ~Crash(p) /\ ~SetFails(p) /\ ~CommitFails(p) /\ ~SetEnd(p) /\ ~EditStore(p)
            /\ ~UndoStore(p) /\ ~RecorderLock(p) /\ ~UndoSet(p)
        BY <3>1 DEF Crash, SetFails, CommitFails, SetEnd, EditStore, UndoStore, RecorderLock,
           UndoSet, Return, TypeOK
      <3>3. ~Commit(p) /\ ~RecordSet(p) /\ ~RecordFails(p)
            /\ ~(\E par \in Parents, new \in KeySets : SetResolver(p, par, new))
        BY <3>1 DEF Commit, RecordSet, RecordFails, SetResolver, TypeOK
      <3>4. ~(\E par \in Parents : Get(p, par)) /\ ~(\E par \in Parents : UndoLoad(p, par))
            /\ ~(\E s \in SessionParents \union {NoSession} : Configure(p, s))
            /\ ~(\E below \in SUBSET Keys : EditLoad(p, below))
        BY <3>1 DEF Get, UndoLoad, Configure, EditLoad, Manage, TypeOK
      <3>5. ~Reopen(p)
        BY <3>1 DEF Reopen, TypeOK
      <3> QED
        BY <3>2, <3>3, <3>4, <3>5 DEF NextOf
    <2>2. rest' = [rest EXCEPT ![p] = DiffAppend(session, PartDiff(p))]
      <3>1. ~(pc' = [pc EXCEPT ![p] = "end"])
        BY <1>2 DEF TypeOK
      <3> QED
        BY <2>1, <3>1 DEF Record
    <2>3. PartDiff(p)' = PartDiff(p) /\ session' = session
      BY <2>1 DEF Record, PartDiff, DiffParent, LastMount
    <2> QED
      BY <1>2, <2>2, <2>3 DEF TypeOK
  <1> QED
    BY <1>1, <1>2

\* An edit that is still current has the session but for what it drops.
LEMMA EditsDropStep ==
    ASSUME Sound, RecorderInvariant, [Next]_vars
    PROVE  EditsDrop'
  <1> USE DEF RecorderInvariant, handleVars, callVars, histVars, countVars
  <1>0. CASE UNCHANGED vars
    BY <1>0 DEF vars, EditsDrop
  <1> SUFFICES ASSUME Next PROVE EditsDrop'
    BY <1>0
  <1> PICK p \in Procs : NextOf(p)
    BY NextIsOfOne
  <1>1. CASE Reopen(p)
    BY <1>1 DEF Reopen, FreshHandle, EditsDrop, TypeOK
  <1>2. CASE Crash(p)
    BY <1>2 DEF Crash, FreshHandle, Return, EditsDrop, TypeOK
  <1>3. CASE \E par \in Parents : Get(p, par)
    BY <1>3 DEF Get, EditsDrop, TypeOK
  <1>4. CASE \E par \in Parents : UndoLoad(p, par)
    BY <1>4, SoundUses DEF UndoLoad, Manage, EditsDrop, TypeOK
  <1>5. CASE \E par \in Parents, new \in KeySets : SetResolver(p, par, new)
    BY <1>5 DEF SetResolver, EditsDrop, TypeOK
  <1>6. CASE \E s \in SessionParents \union {NoSession} : Configure(p, s)
    BY <1>6 DEF Configure, Manage, EditsDrop, TypeOK
  <1>7. CASE \E below \in SUBSET Keys : EditLoad(p, below)
    BY <1>7, SoundUses DEF EditLoad, Manage, EditsDrop, LoadedSession,
       DiffRemove, Diffs, TypeOK
  <1>8. CASE RecorderLock(p)
    BY <1>8 DEF RecorderLock, Return, EditsDrop, TypeOK
  <1>9. CASE SetFails(p)
    BY <1>9 DEF SetFails, RecorderUnlock, Return, EditsDrop, TypeOK
  <1>10. CASE Commit(p)
    BY <1>10 DEF Commit, EditsDrop, TypeOK
  <1>11. CASE CommitFails(p)
    BY <1>11 DEF CommitFails, RecorderUnlock, Return, EditsDrop, TypeOK
  <1>12. CASE Record(p)
    <2>1. pc[p] # "editStore" /\ pc'[p] # "editStore" /\ UNCHANGED <<session, sess>>
      BY <1>12 DEF Record, TypeOK
    <2>2. \A q \in Procs \ {p} : pc'[q] = pc[q] /\ rest'[q] = rest[q]
      BY <1>12 DEF Record, TypeOK
    <2> QED
      BY <2>1, <2>2 DEF EditsDrop
  <1>13. CASE RecordSet(p)
    <2>1. CASE StoreSession(p, FALSE)
      <3>1. pc'[p] # "editStore" /\ \A q \in Procs \ {p} : pc'[q] = pc[q]
        BY <1>13 DEF RecordSet, TypeOK
      <3>2. rest' = rest
        BY <1>13 DEF RecordSet
      <3> QED
        BY <2>1, <3>1, <3>2, OthersOutdated DEF EditsDrop
    <2>2. CASE UNCHANGED <<session, sess>>
      BY <1>13, <2>2 DEF RecordSet, EditsDrop, TypeOK
    <2> QED
      BY <1>13, <2>1, <2>2 DEF RecordSet
  <1>14. CASE RecordFails(p)
    BY <1>14 DEF RecordFails, EditsDrop, TypeOK
  <1>15. CASE SetEnd(p)
    BY <1>15 DEF SetEnd, RecorderUnlock, Return, EditsDrop, TypeOK
  <1>16. CASE EditStore(p)
    <2>1. CASE StoreSession(p, TRUE)
      <3>1. /\ pc'[p] # "editStore"
            /\ \A q \in Procs \ {p} : pc'[q] = pc[q] /\ rest'[q] = rest[q]
        BY <1>16 DEF EditStore, Return, TypeOK
      <3> QED
        BY <2>1, <3>1, OthersOutdated DEF EditsDrop
    <2>2. CASE UNCHANGED <<session, sess>>
      BY <1>16, <2>2 DEF EditStore, Return, EditsDrop, TypeOK
    <2> QED
      BY <1>16, <2>1, <2>2 DEF EditStore
  <1>17. CASE UndoSet(p)
    BY <1>17 DEF UndoSet, Return, EditsDrop, TypeOK
  <1>18. CASE UndoStore(p)
    <2>1. CASE StoreSession(p, TRUE)
      <3>1. /\ pc'[p] # "editStore"
            /\ \A q \in Procs \ {p} : pc'[q] = pc[q] /\ rest'[q] = rest[q]
        BY <1>18 DEF UndoStore, Return, TypeOK
      <3> QED
        BY <2>1, <3>1, OthersOutdated DEF EditsDrop
    <2>2. CASE UNCHANGED <<session, sess>>
      BY <1>18, <2>2 DEF UndoStore, Return, EditsDrop, TypeOK
    <2> QED
      BY <1>18, <2>1, <2>2 DEF UndoStore
  <1> QED
    BY <1>1, <1>2, <1>3, <1>4, <1>5, <1>6, <1>7, <1>8, <1>9, <1>10, <1>11, <1>12, <1>13, <1>14,
       <1>15, <1>16, <1>17, <1>18 DEF NextOf


-----------------------------------------------------------------------------
(***************************************************************************)
(* Handles and files.                                                      *)
(***************************************************************************)

\* kdbSet() is about one backend: if its commit fails, nothing is stored.
LEMMA CommitFailsStoresNothing ==
    ASSUME Sound, RecorderInvariant, NEW p \in Procs, CommitFails(p)
    PROVE  UNCHANGED <<disk, seen, start, lost>>
  <1>1. parent[p] \in Parents /\ changed[p] = parent[p]
    BY DEF RecorderInvariant, SetOfOneBackend, InSet, CommitFails
  <1>2. PICK bs \in SUBSET changed[p] :
          /\ bs # changed[p]
          /\ disk' = DiskAfterStore(p, bs)
          /\ seen' = SeenAfterStore(p, bs)
          /\ start' = StartAfterStore(p, bs)
          /\ lost' = lost \union {k \in ToRecord(p) : Owner[k] \in bs}
    BY DEF CommitFails
  <1>3. PICK b \in Backends : changed[p] = {b}
    BY <1>1, KeysOfParent
  <1>4. bs = {}
    BY <1>2, <1>3
  <1>5. DiskAfterStore(p, {}) = disk
    BY DEF RecorderInvariant, TypeOK, KeySets, DiskAfterStore
  <1>6. SeenAfterStore(p, {}) = seen
    BY DEF RecorderInvariant, TypeOK, SeenAfterStore
  <1>7. StartAfterStore(p, {}) = start
    BY DEF RecorderInvariant, TypeOK, KeySets, StartAfterStore
  <1> QED
    BY <1>2, <1>4, <1>5, <1>6, <1>7

\* After kdbGet() the handle has the keys of the file.
LEMMA GetKnowsFiles ==
    ASSUME Sound, RecorderInvariant, NEW p \in Procs, NEW par \in Parents, pc[p] = "idle",
           allKeys' = [allKeys EXCEPT ![p] = AllKeysAfterGet(p, par)],
           seen' = SeenAfterGet(p, par),
           UNCHANGED <<disk, changed>>,
           pc' = pc \/ pc' = [pc EXCEPT ![p] = "undoSet"],
           ks' = ks \/ \E new : ks' = [ks EXCEPT ![p] = new]
    PROVE  KnownCurrent'
  <1> SUFFICES ASSUME NEW q \in Procs, NEW k \in Keys, seen'[q][Owner[k]] = "current"
               PROVE  KnownKeys(q, k)' = disk'[k]
    BY DEF KnownCurrent
  <1> USE DEF RecorderInvariant
  <1>1. CASE q # p
    <2>1. /\ allKeys'[q] = allKeys[q] /\ ks'[q] = ks[q] /\ pc'[q] = pc[q] /\ seen'[q] = seen[q]
      BY <1>1 DEF SeenAfterGet, TypeOK
    <2> QED
      BY <2>1 DEF KnownCurrent, KnownKeys
  <1>2. CASE q = p
    <2>1. pc'[p] \in {"idle", "undoSet"}
      BY DEF TypeOK
    <2>2. KnownKeys(p, k)' = AllKeysAfterGet(p, par)[k]
      BY <2>1 DEF KnownKeys, TypeOK
    <2>3. PICK b \in Backends : par = {b}
      BY KeysOfParent
    <2>4. k \in KeysOf(par) <=> Owner[k] = b
      BY <2>3, KeysOfParent
    <2>5. Owner[k] \in Backends
      BY RecorderAssumption
    <2>6. seen'[p][Owner[k]] = IF Owner[k] = b THEN "current" ELSE seen[p][Owner[k]]
      BY <2>3, <2>5 DEF SeenAfterGet, TypeOK
    <2>7. seen[p][Owner[k]] = "current" => allKeys[p][k] = disk[k]
      BY DEF KnownCurrent, KnownKeys
    <2>8. ToLoad(p, par) = IF seen[p][b] = "current" THEN {} ELSE {b}
      BY <2>3 DEF ToLoad
    <2> QED
      BY <1>2, <2>2, <2>4, <2>6, <2>7, <2>8 DEF AllKeysAfterGet, Loaded
  <1> QED
    BY <1>1, <1>2

\* A handle whose file is current has the keys of the file.
LEMMA KnownCurrentStep ==
    ASSUME Sound, RecorderInvariant, [Next]_vars
    PROVE  KnownCurrent'
  <1> USE DEF RecorderInvariant, handleVars, callVars, histVars, countVars
  <1>0. CASE UNCHANGED vars
    BY <1>0 DEF vars, KnownCurrent, KnownKeys
  <1> SUFFICES ASSUME Next PROVE KnownCurrent'
    BY <1>0
  <1> PICK p \in Procs : NextOf(p)
    BY NextIsOfOne
  <1>1. CASE Reopen(p)
    <2>1. \A k \in Keys : Owner[k] \in Backends
      BY RecorderAssumption
    <2> QED
      BY <1>1, <2>1 DEF Reopen, FreshHandle, KnownCurrent, KnownKeys, TypeOK
  <1>2. CASE Crash(p)
    <2>1. \A k \in Keys : Owner[k] \in Backends
      BY RecorderAssumption
    <2> QED
      BY <1>2, <2>1 DEF Crash, FreshHandle, Return, KnownCurrent, KnownKeys, TypeOK
  <1>3. CASE \E par \in Parents : Get(p, par)
    <2> PICK par \in Parents : Get(p, par)
      BY <1>3
    <2>1. pc[p] = "idle" /\ allKeys' = [allKeys EXCEPT ![p] = AllKeysAfterGet(p, par)]
          /\ seen' = SeenAfterGet(p, par) /\ UNCHANGED <<disk, pc, changed, ks>>
      BY DEF Get
    <2> QED
      BY <2>1, GetKnowsFiles
  <1>4. CASE \E par \in Parents : UndoLoad(p, par)
    <2> PICK par \in Parents : UndoLoad(p, par)
      BY <1>4
    <2>1. CASE UNCHANGED <<pc, allKeys, seen, ks>>
      BY <2>1 DEF UndoLoad, KnownCurrent, KnownKeys
    <2>2. CASE /\ pc' = [pc EXCEPT ![p] = "undoSet"]
               /\ allKeys' = [allKeys EXCEPT ![p] = AllKeysAfterGet(p, par)]
               /\ seen' = SeenAfterGet(p, par)
               /\ \E new : ks' = [ks EXCEPT ![p] = new]
      BY <2>2, GetKnowsFiles DEF UndoLoad, Manage
    <2> QED
      BY <2>1, <2>2 DEF UndoLoad
  <1>5. CASE \E par \in Parents, new \in KeySets : SetResolver(p, par, new)
    BY <1>5 DEF SetResolver, KnownCurrent, KnownKeys, TypeOK
  <1>6. CASE \E s \in SessionParents \union {NoSession} : Configure(p, s)
    BY <1>6 DEF Configure, Manage, KnownCurrent, KnownKeys, TypeOK
  <1>7. CASE \E below \in SUBSET Keys : EditLoad(p, below)
    BY <1>7 DEF EditLoad, Manage, KnownCurrent, KnownKeys, TypeOK
  <1>8. CASE RecorderLock(p)
    <2>1. CASE pc' = [pc EXCEPT ![p] = "storage"] /\ UNCHANGED callVars
      BY <1>8, <2>1 DEF RecorderLock, KnownCurrent, KnownKeys, TypeOK
    <2>2. CASE Return(p)
      BY <1>8, <2>2 DEF RecorderLock, Return, KnownCurrent, KnownKeys, TypeOK
    <2> QED
      BY <1>8, <2>1, <2>2 DEF RecorderLock
  <1>9. CASE SetFails(p)
    BY <1>9 DEF SetFails, RecorderUnlock, Return, KnownCurrent, KnownKeys, TypeOK
  <1>10. CASE Commit(p)
    <2> SUFFICES ASSUME NEW q \in Procs, NEW k \in Keys, seen'[q][Owner[k]] = "current"
                 PROVE  KnownKeys(q, k)' = disk'[k]
      BY DEF KnownCurrent
    <2>1. /\ seen'[q][Owner[k]] = IF Owner[k] \notin changed[p] THEN seen[q][Owner[k]]
                                  ELSE IF q = p THEN "current" ELSE Outdated(seen[q][Owner[k]])
          /\ disk'[k] = IF Owner[k] \in changed[p] THEN ks[p][k] ELSE disk[k]
      BY <1>10, RecorderAssumption DEF Commit, SeenAfterStore, DiskAfterStore
    <2>2. CASE Owner[k] \in changed[p] /\ q = p
      BY <1>10, <2>1, <2>2 DEF Commit, KnownKeys, TypeOK
    <2>3. CASE Owner[k] \in changed[p] /\ q # p
      BY <2>1, <2>3 DEF Outdated
    <2>4. CASE Owner[k] \notin changed[p]
      BY <1>10, <2>1, <2>4 DEF Commit, KnownCurrent, KnownKeys, TypeOK
    <2> QED
      BY <2>2, <2>3, <2>4
  <1>11. CASE CommitFails(p)
    <2>1. UNCHANGED <<disk, seen>>
      BY <1>11, CommitFailsStoresNothing
    <2> QED
      BY <1>11, <2>1 DEF CommitFails, Return, KnownCurrent, KnownKeys, TypeOK
  <1>12. CASE Record(p)
    <2>1. CASE pc' = [pc EXCEPT ![p] = "end"]
      BY <1>12, <2>1 DEF Record, KnownCurrent, KnownKeys, TypeOK
    <2>2. CASE pc' = [pc EXCEPT ![p] = "recordSet"]
      BY <1>12, <2>2 DEF Record, KnownCurrent, KnownKeys, TypeOK
    <2> QED
      BY <1>12, <2>1, <2>2 DEF Record
  <1>13. CASE RecordSet(p)
    BY <1>13 DEF RecordSet, KnownCurrent, KnownKeys, TypeOK
  <1>14. CASE RecordFails(p)
    BY <1>14 DEF RecordFails, KnownCurrent, KnownKeys, TypeOK
  <1>15. CASE SetEnd(p)
    <2> SUFFICES ASSUME NEW q \in Procs, NEW k \in Keys, seen'[q][Owner[k]] = "current"
                 PROVE  KnownKeys(q, k)' = disk'[k]
      BY DEF KnownCurrent
    <2>1. KnownKeys(q, k) = disk[k] /\ UNCHANGED disk
      BY <1>15 DEF SetEnd, KnownCurrent
    <2>2. CASE q # p
      BY <1>15, <2>1, <2>2 DEF SetEnd, Return, KnownKeys, TypeOK
    <2>3. CASE q = p
      <3>1. parent[p] \in Parents /\ changed[p] = parent[p]
        BY <1>15 DEF SetEnd, SetOfOneBackend, InSet
      <3>2. k \in KeysOf(parent[p]) <=> Owner[k] \in changed[p]
        BY <3>1, KeysOfParent
      <3>3. Owner[k] \notin changed[p] => ks[p][k] = allKeys[p][k]
        BY <1>15, <3>1 DEF SetEnd, SetOfOneBackend, InSet
      <3>4. allKeys'[p][k] = AllKeysAfterSet(p)[k] /\ pc'[p] = "idle"
        BY <1>15 DEF SetEnd, Return, TypeOK
      <3> QED
        BY <1>15, <2>1, <2>3, <3>2, <3>3, <3>4 DEF SetEnd, AllKeysAfterSet, KnownKeys
    <2> QED
      BY <2>2, <2>3
  <1>16. CASE EditStore(p)
    BY <1>16 DEF EditStore, Return, KnownCurrent, KnownKeys, TypeOK
  <1>17. CASE UndoSet(p)
    <2>1. CASE Return(p) /\ UNCHANGED <<disk, seen, allKeys>>
      BY <1>17, <2>1 DEF UndoSet, Return, KnownCurrent, KnownKeys, TypeOK
    <2>2. CASE ~(Return(p) /\ UNCHANGED <<disk, seen, allKeys>>)
      <3> SUFFICES ASSUME NEW q \in Procs, NEW k \in Keys, seen'[q][Owner[k]] = "current"
                   PROVE  KnownKeys(q, k)' = disk'[k]
        BY DEF KnownCurrent
      <3> DEFINE bs == Differs(p, ks[p], parent[p])
      <3>1. /\ disk'[k] = IF Owner[k] \in bs THEN ks[p][k] ELSE disk[k]
            /\ seen'[q][Owner[k]] = IF Owner[k] \notin bs THEN seen[q][Owner[k]]
                                    ELSE IF q = p THEN "current" ELSE Outdated(seen[q][Owner[k]])
            /\ allKeys' = [allKeys EXCEPT ![p] = AllKeysAfterSet(p)]
            /\ pc[p] = "undoSet" /\ pc' = [pc EXCEPT ![p] = "undoStore"] /\ UNCHANGED callVars
        BY <1>17, <2>2, RecorderAssumption DEF UndoSet, SeenAfterStore, DiskAfterStore
      <3>2. CASE q # p
        BY <3>1, <3>2 DEF Outdated, KnownCurrent, KnownKeys, TypeOK
      <3>3. CASE q = p
        <4>1. parent[p] \in Parents /\ (Owner[k] \notin parent[p] => ks[p][k] = Absent)
          BY <3>1 DEF UndoExact, UndoExactOf
        <4>2. k \in KeysOf(parent[p]) <=> Owner[k] \in parent[p]
          BY <4>1, KeysOfParent
        <4>3. Owner[k] \in bs => Owner[k] \in parent[p]
          BY DEF Differs
        <4>4. Owner[k] \in parent[p] /\ Owner[k] \notin bs => ks[p][k] = allKeys[p][k]
          BY DEF Differs
        <4>5. KnownKeys(p, k)' = AllKeysAfterSet(p)[k]
          BY <3>1 DEF KnownKeys, TypeOK
        <4>6. Owner[k] \notin bs => allKeys[p][k] = disk[k]
          BY <3>1, <3>3 DEF KnownCurrent, KnownKeys
        <4> HIDE DEF bs
        <4> QED
          BY <3>1, <3>3, <4>1, <4>2, <4>3, <4>4, <4>5, <4>6 DEF AllKeysAfterSet
      <3> QED
        BY <3>2, <3>3
    <2> QED
      BY <2>1, <2>2
  <1>18. CASE UndoStore(p)
    BY <1>18 DEF UndoStore, Return, KnownCurrent, KnownKeys, TypeOK
  <1> QED
    BY <1>1, <1>2, <1>3, <1>4, <1>5, <1>6, <1>7, <1>8, <1>9, <1>10, <1>11, <1>12, <1>13, <1>14,
       <1>15, <1>16, <1>17, <1>18 DEF NextOf

-----------------------------------------------------------------------------
(***************************************************************************)
(* What undoing the session gives.                                         *)
(***************************************************************************)

LEMMA UndoNothing == \A v : UndoEntry(NoEntry, v) = v
  BY EntryFields DEF UndoEntry, NoEntry

\* An entry knows what the key was before, whatever the key is now.
LEMMA UndoSomething ==
    ASSUME NEW e \in Entries, WellFormedEntry(e), e # NoEntry, NEW v, NEW w
    PROVE  UndoEntry(e, v) = UndoEntry(e, w)
  <1>1. ~(e.removed = Absent /\ e.old = Absent /\ e.added = Absent)
    <2> SUFFICES ASSUME e.removed = Absent, e.old = Absent, e.added = Absent PROVE FALSE
      OBVIOUS
    <2>1. e.new = Absent
      BY DEF WellFormedEntry
    <2>2. NoEntry \in Entries /\ NoEntry.removed = Absent /\ NoEntry.old = Absent
          /\ NoEntry.added = Absent /\ NoEntry.new = Absent
      BY NoEntryType, EntryFields DEF NoEntry
    <2> QED
      BY <2>1, <2>2, EntryEqual
  <1> QED
    BY <1>1 DEF UndoEntry

LEMMA EmptyIsNothing ==
    ASSUME NEW d \in Diffs, WellFormed(d), DiffIsEmpty(d), NEW k \in Keys
    PROVE  d[k] = NoEntry
  BY UndoSomething, EntryFields, NoEntryType, EntryEqual
     DEF Diffs, WellFormed, WellFormedEntry, DiffIsEmpty, NoEntry

LEMMA AccountedType ==
    ASSUME TypeOK, DiffsWellFormed
    PROVE  Accounted \in Diffs /\ WellFormed(Accounted)
  BY PartDiffType, AppendWellFormed DEF Accounted, WithPending, TypeOK, DiffsWellFormed

\* The changes that wait to be recorded are those of another process.
LEMMA OthersPending ==
    ASSUME TypeOK, NEW p \in Procs, flock # p, UNCHANGED flock,
           \A q \in Procs \ {p} : /\ active'[q] = active[q] /\ pc'[q] = pc[q]
                                  /\ changed'[q] = changed[q] /\ ks'[q] = ks[q]
                                  /\ allKeys'[q] = allKeys[q]
    PROVE  Accounted' = WithPending(session')
  <1>1. CASE flock = NoProc
    BY <1>1 DEF Accounted, WithPending
  <1>2. CASE flock # NoProc
    <2>1. PICK q \in Procs : flock = q /\ q # p
      BY <1>2 DEF TypeOK
    <2>2. Pending(flock)' <=> Pending(flock)
      BY <2>1 DEF Pending
    <2>3. PartDiff(flock)' = PartDiff(flock)
      BY <2>1 DEF PartDiff, DiffParent, LastMount
    <2> QED
      BY <1>2, <2>2, <2>3 DEF Accounted, WithPending
  <1> QED
    BY <1>1, <1>2

\* Nothing waits to be recorded.
LEMMA NothingPending ==
    ASSUME flock # NoProc => ~Pending(flock)
    PROVE  Accounted = session
  BY DEF Accounted, WithPending

LEMMA NothingPendingNext ==
    ASSUME (flock # NoProc => ~Pending(flock))'
    PROVE  Accounted' = session'
  BY DEF Accounted, WithPending

LEMMA ExactStays ==
    ASSUME SessionExact, Accounted' = Accounted, UNCHANGED <<disk, start>>, lost \subseteq lost'
    PROVE  SessionExact'
  BY DEF SessionExact, DiffUndo

\* While a session is undone nothing else happens to it.
LEMMA UndoExactStep ==
    ASSUME Sound, RecorderInvariant, [Next]_vars
    PROVE  UndoExact'
  <1> USE DEF RecorderInvariant, handleVars, callVars, histVars, countVars
  <1>0. CASE UNCHANGED vars
    BY <1>0 DEF vars, UndoExact, UndoExactOf
  <1> SUFFICES ASSUME Next PROVE UndoExact'
    BY <1>0
  <1> PICK p \in Procs : NextOf(p)
    BY NextIsOfOne
  <1>1. CASE Reopen(p)
    <2> SUFFICES ASSUME NEW r \in Procs, pc'[r] \in {"undoSet", "undoStore"}
                 PROVE  UndoExactOf(r)'
      BY DEF UndoExact
    <2>1. r # p /\ pc'[r] = pc[r]
      BY <1>1 DEF Reopen, TypeOK
    <2>2. UndoExactOf(r)
      BY <2>1 DEF UndoExact
    <2> QED
      BY <1>1, <2>1, <2>2 DEF UndoExactOf, Reopen, FreshHandle, TypeOK
  <1>2. CASE Crash(p)
    <2>1. \A r \in Procs : pc'[r] \notin {"undoSet", "undoStore"}
      BY <1>2 DEF Crash, Return, UndoExact, UndoExactOf, TypeOK
    <2> QED
      BY <2>1 DEF UndoExact
  <1>3. CASE \E par \in Parents : Get(p, par)
    <2> SUFFICES ASSUME NEW r \in Procs, pc'[r] \in {"undoSet", "undoStore"}
                 PROVE  UndoExactOf(r)'
      BY DEF UndoExact
    <2>1. r # p /\ pc'[r] = pc[r]
      BY <1>3 DEF Get, TypeOK
    <2>2. UndoExactOf(r)
      BY <2>1 DEF UndoExact
    <2> QED
      BY <1>3, <2>1, <2>2 DEF UndoExactOf, Get, SeenAfterGet, TypeOK
  <1>4. CASE \E par \in Parents : UndoLoad(p, par)
    <2> PICK par \in Parents : UndoLoad(p, par)
      BY <1>4
    <2>1. /\ pc[p] = "idle" /\ sess[p] = "none" /\ \A b \in Backends : seen[p][b] = "none"
          /\ \A q \in Procs \ {p} : pc[q] = "idle"
      BY SoundUses DEF UndoLoad, Manage
    <2>2. CASE UNCHANGED pc
      BY <2>1, <2>2 DEF UndoExact
    <2>3. CASE ~UNCHANGED pc
      <3>1. /\ ks' = [ks EXCEPT ![p] = DiffUndo(DiffCut(session, KeysOf(par)), Loaded(ToLoad(p, par)))]
            /\ parent' = [parent EXCEPT ![p] = par]
            /\ rest' = [rest EXCEPT ![p] = DiffRemove(session, KeysOf(par))]
            /\ seen' = SeenAfterGet(p, par)
            /\ pc' = [pc EXCEPT ![p] = "undoSet"]
            /\ sess' = [sess EXCEPT ![p] = "current"]
            /\ UNCHANGED <<disk, session, start, lost>>
        BY <2>1, <2>3 DEF UndoLoad, LoadedSession
      <3>2. Accounted = session
        BY <2>1, NothingPending DEF Pending, TypeOK
      <3>3. PICK b \in Backends : par = {b}
        BY KeysOfParent
      <3>4. ToLoad(p, par) = par
        BY <2>1, <3>3 DEF ToLoad
      <3>5. ASSUME NEW k \in Keys
            PROVE  /\ Owner[k] \notin par => ks'[p][k] = Absent
                   /\ Owner[k] \in par /\ k \notin lost => ks'[p][k] = start[k]
        <4>1. ks'[p][k] = UndoEntry(DiffCut(session, KeysOf(par))[k], Loaded(par)[k])
          BY <3>1, <3>4 DEF DiffUndo, TypeOK
        <4>2. k \in KeysOf(par) <=> Owner[k] \in par
          BY KeysOfParent
        <4>3. k \notin lost => start[k] = UndoEntry(session[k], disk[k])
          BY <3>2 DEF SessionExact, DiffUndo
        <4>4. Loaded(par)[k] = IF Owner[k] \in par THEN disk[k] ELSE Absent
          BY DEF Loaded
        <4>5. DiffCut(session, KeysOf(par))[k] = IF Owner[k] \in par THEN session[k] ELSE NoEntry
          BY <4>2 DEF DiffCut
        <4> QED
          BY <4>1, <4>3, <4>4, <4>5, UndoNothing
      <3>6. UndoExactOf(p)'
        <4>1. pc'[p] = "undoSet" /\ parent'[p] = par /\ sess'[p] = "current"
              /\ rest'[p] = DiffRemove(session, KeysOf(par))
              /\ \A q \in Procs \ {p} : pc'[q] = "idle"
          BY <2>1, <3>1 DEF TypeOK
        <4>2. \A c \in par : seen'[p][c] = "current"
          BY <3>1, <3>3 DEF SeenAfterGet, TypeOK
        <4>3. DiffRemove(session, KeysOf(parent[p]))' = DiffRemove(session, KeysOf(par))
          BY <3>1, <4>1 DEF KeysOf, DiffRemove
        <4> QED
          BY <3>1, <3>5, <4>1, <4>2, <4>3 DEF UndoExactOf
      <3>7. \A r \in Procs \ {p} : pc'[r] = "idle"
        BY <2>1, <3>1 DEF TypeOK
      <3> QED
        BY <3>6, <3>7 DEF UndoExact
    <2> QED
      BY <2>2, <2>3
  <1>5. CASE \E par \in Parents, new \in KeySets : SetResolver(p, par, new)
    <2>1. \A r \in Procs : pc'[r] \notin {"undoSet", "undoStore"}
      BY <1>5, SoundUses DEF SetResolver, UndoUnderWay, UndoExact, UndoExactOf, TypeOK
    <2> QED
      BY <2>1 DEF UndoExact
  <1>6. CASE \E s \in SessionParents \union {NoSession} : Configure(p, s)
    <2>1. \A r \in Procs : pc'[r] \notin {"undoSet", "undoStore"}
      BY <1>6, SoundUses DEF Configure, Manage, UndoUnderWay, UndoExact, UndoExactOf, TypeOK
    <2> QED
      BY <2>1 DEF UndoExact
  <1>7. CASE \E below \in SUBSET Keys : EditLoad(p, below)
    <2>1. \A r \in Procs : pc'[r] \notin {"undoSet", "undoStore"}
      BY <1>7, SoundUses DEF EditLoad, Manage, UndoUnderWay, UndoExact, UndoExactOf, TypeOK
    <2> QED
      BY <2>1 DEF UndoExact
  <1>8. CASE RecorderLock(p)
    <2>1. pc[p] = "lock" /\ (pc' = [pc EXCEPT ![p] = "storage"] \/ pc' = [pc EXCEPT ![p] = "idle"])
      BY <1>8 DEF RecorderLock, Return
    <2>2. \A r \in Procs : pc'[r] \notin {"undoSet", "undoStore"}
      BY <2>1 DEF UndoExact, UndoExactOf, TypeOK
    <2> QED
      BY <2>2 DEF UndoExact
  <1>9. CASE SetFails(p)
    <2>1. \A r \in Procs : pc'[r] \notin {"undoSet", "undoStore"}
      BY <1>9 DEF SetFails, Return, UndoExact, UndoExactOf, TypeOK
    <2> QED
      BY <2>1 DEF UndoExact
  <1>10. CASE Commit(p)
    <2>1. \A r \in Procs : pc'[r] \notin {"undoSet", "undoStore"}
      BY <1>10 DEF Commit, UndoExact, UndoExactOf, TypeOK
    <2> QED
      BY <2>1 DEF UndoExact
  <1>11. CASE CommitFails(p)
    <2>1. \A r \in Procs : pc'[r] \notin {"undoSet", "undoStore"}
      BY <1>11 DEF CommitFails, Return, UndoExact, UndoExactOf, TypeOK
    <2> QED
      BY <2>1 DEF UndoExact
  <1>12. CASE Record(p)
    <2>1. pc[p] = "record" /\ (pc' = [pc EXCEPT ![p] = "end"] \/ pc' = [pc EXCEPT ![p] = "recordSet"])
      BY <1>12 DEF Record
    <2>2. \A r \in Procs : pc'[r] \notin {"undoSet", "undoStore"}
      BY <2>1 DEF UndoExact, UndoExactOf, TypeOK
    <2> QED
      BY <2>2 DEF UndoExact
  <1>13. CASE RecordSet(p)
    <2>1. \A r \in Procs : pc'[r] \notin {"undoSet", "undoStore"}
      BY <1>13 DEF RecordSet, UndoExact, UndoExactOf, TypeOK
    <2> QED
      BY <2>1 DEF UndoExact
  <1>14. CASE RecordFails(p)
    <2>1. \A r \in Procs : pc'[r] \notin {"undoSet", "undoStore"}
      BY <1>14 DEF RecordFails, UndoExact, UndoExactOf, TypeOK
    <2> QED
      BY <2>1 DEF UndoExact
  <1>15. CASE SetEnd(p)
    <2>1. \A r \in Procs : pc'[r] \notin {"undoSet", "undoStore"}
      BY <1>15 DEF SetEnd, Return, UndoExact, UndoExactOf, TypeOK
    <2> QED
      BY <2>1 DEF UndoExact
  <1>16. CASE EditStore(p)
    <2>1. \A r \in Procs : pc'[r] \notin {"undoSet", "undoStore"}
      BY <1>16 DEF EditStore, Return, UndoExact, UndoExactOf, TypeOK
    <2> QED
      BY <2>1 DEF UndoExact
  <1>17. CASE UndoSet(p)
    <2>1. pc[p] = "undoSet" /\ UndoExactOf(p)
      BY <1>17 DEF UndoSet, UndoExact
    <2>2. CASE Return(p)
      <3>1. \A r \in Procs : pc'[r] = "idle"
        BY <2>1, <2>2 DEF Return, UndoExactOf, TypeOK
      <3> QED
        BY <3>1 DEF UndoExact
    <2>3. CASE ~Return(p)
      <3> DEFINE bs == Differs(p, ks[p], parent[p])
      <3>1. /\ disk' = DiskAfterStore(p, bs)
            /\ pc' = [pc EXCEPT ![p] = "undoStore"]
            /\ UNCHANGED <<ks, parent, rest, session, sess, start, lost>>
        BY <1>17, <2>3 DEF UndoSet
      <3>2. ASSUME NEW k \in Keys \ lost, Owner[k] \in parent[p]
            PROVE  disk'[k] = start[k]
        <4>1. seen[p][Owner[k]] = "current" /\ ks[p][k] = start[k]
          BY <2>1, <3>2 DEF UndoExactOf
        <4>2. allKeys[p][k] = disk[k]
          BY <2>1, <4>1 DEF KnownCurrent, KnownKeys
        <4>3. Owner[k] \notin bs => ks[p][k] = allKeys[p][k]
          BY <3>2 DEF Differs
        <4> QED
          BY <3>1, <4>1, <4>2, <4>3 DEF DiskAfterStore
      <3>3. UndoExactOf(p)'
        <4>1. pc'[p] = "undoStore" /\ \A q \in Procs \ {p} : pc'[q] = "idle"
          BY <2>1, <3>1 DEF UndoExactOf, TypeOK
        <4>2. DiffRemove(session, KeysOf(parent[p]))' = DiffRemove(session, KeysOf(parent[p]))
          BY <3>1 DEF KeysOf, DiffRemove
        <4> QED
          BY <2>1, <3>1, <3>2, <4>1, <4>2 DEF UndoExactOf
      <3>4. \A r \in Procs \ {p} : pc'[r] = "idle"
        BY <2>1, <3>1 DEF UndoExactOf, TypeOK
      <3> QED
        BY <3>3, <3>4 DEF UndoExact
    <2> QED
      BY <2>2, <2>3
  <1>18. CASE UndoStore(p)
    <2>1. \A r \in Procs : pc'[r] \notin {"undoSet", "undoStore"}
      BY <1>18 DEF UndoStore, Return, UndoExact, UndoExactOf, TypeOK
    <2> QED
      BY <2>1 DEF UndoExact
  <1> QED
    BY <1>1, <1>2, <1>3, <1>4, <1>5, <1>6, <1>7, <1>8, <1>9, <1>10, <1>11, <1>12, <1>13, <1>14,
       <1>15, <1>16, <1>17, <1>18 DEF NextOf

\* The part diff of kdbSet() is about the file it stores, and has all of its
\* changes below the parent key of the session.
LEMMA PartDiffOfFile ==
    ASSUME Sound, RecorderInvariant, NEW p \in Procs, pc[p] = "storage", NEW k \in Keys
    PROVE  /\ PartDiff(p)[k] = NoEntry \/ PartDiff(p)[k] = EntryOf(ks[p][k], disk[k])
           /\ Owner[k] \notin changed[p] => PartDiff(p)[k] = NoEntry
           /\ Owner[k] \in changed[p] /\ k \in active[p] =>
                PartDiff(p)[k] = EntryOf(ks[p][k], disk[k])
  <1> USE DEF RecorderInvariant
  <1>1. parent[p] \in Parents /\ changed[p] = parent[p]
    BY DEF SetOfOneBackend, InSet
  <1>2. PICK b \in Backends : changed[p] = {b}
    BY <1>1, KeysOfParent
  <1>3. k \in LastMount(p) <=> Owner[k] = b
    <2>1. b \in Nat
      BY RecorderAssumption
    <2>2. k \in MountBelow[b] <=> Owner[k] = b
      BY RecorderAssumption DEF Sound
    <2> QED
      BY <1>2, <2>1, <2>2 DEF LastMount
  <1>4. k \in DiffParent(p) => k \in LastMount(p)
    BY DEF DiffParent
  <1>5. k \in LastMount(p) /\ k \in active[p] => k \in DiffParent(p)
    BY DEF DiffParent
  <1>6. Owner[k] = b => allKeys[p][k] = disk[k]
    BY <1>2 DEF FilesReserved, KnownCurrent, KnownKeys
  <1>7. PartDiff(p)[k] = IF k \in DiffParent(p)
                         THEN EntryOf(IF Owner[k] \in changed[p] THEN ks[p][k] ELSE Absent,
                                      allKeys[p][k])
                         ELSE NoEntry
    BY DEF PartDiff, DiffCalculate
  <1> QED
    BY <1>2, <1>3, <1>4, <1>5, <1>6, <1>7

\* A change that leaves no entry is none.
LEMMA EntryOfSame ==
    ASSUME NEW v \in Held, NEW w \in Held, EntryOf(v, w) = NoEntry
    PROVE  v = w
  BY EntryFields DEF EntryOf, NoEntry

\* What kdbSet() stores is added to the session diff, or to what the session
\* started from.
LEMMA CommitExact ==
    ASSUME Sound, RecorderInvariant, NEW p \in Procs, Commit(p)
    PROVE  SessionExact'
  <1> USE DEF RecorderInvariant, callVars
  <1>1. /\ pc[p] = "storage" /\ pc' = [pc EXCEPT ![p] = "record"]
        /\ disk' = DiskAfterStore(p, changed[p])
        /\ start' = StartAfterStore(p, changed[p])
        /\ UNCHANGED <<session, flock, active, allKeys, ks, changed, lost>>
    BY DEF Commit
  <1>2. \A k \in Keys : disk'[k] = IF Owner[k] \in changed[p] THEN ks[p][k] ELSE disk[k]
    BY <1>1 DEF DiskAfterStore
  <1>3. \A k \in Keys : start'[k] =
          IF /\ Owner[k] \in changed[p] /\ Accounted[k] = NoEntry
             /\ active[p] = NoSession \/ (k \notin active[p] /\ PartDiff(p)[k] = NoEntry)
          THEN ks[p][k] ELSE start[k]
    BY <1>1 DEF StartAfterStore
  <1>4. \A k \in Keys \ lost : UndoEntry(Accounted[k], disk[k]) = start[k]
    BY DEF SessionExact, DiffUndo
  <1>5. \A k \in Keys : Accounted[k] \in Entries /\ WellFormedEntry(Accounted[k])
    BY AccountedType DEF Diffs, WellFormed
  <1>6. \A k \in Keys : ks[p][k] \in Held /\ disk[k] \in Held
    BY DEF TypeOK, KeySets
  <1>7. SUFFICES ASSUME NEW k \in Keys \ lost PROVE UndoEntry(Accounted'[k], disk'[k]) = start'[k]
    BY <1>1, <1>7 DEF SessionExact, DiffUndo
  <1>8. CASE active[p] = NoSession
    <2>1. flock # p
      BY <1>8 DEF LockHeld
    <2>2. Accounted' = Accounted
      <3>1. Accounted' = WithPending(session')
        BY <1>1, <2>1, OthersPending DEF TypeOK
      <3> QED
        BY <1>1, <3>1 DEF Accounted
    <2>3. CASE Accounted[k] = NoEntry
      BY <1>2, <1>3, <1>4, <1>8, <2>2, <2>3, UndoNothing
    <2>4. CASE Accounted[k] # NoEntry
      BY <1>2, <1>3, <1>4, <1>5, <2>2, <2>4, UndoSomething
    <2> QED
      BY <2>3, <2>4
  <1>9. CASE active[p] # NoSession
    <2>1. flock = p /\ p # NoProc
      BY <1>1, <1>9, NoProcOther DEF LockHeld
    <2>2. Accounted = session
      BY <1>1, <2>1, NothingPending DEF Pending
    <2>3. Accounted' = DiffAppend(session, PartDiff(p))
      <3>1. Pending(flock)' /\ flock' # NoProc
        BY <1>1, <1>9, <2>1 DEF Pending, TypeOK
      <3>2. PartDiff(flock)' = PartDiff(p)
        BY <1>1, <2>1 DEF PartDiff, DiffParent, LastMount
      <3> QED
        BY <1>1, <3>1, <3>2 DEF Accounted, WithPending, DiffAppend
    <2>4. Accounted'[k] = AppendEntry(session[k], PartDiff(p)[k])
      BY <2>3 DEF DiffAppend
    <2>5. CASE Owner[k] \notin changed[p]
      <3>1. Accounted'[k] = Accounted[k]
        BY <1>1, <1>5, <2>2, <2>4, <2>5, PartDiffOfFile, AppendNothing
      <3> QED
        BY <1>2, <1>3, <1>4, <2>5, <3>1
    <2>6. CASE Owner[k] \in changed[p] /\ PartDiff(p)[k] = EntryOf(ks[p][k], disk[k])
      <3>1. UndoEntry(Accounted'[k], ks[p][k]) = start[k]
        BY <1>4, <1>5, <1>6, <2>2, <2>4, <2>6, UndoAppendEntry
      <3>2. CASE Accounted[k] = NoEntry /\ PartDiff(p)[k] = NoEntry
        BY <1>2, <1>3, <1>4, <1>6, <2>6, <3>1, <3>2, EntryOfSame, UndoNothing
      <3>3. CASE ~(Accounted[k] = NoEntry /\ PartDiff(p)[k] = NoEntry)
        BY <1>2, <1>3, <1>9, <2>6, <3>1, <3>3
      <3> QED
        BY <3>2, <3>3
    <2>7. CASE Owner[k] \in changed[p] /\ PartDiff(p)[k] # EntryOf(ks[p][k], disk[k])
      <3>1. PartDiff(p)[k] = NoEntry /\ k \notin active[p]
        BY <1>1, <2>7, PartDiffOfFile
      <3>2. Accounted'[k] = Accounted[k]
        BY <1>5, <2>2, <2>4, <3>1, AppendNothing
      <3>3. CASE Accounted[k] = NoEntry
        BY <1>2, <1>3, <2>7, <3>1, <3>2, <3>3, UndoNothing
      <3>4. CASE Accounted[k] # NoEntry
        BY <1>2, <1>3, <1>4, <1>5, <3>2, <3>4, UndoSomething
      <3> QED
        BY <3>3, <3>4
    <2> QED
      BY <2>5, <2>6, <2>7
  <1> QED
    BY <1>8, <1>9

\* Where neither the session nor the changes that p had to record have a key, the
\* session stays exact without these changes.
LEMMA ExactWithout ==
    ASSUME TypeOK, SessionExact, NEW p \in Procs, flock = p, p # NoProc, Pending(p),
           Accounted' = session', UNCHANGED <<disk, start>>,
           lost \subseteq lost', ToRecord(p) \subseteq lost',
           \A k \in Keys \ lost' : session'[k] = session[k]
    PROVE  SessionExact'
  <1>1. Accounted = DiffAppend(session, PartDiff(p))
    BY DEF Accounted, WithPending
  <1>2. ASSUME NEW k \in Keys \ lost' PROVE Accounted'[k] = Accounted[k]
    <2>1. PartDiff(p)[k] = NoEntry
      BY <1>2 DEF ToRecord, Pending
    <2>2. session[k] \in Entries
      BY DEF TypeOK, Diffs
    <2>3. Accounted[k] = session[k]
      BY <1>1, <2>1, <2>2, AppendNothing DEF DiffAppend
    <2> QED
      BY <1>2, <2>3
  <1> QED
    BY <1>2 DEF SessionExact, DiffUndo

\* Every step keeps the session exact.
LEMMA SessionExactStep ==
    ASSUME Sound, RecorderInvariant, [Next]_vars
    PROVE  SessionExact'
  <1> USE DEF RecorderInvariant, handleVars, callVars, histVars, countVars
  <1>0. CASE UNCHANGED vars
    <2>1. Accounted' = Accounted /\ UNCHANGED <<disk, start, lost>>
      BY <1>0 DEF vars, Accounted, WithPending, Pending, PartDiff, DiffParent, LastMount
    <2> QED
      BY <2>1, ExactStays
  <1> SUFFICES ASSUME Next PROVE SessionExact'
    BY <1>0
  <1> PICK p \in Procs : NextOf(p)
    BY NextIsOfOne
  <1>1. CASE Reopen(p)
    <2>1. flock # p
      BY <1>1 DEF Reopen, FreshHandle, LockOnlyInSet
    <2>2. Accounted' = WithPending(session')
      BY <1>1, <2>1, OthersPending DEF Reopen, FreshHandle, TypeOK
    <2>3. Accounted' = Accounted
      BY <1>1, <2>2 DEF Reopen, FreshHandle, Accounted
    <2> QED
      BY <1>1, <2>3, ExactStays DEF Reopen, FreshHandle
  <1>2. CASE Crash(p)
    <2>1. CASE Pending(p)
      <3>1. flock = p /\ active[p] # NoSession /\ p # NoProc
        BY <2>1, NoProcOther DEF Pending, LockHeld
      <3>2. Accounted' = session'
        BY <1>2, <3>1, NothingPendingNext DEF Crash
      <3>3. UNCHANGED <<session, disk, start>> /\ lost' = lost \union ToRecord(p)
        BY <1>2, <2>1 DEF Crash, LostUnrecorded
      <3> QED
        BY <2>1, <3>1, <3>2, <3>3, ExactWithout
    <2>2. CASE ~Pending(p)
      <3>1. UNCHANGED <<disk, start, lost, session>>
        BY <1>2, <2>2 DEF Crash, LostUnrecorded
      <3>2. CASE flock = p
        <4>1. Accounted = session
          BY <2>2, <3>2, NothingPending
        <4>2. Accounted' = session'
          BY <1>2, <3>2, NothingPendingNext DEF Crash
        <4> QED
          BY <3>1, <4>1, <4>2, ExactStays
      <3>3. CASE flock # p
        <4>1. Accounted' = WithPending(session')
          BY <1>2, <3>3, OthersPending DEF Crash, FreshHandle, Return, TypeOK
        <4> QED
          BY <3>1, <4>1, ExactStays DEF Accounted
      <3> QED
        BY <3>2, <3>3
    <2> QED
      BY <2>1, <2>2
  <1>3. CASE \E par \in Parents : Get(p, par)
    <2>1. flock # p
      BY <1>3 DEF Get, LockOnlyInSet
    <2>2. Accounted' = WithPending(session')
      BY <1>3, <2>1, OthersPending DEF Get, TypeOK
    <2>3. Accounted' = Accounted
      BY <1>3, <2>2 DEF Get, Accounted
    <2> QED
      BY <1>3, <2>3, ExactStays DEF Get
  <1>4. CASE \E par \in Parents : UndoLoad(p, par)
    <2> PICK par \in Parents : UndoLoad(p, par)
      BY <1>4
    <2>1. flock # p /\ UNCHANGED <<disk, session, start, lost, flock, active, changed>>
      BY DEF UndoLoad, Manage, LockOnlyInSet
    <2>2. \A q \in Procs \ {p} : pc'[q] = pc[q] /\ ks'[q] = ks[q] /\ allKeys'[q] = allKeys[q]
      <3>1. CASE UNCHANGED <<pc, allKeys, ks>>
        BY <3>1
      <3>2. CASE ~UNCHANGED <<pc, allKeys, ks>>
        <4>1. /\ pc' = [pc EXCEPT ![p] = "undoSet"]
              /\ ks' = [ks EXCEPT ![p] = ks'[p]]
              /\ allKeys' = [allKeys EXCEPT ![p] = AllKeysAfterGet(p, par)]
          BY <3>2 DEF UndoLoad, TypeOK
        <4> QED
          BY <4>1 DEF TypeOK
      <3> QED
        BY <3>1, <3>2
    <2>3. Accounted' = WithPending(session')
      BY <2>1, <2>2, OthersPending
    <2> QED
      BY <2>1, <2>3, ExactStays DEF Accounted
  <1>5. CASE \E par \in Parents, new \in KeySets : SetResolver(p, par, new)
    <2>1. flock # p
      BY <1>5 DEF SetResolver, LockOnlyInSet
    <2>2. Accounted' = WithPending(session')
      BY <1>5, <2>1, OthersPending DEF SetResolver, TypeOK
    <2>3. Accounted' = Accounted
      BY <1>5, <2>2 DEF SetResolver, Accounted
    <2> QED
      BY <1>5, <2>3, ExactStays DEF SetResolver
  <1>6. CASE \E s \in SessionParents \union {NoSession} : Configure(p, s)
    <2>1. flock # p
      BY <1>6 DEF Configure, Manage, LockOnlyInSet
    <2>2. Accounted' = WithPending(session')
      BY <1>6, <2>1, OthersPending DEF Configure, Manage, TypeOK
    <2>3. Accounted' = Accounted
      BY <1>6, <2>2 DEF Configure, Manage, Accounted
    <2> QED
      BY <1>6, <2>3, ExactStays DEF Configure, Manage
  <1>7. CASE \E below \in SUBSET Keys : EditLoad(p, below)
    <2>1. flock # p
      BY <1>7 DEF EditLoad, Manage, LockOnlyInSet
    <2>2. Accounted' = WithPending(session')
      BY <1>7, <2>1, OthersPending DEF EditLoad, Manage, TypeOK
    <2>3. Accounted' = Accounted
      BY <1>7, <2>2 DEF EditLoad, Manage, Accounted
    <2> QED
      BY <1>7, <2>3, ExactStays DEF EditLoad, Manage
  <1>8. CASE RecorderLock(p)
    <2>1. flock # p /\ UNCHANGED <<disk, session, start, lost, active, allKeys>>
      BY <1>8 DEF RecorderLock, LockOnlyInSet
    <2>2. CASE UNCHANGED flock
      <3>1. \A q \in Procs \ {p} : pc'[q] = pc[q] /\ ks'[q] = ks[q] /\ changed'[q] = changed[q]
        <4>1. CASE Return(p)
          BY <4>1 DEF Return, TypeOK
        <4>2. CASE pc' = [pc EXCEPT ![p] = "storage"] /\ UNCHANGED callVars
          BY <4>2 DEF TypeOK
        <4> QED
          BY <1>8, <4>1, <4>2 DEF RecorderLock
      <3>2. Accounted' = WithPending(session')
        BY <2>1, <2>2, <3>1, OthersPending
      <3> QED
        BY <2>1, <3>2, ExactStays DEF Accounted
    <2>3. CASE ~UNCHANGED flock
      <3>1. flock = NoProc /\ flock' = p /\ pc' = [pc EXCEPT ![p] = "storage"]
        BY <1>8, <2>3 DEF RecorderLock
      <3>2. Accounted = session
        BY <3>1, NothingPending
      <3>3. ~Pending(flock)'
        BY <3>1 DEF Pending, TypeOK
      <3>4. Accounted' = session'
        BY <3>3, NothingPendingNext
      <3> QED
        BY <2>1, <3>2, <3>4, ExactStays
    <2> QED
      BY <2>2, <2>3
  <1>9. CASE SetFails(p)
    <2>1. Accounted' = Accounted
      <3>1. CASE flock = p
        <4>1. Accounted = session
          BY <1>9, <3>1, NothingPending DEF SetFails, Pending
        <4>2. Accounted' = session'
          BY <1>9, <3>1, NothingPendingNext DEF SetFails, RecorderUnlock
        <4> QED
          BY <1>9, <4>1, <4>2 DEF SetFails
      <3>2. CASE flock # p
        <4>1. Accounted' = WithPending(session')
          BY <1>9, <3>2, OthersPending DEF SetFails, RecorderUnlock, Return, TypeOK
        <4> QED
          BY <1>9, <4>1 DEF SetFails, Accounted
      <3> QED
        BY <3>1, <3>2
    <2>2. UNCHANGED <<disk, start, lost>>
      BY <1>9 DEF SetFails
    <2> QED
      BY <2>1, <2>2, ExactStays
  <1>10. CASE Commit(p)
    BY <1>10, CommitExact
  <1>11. CASE CommitFails(p)
    <2>1. Accounted' = Accounted
      <3>1. CASE flock = p
        <4>1. Accounted = session
          BY <1>11, <3>1, NothingPending DEF CommitFails, Pending
        <4>2. Accounted' = session'
          BY <1>11, <3>1, NothingPendingNext DEF CommitFails, RecorderUnlock
        <4> QED
          BY <1>11, <4>1, <4>2 DEF CommitFails
      <3>2. CASE flock # p
        <4>1. Accounted' = WithPending(session')
          BY <1>11, <3>2, OthersPending DEF CommitFails, RecorderUnlock, Return, TypeOK
        <4> QED
          BY <1>11, <4>1 DEF CommitFails, Accounted
      <3> QED
        BY <3>1, <3>2
    <2>2. UNCHANGED <<disk, start, lost>>
      BY <1>11, CommitFailsStoresNothing DEF CommitFails
    <2> QED
      BY <2>1, <2>2, ExactStays
  <1>12. CASE Record(p)
    <2>1. UNCHANGED <<disk, session, start, lost, flock, active, allKeys, ks, changed>>
      BY <1>12 DEF Record
    <2>2. pc[p] = "record" /\ (pc' = [pc EXCEPT ![p] = "end"] \/ pc' = [pc EXCEPT ![p] = "recordSet"])
      BY <1>12 DEF Record
    <2>3. CASE flock # p
      <3>1. Accounted' = WithPending(session')
        BY <2>1, <2>2, <2>3, OthersPending DEF TypeOK
      <3> QED
        BY <2>1, <3>1, ExactStays DEF Accounted
    <2>4. CASE flock = p
      <3>1. active[p] # NoSession /\ p # NoProc
        BY <2>4, NoProcOther DEF LockHeld
      <3>2. Accounted = DiffAppend(session, PartDiff(p))
        BY <2>2, <2>4, <3>1 DEF Accounted, WithPending, Pending
      <3>3. CASE pc' = [pc EXCEPT ![p] = "recordSet"]
        <4>1. Pending(flock)' /\ flock' # NoProc
          BY <2>1, <2>4, <3>1, <3>3 DEF Pending, TypeOK
        <4>2. PartDiff(flock)' = PartDiff(p)
          BY <2>1, <2>4 DEF PartDiff, DiffParent, LastMount
        <4>3. Accounted' = DiffAppend(session, PartDiff(p))
          BY <2>1, <4>1, <4>2 DEF Accounted, WithPending, DiffAppend
        <4> QED
          BY <2>1, <3>2, <4>3, ExactStays
      <3>4. CASE pc' = [pc EXCEPT ![p] = "end"]
        <4>1. ~Pending(flock)'
          BY <2>1, <2>4, <3>4 DEF Pending, TypeOK
        <4>2. Accounted' = session'
          BY <4>1, NothingPendingNext
        <4>3. DiffIsEmpty(PartDiff(p)) \/ DiffAppend(session, PartDiff(p)) = session
          <5>1. pc'[p] = "end"
            BY <3>4 DEF TypeOK
          <5>2. ~(pc' = [pc EXCEPT ![p] = "recordSet"])
            BY <5>1 DEF TypeOK
          <5> QED
            BY <1>12, <3>1, <5>2 DEF Record
        <4>4. DiffIsEmpty(PartDiff(p)) => \A k \in Keys : PartDiff(p)[k] = NoEntry
          BY EmptyIsNothing, PartDiffType
        <4>5. DiffAppend(session, PartDiff(p)) = session
          BY <4>3, <4>4, AppendNothing DEF DiffAppend, TypeOK, Diffs
        <4> QED
          BY <2>1, <3>2, <4>2, <4>5, ExactStays
      <3> QED
        BY <2>2, <3>3, <3>4
    <2> QED
      BY <2>3, <2>4
  <1>13. CASE RecordSet(p)
    <2>1. /\ active[p] # NoSession /\ flock = p /\ p # NoProc /\ pc[p] = "recordSet"
          /\ pc' = [pc EXCEPT ![p] = "end"] /\ UNCHANGED <<disk, flock, active>>
      BY <1>13, NoProcOther DEF RecordSet, LockHeld
    <2>2. Accounted' = session'
      BY <2>1, NothingPendingNext DEF Pending, TypeOK
    <2>3. CASE rec[p] = "current" /\ StoreSession(p, FALSE)
      <3>1. Accounted = DiffAppend(session, PartDiff(p))
        BY <2>1 DEF Accounted, WithPending, Pending
      <3>2. session' = DiffAppend(session, PartDiff(p)) /\ lost' = lost
        BY <2>1, <2>3 DEF StoreSession, Knows, RecordsPending
      <3>3. start' = start
        BY <1>13 DEF RecordSet
      <3> QED
        BY <2>1, <2>2, <3>1, <3>2, <3>3, ExactStays
    <2>4. CASE rec[p] # "current" /\ StoreSession(p, FALSE)
      <3>1. /\ session' = EmptyDiff
            /\ lost' = (lost \union ToRecord(p)) \union {k \in Keys : session[k] # NoEntry}
        BY <2>1, <2>4 DEF StoreSession, Knows, LostUnrecorded, Pending
      <3>2. start' = start
        BY <1>13 DEF RecordSet
      <3>3. ASSUME NEW k \in Keys \ lost' PROVE session'[k] = session[k]
        BY <3>1, <3>3 DEF EmptyDiff
      <3> QED
        BY <2>1, <2>2, <3>1, <3>2, <3>3, ExactWithout DEF Pending
    <2>5. CASE UNCHANGED session /\ lost' = LostUnrecorded(p)
      <3>1. lost' = lost \union ToRecord(p) /\ start' = start
        BY <1>13, <2>1, <2>5 DEF RecordSet, LostUnrecorded, Pending
      <3> QED
        BY <2>1, <2>2, <2>5, <3>1, ExactWithout DEF Pending
    <2> QED
      BY <1>13, <2>3, <2>4, <2>5 DEF RecordSet
  <1>14. CASE RecordFails(p)
    <2>1. /\ active[p] # NoSession /\ flock = p /\ p # NoProc
          /\ pc[p] \in {"record", "recordSet"}
          /\ pc' = [pc EXCEPT ![p] = "end"] /\ UNCHANGED <<disk, session, flock, active,
                                                           start>>
          /\ lost' = LostUnrecorded(p)
      BY <1>14, NoProcOther DEF RecordFails, LockHeld
    <2>2. Accounted' = session'
      BY <2>1, NothingPendingNext DEF Pending, TypeOK
    <2>3. lost' = lost \union ToRecord(p) /\ Pending(p)
      BY <2>1 DEF LostUnrecorded, Pending
    <2> QED
      BY <2>1, <2>2, <2>3, ExactWithout
  <1>15. CASE SetEnd(p)
    <2>1. Accounted' = Accounted
      <3>1. CASE flock = p
        <4>1. Accounted = session
          BY <1>15, <3>1, NothingPending DEF SetEnd, Pending
        <4>2. Accounted' = session'
          BY <1>15, <3>1, NothingPendingNext DEF SetEnd, RecorderUnlock
        <4> QED
          BY <1>15, <4>1, <4>2 DEF SetEnd
      <3>2. CASE flock # p
        <4>1. Accounted' = WithPending(session')
          BY <1>15, <3>2, OthersPending DEF SetEnd, RecorderUnlock, Return, TypeOK
        <4> QED
          BY <1>15, <4>1 DEF SetEnd, Accounted
      <3> QED
        BY <3>1, <3>2
    <2>2. UNCHANGED <<disk, start, lost>>
      BY <1>15 DEF SetEnd
    <2> QED
      BY <2>1, <2>2, ExactStays
  <1>16. CASE EditStore(p)
    <2>1. /\ flock # p /\ pc[p] = "editStore" /\ Return(p)
          /\ UNCHANGED <<disk, flock, active, allKeys>>
      BY <1>16 DEF EditStore, LockOnlyInSet
    <2>2. Accounted' = WithPending(session')
      BY <2>1, OthersPending DEF Return, TypeOK
    <2>3. CASE UNCHANGED <<session, start, lost>>
      BY <2>1, <2>2, <2>3, ExactStays DEF Accounted
    <2>4. CASE sess[p] = "current" /\ StoreSession(p, TRUE) /\ start' = StartAfterEdit(p)
      <3>1. session' = rest[p] /\ lost' = lost
        BY <2>4 DEF StoreSession, Knows
      <3>2. Accounted' = WithPending(rest[p])
        BY <2>2, <3>1
      <3>3. ASSUME NEW k \in Keys \ lost
            PROVE  DiffUndo(WithPending(rest[p]), disk)[k] = start'[k]
        <4>1. CASE session[k] # NoEntry /\ rest[p][k] = NoEntry
          BY <2>4, <4>1 DEF StartAfterEdit
        <4>2. CASE ~(session[k] # NoEntry /\ rest[p][k] = NoEntry)
          <5>1. rest[p][k] = session[k]
            BY <2>1, <2>4, <4>2 DEF EditsDrop
          <5>2. WithPending(rest[p])[k] = Accounted[k]
            BY <5>1 DEF WithPending, Accounted, DiffAppend
          <5>3. start'[k] = start[k]
            BY <2>4, <4>2 DEF StartAfterEdit
          <5> QED
            BY <5>2, <5>3 DEF SessionExact, DiffUndo
        <4> QED
          BY <4>1, <4>2
      <3> QED
        BY <2>1, <3>1, <3>2, <3>3 DEF SessionExact, DiffUndo
    <2>5. CASE sess[p] # "current" /\ StoreSession(p, TRUE) /\ start' = start
      <3>1. /\ session' = EmptyDiff
            /\ lost \subseteq lost' /\ {k \in Keys : session[k] # NoEntry} \subseteq lost'
        BY <2>5 DEF StoreSession, Knows, LostUnrecorded
      <3>2. ASSUME NEW k \in Keys \ lost' PROVE Accounted'[k] = Accounted[k]
        <4>1. session'[k] = session[k]
          BY <3>1, <3>2 DEF EmptyDiff
        <4>2. WithPending(session')[k] = WithPending(session)[k]
          BY <4>1 DEF WithPending, DiffAppend
        <4> QED
          BY <2>2, <4>2 DEF Accounted
      <3> QED
        BY <2>1, <2>5, <3>1, <3>2 DEF SessionExact, DiffUndo
    <2> QED
      BY <1>16, <2>3, <2>4, <2>5 DEF EditStore
  <1>17. CASE UndoSet(p)
    <2>1. /\ pc[p] = "undoSet" /\ UndoExactOf(p)
          /\ UNCHANGED <<session, flock, start, lost, active>>
      BY <1>17 DEF UndoSet, UndoExact
    <2>2. pc' = [pc EXCEPT ![p] = "undoStore"] \/ pc' = [pc EXCEPT ![p] = "idle"]
      BY <1>17 DEF UndoSet, Return
    <2>3. Accounted = session /\ Accounted' = session'
      <3>1. \A q \in Procs : ~Pending(q)
        BY <2>1 DEF Pending, UndoExactOf
      <3>2. \A q \in Procs : pc'[q] \notin {"record", "recordSet"}
        BY <2>1, <2>2 DEF UndoExactOf, TypeOK
      <3>3. flock # NoProc => ~Pending(flock)
        BY <3>1 DEF TypeOK
      <3>4. (flock # NoProc => ~Pending(flock))'
        BY <2>1, <3>2 DEF Pending, TypeOK
      <3> QED
        BY <3>3, <3>4, NothingPending, NothingPendingNext
    <2>4. CASE UNCHANGED disk
      BY <2>1, <2>3, <2>4, ExactStays
    <2>5. CASE disk' = DiskAfterStore(p, Differs(p, ks[p], parent[p]))
      <3>1. ASSUME NEW k \in Keys \ lost PROVE UndoEntry(session[k], disk'[k]) = start[k]
        <4>1. UndoEntry(session[k], disk[k]) = start[k]
          BY <2>3 DEF SessionExact, DiffUndo
        <4>2. disk'[k] = disk[k] \/ disk'[k] = start[k]
          BY <2>1, <2>5 DEF DiskAfterStore, Differs, UndoExactOf
        <4>3. CASE session[k] = NoEntry
          BY <4>1, <4>2, <4>3, UndoNothing
        <4>4. CASE session[k] # NoEntry
          <5>1. session[k] \in Entries /\ WellFormedEntry(session[k])
            BY DEF TypeOK, Diffs, DiffsWellFormed, WellFormed
          <5> QED
            BY <4>1, <4>4, <5>1, UndoSomething
        <4> QED
          BY <4>3, <4>4
      <3> QED
        BY <2>1, <2>3, <3>1 DEF SessionExact, DiffUndo
    <2> QED
      BY <1>17, <2>4, <2>5 DEF UndoSet
  <1>18. CASE UndoStore(p)
    <2>1. /\ pc[p] = "undoStore" /\ UndoExactOf(p) /\ pc' = [pc EXCEPT ![p] = "idle"]
          /\ UNCHANGED <<disk, flock, start, active>>
      BY <1>18 DEF UndoStore, UndoExact, Return
    <2>2. Accounted = session /\ Accounted' = session'
      <3>1. \A q \in Procs : ~Pending(q)
        BY <2>1 DEF Pending, UndoExactOf
      <3>2. \A q \in Procs : pc'[q] \notin {"record", "recordSet"}
        BY <2>1 DEF UndoExactOf, TypeOK
      <3>3. flock # NoProc => ~Pending(flock)
        BY <3>1 DEF TypeOK
      <3>4. (flock # NoProc => ~Pending(flock))'
        BY <2>1, <3>2 DEF Pending, TypeOK
      <3> QED
        BY <3>3, <3>4, NothingPending, NothingPendingNext
    <2>3. CASE UNCHANGED <<session, lost>>
      BY <2>1, <2>2, <2>3, ExactStays
    <2>4. CASE session' = rest[p] /\ lost' = lost
      <3>1. ASSUME NEW k \in Keys \ lost PROVE UndoEntry(rest[p][k], disk[k]) = start[k]
        <4>1. UndoEntry(session[k], disk[k]) = start[k]
          BY <2>2 DEF SessionExact, DiffUndo
        <4>2. rest[p][k] = IF k \in KeysOf(parent[p]) THEN NoEntry ELSE session[k]
          BY <2>1 DEF UndoExactOf, DiffRemove
        <4>3. k \in KeysOf(parent[p]) => Owner[k] \in parent[p]
          BY <2>1, KeysOfParent DEF UndoExactOf
        <4>4. Owner[k] \in parent[p] => disk[k] = start[k]
          BY <2>1 DEF UndoExactOf
        <4> QED
          BY <4>1, <4>2, <4>3, <4>4, UndoNothing
      <3> QED
        BY <2>1, <2>2, <2>4, <3>1 DEF SessionExact, DiffUndo
    <2> QED
      BY <1>18, <2>1, <2>3, <2>4 DEF UndoStore, StoreSession, Knows, UndoExactOf
  <1> QED
    BY <1>1, <1>2, <1>3, <1>4, <1>5, <1>6, <1>7, <1>8, <1>9, <1>10, <1>11, <1>12, <1>13, <1>14,
       <1>15, <1>16, <1>17, <1>18 DEF NextOf

LEMMA RecorderInit ==
    ASSUME Init
    PROVE  RecorderInvariant
  <1>1. TypeOK
    BY TypeInit
  <1>2. LockOnlyInSet /\ LockHeld
    BY NoProcOther DEF Init, LockOnlyInSet, LockHeld
  <1>3. DiffsWellFormed
    BY EmptyType DEF Init, DiffsWellFormed
  <1>4. RecordsPending /\ SetOfOneBackend /\ FilesReserved /\ EditsDrop /\ UndoExact
    BY DEF Init, RecordsPending, SetOfOneBackend, InSet, FilesReserved, EditsDrop, UndoExact
  <1>5. KnownCurrent
    BY RecorderAssumption DEF Init, KnownCurrent
  <1>6. SessionExact
    <2>1. Accounted = EmptyDiff
      BY DEF Init, Accounted, WithPending
    <2>2. \A k \in Keys : UndoEntry(EmptyDiff[k], disk[k]) = start[k]
      BY UndoNothing DEF Init, EmptyDiff
    <2> QED
      BY <1>1, <2>1, <2>2 DEF SessionExact, DiffUndo, TypeOK, KeySets
  <1> QED
    BY <1>1, <1>2, <1>3, <1>4, <1>5, <1>6 DEF RecorderInvariant

LEMMA RecorderStep ==
    ASSUME Sound, RecorderInvariant, [Next]_vars
    PROVE  RecorderInvariant'
  <1>1. TypeOK'
    BY TypeStep DEF RecorderInvariant
  <1>2. (LockOnlyInSet /\ LockHeld)'
    BY LockStep DEF RecorderInvariant
  <1>3. DiffsWellFormed'
    BY WellFormedStep DEF RecorderInvariant
  <1>4. RecordsPending'
    BY RecordsPendingStep DEF RecorderInvariant
  <1> QED
    BY <1>1, <1>2, <1>3, <1>4, OneBackendStep, FilesReservedStep, KnownCurrentStep, EditsDropStep,
       UndoExactStep, SessionExactStep DEF RecorderInvariant

\* Undoing the session gives every key back what it was before the session got a
\* change of it, unless a change of it was stored and will not be recorded: whatever
\* other processes do, whichever step fails and wherever a process ends, as long as
\* nobody else is at work while a session is undone, every call that manages a session
\* has its own handle, and kdbSet() is given changes of one backend.
THEOREM SessionStaysExact ==
    ASSUME Sound
    PROVE  Spec => []SessionExact
  <1>1. Init => RecorderInvariant
    BY RecorderInit
  <1>2. RecorderInvariant /\ [Next]_vars => RecorderInvariant'
    BY RecorderStep
  <1>3. RecorderInvariant => SessionExact
    BY DEF RecorderInvariant
  <1> QED
    BY <1>1, <1>2, <1>3, PTL DEF Spec

\* elektraRecordUndo leaves the keys below its parent key as they were before the
\* session got a change of them, unless one of these changes was not recorded; also if
\* the process that undid the session before ended before it stored the rest of it.
THEOREM UndoGivesBack ==
    ASSUME Sound
    PROVE  Spec => UndoRestores
  <1>1. Init => RecorderInvariant
    BY RecorderInit
  <1>2. RecorderInvariant /\ [Next]_vars => RecorderInvariant'
    BY RecorderStep
  <1>3. RecorderInvariant /\ [Next]_vars =>
          [\A p \in Procs :
             pc[p] = "undoStore" /\ pc'[p] = "idle" /\ sess[p] = "current" /\ sess'[p] = "current" =>
                 \A k \in KeysOf(parent[p]) \ lost : disk'[k] = start'[k]]_vars
    <2> SUFFICES ASSUME RecorderInvariant, Next, NEW q \in Procs, pc[q] = "undoStore",
                        pc'[q] = "idle", sess'[q] = "current", NEW k \in KeysOf(parent[q]) \ lost
                 PROVE  disk'[k] = start'[k]
      OBVIOUS
    <2> USE DEF RecorderInvariant, handleVars, callVars, histVars, countVars
    <2> PICK p \in Procs : NextOf(p)
      BY NextIsOfOne
    <2>1. UndoExactOf(q)
      BY DEF UndoExact
    <2>2. k \in Keys
      BY <2>1, RecorderAssumption DEF UndoExactOf, KeysOf
    <2>3. Owner[k] \in parent[q]
      BY <2>1, <2>2, KeysOfParent DEF UndoExactOf
    <2>4. disk[k] = start[k]
      BY <2>1, <2>2, <2>3 DEF UndoExactOf
    <2>5. CASE UndoStore(p)
      BY <2>4, <2>5 DEF UndoStore
    <2>6. CASE Crash(p)
      <3>1. p = q
        BY <2>1, <2>6 DEF Crash, UndoExactOf
      <3> QED
        BY <2>6, <3>1 DEF Crash, FreshHandle, TypeOK
    <2>7. CASE ~UndoStore(p) /\ ~Crash(p)
      <3>1. p # q => pc[p] = "idle"
        BY <2>1 DEF UndoExactOf
      <3>2. p # q
        BY <2>7 DEF NextOf, Reopen, Get, UndoLoad, SetResolver, Configure, EditLoad, Manage,
           RecorderLock, SetFails, Commit, CommitFails, Record, RecordSet, RecordFails, SetEnd,
           EditStore, UndoSet
      <3>3. pc'[q] = pc[q]
        BY <2>7, <3>1, <3>2 DEF NextOf, Reopen, Get, UndoLoad, SetResolver, Configure, EditLoad,
           Manage,
           RecorderLock, SetFails, Commit, CommitFails, Record, RecordSet, RecordFails, SetEnd,
           EditStore, UndoSet, TypeOK
      <3> QED
        BY <3>3
    <2> QED
      BY <2>5, <2>6, <2>7
  <1> QED
    BY <1>1, <1>2, <1>3, PTL DEF Spec, UndoRestores
=============================================================================
