---------------------------- MODULE RecorderInv -----------------------------
(***************************************************************************)
(* Why a session stays exact: the inductive invariant of Recorder, for     *)
(* backends next to each other and parent keys that select one of them.    *)
(***************************************************************************)
EXTENDS Recorder

\* The uses and the mountpoints for which sessions are exact.  What goes wrong
\* otherwise is what the code does, not what the argument lacks.
Sound ==
    /\ Uses \cap {"undo", "reuse", "foreign"} = {}
    /\ \A par \in Parents : \E b \in Backends : par = {b}
    /\ \A b \in Backends : \A k \in MountBelow[b] : Owner[k] = b

InSet == {"lock", "storage", "record", "recordSet", "end"}

\* A recording kdbSet() holds the lock from before it stores anything.
LockHeld ==
    /\ \A p \in Procs : active[p] # NoSession /\ pc[p] \in {"storage", "record", "recordSet", "end"}
                          => flock = p
    /\ \A p \in Procs : flock = p => active[p] # NoSession
    /\ \A p \in Procs : pc[p] = "recordSet" => active[p] # NoSession

DiffsWellFormed == WellFormed(session) /\ \A p \in Procs : WellFormed(rest[p])

\* What a recorder is about to store is the session with the changes of its kdbSet(),
\* unless the session is another one by now.
RecordsPending ==
    \A p \in Procs : pc[p] = "recordSet" /\ rec[p] = "current" =>
        rest[p] = DiffAppend(session, PartDiff(p))

\* One backend takes part in kdbSet(), and keys of others are as in allKeys.
SetOfOneBackend ==
    \A p \in Procs : pc[p] \in InSet =>
        /\ parent[p] \in Parents /\ changed[p] = parent[p]
        /\ \A k \in Keys : Owner[k] \notin parent[p] => ks[p][k] = allKeys[p][k]

\* Until it is stored, the file is the one that was loaded and nobody else is
\* about to store it.
FilesReserved ==
    /\ \A p \in Procs : pc[p] \in {"lock", "storage"} =>
            \A b \in changed[p] : seen[p][b] = "current"
    /\ \A p, q \in Procs :
          p # q /\ pc[p] \in {"lock", "storage"} /\ pc[q] \in {"lock", "storage"} =>
            changed[p] \cap changed[q] = {}

\* allKeys, or after the commit ks, has the keys of the files that did not change.
KnownKeys(p, k) ==
    IF pc[p] \in {"record", "recordSet", "end"} /\ Owner[k] \in changed[p] THEN ks[p][k]
    ELSE allKeys[p][k]

KnownCurrent ==
    \A p \in Procs, k \in Keys : seen[p][Owner[k]] = "current" => KnownKeys(p, k) = disk[k]

\* An edit of the session only drops keys, if it is stored.
EditsDrop ==
    \A p \in Procs : pc[p] = "editStore" /\ sess[p] = "current" =>
        \A k \in Keys : rest[p][k] \in {session[k], NoEntry}

\* While a session is undone all others wait, ks has what the keys were before the
\* session had a change of them, and later the files have it.
UndoExactOf(p) ==
    /\ \A q \in Procs \ {p} : pc[q] = "idle"
    /\ parent[p] \in Parents /\ sess[p] = "current"
    /\ rest[p] = DiffRemove(session, KeysOf(parent[p]))
    /\ \A k \in Keys : Owner[k] \notin parent[p] => ks[p][k] = Absent
    /\ \A k \in Keys \ lost : Owner[k] \in parent[p] => ks[p][k] = start[k]
    /\ pc[p] = "undoSet" => \A b \in parent[p] : seen[p][b] = "current"
    /\ pc[p] = "undoStore" => \A k \in Keys \ lost : Owner[k] \in parent[p] => disk[k] = start[k]

UndoExact == \A p \in Procs : pc[p] \in {"undoSet", "undoStore"} => UndoExactOf(p)

RecorderInvariant ==
    /\ TypeOK
    /\ LockOnlyInSet
    /\ LockHeld
    /\ DiffsWellFormed
    /\ RecordsPending
    /\ SetOfOneBackend
    /\ FilesReserved
    /\ KnownCurrent
    /\ EditsDrop
    /\ UndoExact
    /\ SessionExact
=============================================================================
