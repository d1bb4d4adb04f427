------------------------------- MODULE KdbInv -------------------------------
(***************************************************************************)
(* Why kdbSet() loses no update of another application: the inductive      *)
(* invariant of Kdb, for any mountpoints, nested or not.                   *)
(***************************************************************************)
EXTENDS Kdb

\* Whatever backendsDivide gives a backend is at or below its mountpoint, and so
\* is whatever kdbSet() stores in its file.
KeysPlaced ==
    \A m \in Mounts, k \in Keys :
        disk[m][k] # Absent \/ keys[m][k] # Absent => IsBelowOrSame(k, m)

\* The files at the start of kdbSet()'s phases are divided among the backends
\* that take part.
KeysDivided ==
    pc \in {"setResolver", "setStorage"} =>
        \A m \in backs, k \in Keys : keys[m][k] # Absent => Contains(backs, m, k)

\* A file the resolver takes for the current one has been loaded or stored,
\* unless kdbGet() is about to load it.
CurrentLoaded ==
    \A m \in Mounts :
        seen[m] = "current" /\ (pc = "getStorage" => m \notin backs) => disk[m] = base[m]

\* What is about to be replaced is locked.
ReplacedLocked ==
    pc \in {"setStorage", "commit"} =>
        \A m \in backs \ stored : keys[m] # Empty => m \in locked

\* Files are locked only between kdbSet()'s conflict check and their commit.
LockedTakePart ==
    /\ unlinked \subseteq locked
    /\ pc \in {"idle", "getStorage", "setResolver"} => locked = {}
    /\ pc \in {"setResolver", "setStorage"} => stored = {}
    /\ pc \in {"setStorage", "commit"} => locked \subseteq backs \ stored

\* A backend without a resolver for kdbSet() is refused before anything is written.
ReadOnlyRefused == pc \in {"setStorage", "commit"} => backs \cap ReadOnly = {}

\* What every step preserves whatever fails: keys stay below their mountpoint,
\* locks end with the call, read-only backends are left alone.
PlacementInvariant ==
    /\ TypeOK
    /\ KeysPlaced
    /\ LockedTakePart
    /\ ReadOnlyRefused
    /\ ReadOnlyNeverStored

\* What every step preserves as well as long as no backend fails while it is
\* loaded, and what makes NoLostUpdate inductive.
UpdateInvariant ==
    /\ KeysDivided
    /\ CurrentLoaded
    /\ ReplacedLocked
    /\ NoLostUpdate
-----------------------------------------------------------------------------
(***************************************************************************)
(* What the properties that relate several calls need.  Each of them asks  *)
(* something of the mountpoints and parent keys.                           *)
(***************************************************************************)

\* With a backend kdbSet() also takes part in all backends mounted below it.
ParentsTakeNested ==
    \A p \in Parents, n \in Mounts :
        (\E m \in BackendsForParentKey(p) : IsBelowOrSame(n, m)) => n \in BackendsForParentKey(p)

\* Every call is about all backends.
ParentsTakeAll == \A p \in Parents, m \in Mounts : IsBelowOrSame(m, p)

\* No backend is mounted below another one.
MountsFlat == \A m \in Mounts, n \in Mounts : IsBelowOrSame(m, n) => m = n

Storing == pc \in {"setResolver", "setStorage", "commit"}

\* The backends of a kdbSet() hold exactly their part of ks.
PartOfKs ==
    Storing => \A m \in backs, k \in Keys : keys[m][k] = IF Home(k) = m THEN ks[k] ELSE Absent

\* Before its commit phase is over kdbSet() has replaced no file, and nothing
\* but a failing commit makes it fail after that.
FailsBeforeCommit ==
    /\ pc \in {"setResolver", "setStorage", "rollback"} => stored = {}
    /\ pc = "commit" => ~failed /\ stored \subseteq backs

\* What is replaced before a failure is the application's, and only a failing commit
\* leaves something replaced.
FailureAccounted ==
    /\ pc = "rollback" /\ stored # {} => failed
    /\ pc \in {"commit", "rollback"} =>
          \A k \in Keys : Home(k) \in stored => base[Home(k)][k] = ks[k]
    /\ FailedSetAccounted

\* A backend counted as empty is known to have no file.
EmptyKnown ==
    \A m \in Mounts :
        getSize[m] = 0 /\ (pc = "commit" => m \notin backs \ stored) => base[m] = Empty

\* Sizes are noted before the files are replaced.
SizesNoted == pc = "commit" => \A m \in backs : getSize[m] = KsGetSize(keys[m])

\* KDB.allKeys has all keys of a backend as they were loaded or stored, or, once
\* kdbGet() has updated others, none of them.
AllKeysKnown ==
    \A m \in Mounts \ ReadOnly :
        (pc = "commit" => m \notin stored) =>
            \/ \A k \in Keys : Home(k) = m => allKeys[k] = base[m][k]
            \/ \A k \in Keys : Home(k) = m => allKeys[k] = Absent

\* Only backends that have no resolver for kdbSet() are marked.
ReadOnlyMarked == \A m \in Mounts : readonly[m] => m \in ReadOnly

\* A backend that takes no part in a kdbSet() holds its part of ks already, and
\* so does one that has been stored.
RestHolds ==
    Storing => \A k \in Keys :
        Home(k) \notin ReadOnly /\ (Home(k) \in backs => pc = "commit" /\ Home(k) \in stored) =>
            ks[k] = base[Home(k)][k]

PersistInvariant ==
    /\ EmptyKnown /\ SizesNoted /\ AllKeysKnown /\ ReadOnlyMarked /\ RestHolds /\ SetPersists

\* What the application has not changed is as it was loaded or stored.
LoadedShown == \A k \in Keys : k \notin edited => ks[k] = base[Home(k)][k]
=============================================================================
