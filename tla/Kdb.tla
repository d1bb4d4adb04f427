-------------------------------- MODULE Kdb ---------------------------------
(***************************************************************************)
(* kdbGet() and kdbSet() of src/libs/elektra/kdb.c: how one KDB handle     *)
(* moves keys between the application's key set and the backends mounted   *)
(* at several mountpoints, and how it finds out which backends changed.    *)
(*                                                                         *)
(* A name is a sequence: <<>> is the cascading parent "/", <<"user">> is   *)
(* user:/, <<"user", "app">> is user:/app.  A key set is a function from   *)
(* Keys to values, Absent for keys it does not hold.  A backend's file     *)
(* exists iff it holds a key.  `seen' abstracts what its resolver (module  *)
(* Resolver) remembers about the file.                                     *)
(***************************************************************************)
EXTENDS Integers, Sequences, FiniteSets

CONSTANTS
    Mounts,      \* mountpoints, the names of the backends
    Keys,        \* names of keys
    Parents,     \* the parent keys the application uses
    Values,
    Absent,
    ReadOnly,    \* backends that have no resolver for kdbSet()
    Faults,      \* which failures may happen; "get" includes that another
                 \* application removes a file that kdbGet() is about to read
    MaxEdits,    \* bound on the application's changes
    MaxWrites    \* bound on the writes of other applications

FaultKinds == {"get", "set", "commit"}

KeySets == [Keys -> Values \union {Absent}]
Empty   == [k \in Keys |-> Absent]

\* keyIsBelowOrSame
IsBelowOrSame(k, n) == Len(n) <= Len(k) /\ SubSeq(k, 1, Len(n)) = n

\* Backend m is the one of bs that contains the key k.
Contains(bs, m, k) ==
    /\ m \in bs /\ IsBelowOrSame(k, m)
    /\ \A n \in bs : IsBelowOrSame(k, n) => IsBelowOrSame(m, n)

Home(k) == CHOOSE m \in Mounts : Contains(Mounts, m, k)

ASSUME MountsAssumption ==
    /\ Mounts \subseteq Seq(STRING) /\ IsFiniteSet(Mounts) /\ ReadOnly \subseteq Mounts
    /\ Keys \subseteq Seq(STRING) /\ IsFiniteSet(Keys)
    /\ Parents \subseteq Seq(STRING)
    /\ \A k \in Keys : \E m \in Mounts : Contains(Mounts, m, k)
ASSUME ValuesAssumption == Absent \notin Values
ASSUME KdbBoundsAssumption ==
    MaxEdits \in Nat /\ MaxWrites \in Nat /\ Faults \subseteq FaultKinds

VARIABLES
    disk,          \* the file of every backend
    seen,          \* what its resolver remembers
    ks,            \* the application's key set
    allKeys,       \* KDB.allKeys
    getSize, initialized, readonly, keys,   \* BackendData of every backend
    pc, parent,    \* the call under way, its parent key
    backs,         \* `backends': the ones that still take part
    locked,        \* the ones whose file is locked
    unlinked,      \* the locked files whose names are gone: their locks exclude nobody
    failed,        \* did a backend fail in the commit phase?
    ret,           \* what the last call returned
    base,          \* history: what the handle last loaded from or stored in a file
    edited,        \* history: keys the application changed since
    stored,        \* history: files this kdbSet() has replaced
    edits, writes  \* used up of the bounds

dataVars == <<getSize, initialized, readonly, keys>>
histVars == <<base, edited, stored>>
vars == <<disk, seen, ks, allKeys, dataVars, pc, parent, backs, locked, unlinked, failed,
          ret, histVars, edits, writes>>

TypeOK ==
    /\ disk \in [Mounts -> KeySets]
    /\ seen \in [Mounts -> {"nothing", "missing", "current", "old"}]
    /\ ks \in KeySets /\ allKeys \in KeySets
    /\ getSize \in [Mounts -> Nat]
    /\ initialized \in [Mounts -> BOOLEAN] /\ readonly \in [Mounts -> BOOLEAN]
    /\ keys \in [Mounts -> KeySets]
    /\ pc \in {"idle", "getStorage", "setResolver", "setStorage", "commit", "rollback"}
    /\ parent \in Parents
    /\ backs \subseteq Mounts /\ locked \subseteq Mounts /\ unlinked \subseteq Mounts
    /\ failed \in BOOLEAN
    /\ ret \in {"none", "updated", "noUpdate", "getFailed", "stored", "unchanged", "setFailed"}
    /\ base \in [Mounts -> KeySets] /\ edited \subseteq Keys /\ stored \subseteq Mounts
    /\ edits \in 0 .. MaxEdits /\ writes \in 0 .. MaxWrites

-----------------------------------------------------------------------------
(***************************************************************************)
(* Key sets and backends.                                                  *)
(***************************************************************************)

\* ksCut, ksBelow: without, and only, the keys at or below n.
KsCut(s, n)   == [k \in Keys |-> IF IsBelowOrSame(k, n) THEN Absent ELSE s[k]]
KsBelow(s, n) == [k \in Keys |-> IF IsBelowOrSame(k, n) THEN s[k] ELSE Absent]

KsAppend(s, t) == [k \in Keys |-> IF t[k] # Absent THEN t[k] ELSE s[k]]
KsGetSize(s)   == Cardinality({k \in Keys : s[k] # Absent})

\* ksCut and ksBelow with every one of a set of names.
KsCutAll(s, ns) ==
    [k \in Keys |-> IF \E n \in ns : IsBelowOrSame(k, n) THEN Absent ELSE s[k]]
KsBelowAll(s, ns) ==
    [k \in Keys |-> IF \E n \in ns : IsBelowOrSame(k, n) THEN s[k] ELSE Absent]

\* backendsForParentKey: all backends below the parent key and the one it is in.
BackendsForParentKey(p) ==
    {m \in Mounts : IsBelowOrSame(m, p) \/ Contains(Mounts, m, p)}

\* Nested backends get their keys twice.
DivideFlat(bs, s) ==
    [m \in Mounts |-> IF m \notin bs THEN keys[m] ELSE KsBelow(s, m)]

\* backendsDivide: every backend of bs gets the keys that no deeper one of bs
\* contains; keys outside of all of them end up in the default backend.
BackendsDivide(bs, s) ==
    [m \in Mounts |-> IF m \notin bs THEN keys[m]
                      ELSE [k \in Keys |-> IF Contains(bs, m, k) THEN s[k] ELSE Absent]]

\* backendsMerge: in the order of the mountpoints, later ones win.  It also
\* notes every backend's size.
BackendsMerge(bs, b) ==
    [k \in Keys |->
       LET holders == {m \in bs : b[m][k] # Absent}
       IN  IF holders = {} THEN Absent
           ELSE b[CHOOSE m \in holders : \A n \in holders : IsBelowOrSame(m, n)][k]]

MergedSize(bs, b) ==
    [m \in Mounts |-> IF m \in bs THEN KsGetSize(b[m]) ELSE getSize[m]]

\* Every call of the application ends here.
Return(r) == pc' = "idle" /\ ret' = r

-----------------------------------------------------------------------------
Init ==
    /\ disk \in [Mounts -> KeySets]
    /\ \A m \in Mounts, k \in Keys : disk[m][k] # Absent => Home(k) = m
    /\ seen = [m \in Mounts |-> "nothing"]
    /\ ks = Empty /\ allKeys = Empty
    /\ getSize = [m \in Mounts |-> 0]
    /\ initialized = [m \in Mounts |-> FALSE]
    /\ readonly = [m \in Mounts |-> FALSE]
    /\ keys = [m \in Mounts |-> Empty]
    /\ pc = "idle" /\ parent \in Parents /\ ret = "none"
    /\ backs = {} /\ locked = {} /\ unlinked = {} /\ failed = FALSE
    /\ base = [m \in Mounts |-> Empty] /\ edited = {} /\ stored = {}
    /\ edits = 0 /\ writes = 0

\* The application changes, adds or removes a key.
Edit(k, v) ==
    /\ pc = "idle" /\ edits < MaxEdits /\ ks[k] # v
    /\ ks' = [ks EXCEPT ![k] = v]
    /\ edited' = edited \union {k}
    /\ edits' = edits + 1
    /\ ret' = "none"
    /\ UNCHANGED <<disk, seen, allKeys, dataVars, pc, parent, backs, locked, unlinked,
                   failed, base, stored, writes>>

\* Another application stores its keys in backend m, or removes its file, for
\* which its resolver takes no lock and looks for no conflict.  With the name of a
\* locked file, or of a placeholder that is locked, what the lock protects is gone.
Write(m, s) ==
    /\ writes < MaxWrites
    /\ \A k \in Keys : s[k] # Absent => Home(k) = m
    /\ \/ s # disk[m] /\ (m \in locked \ unlinked => s = Empty)
       \/ s = Empty /\ m \in locked \ unlinked
    /\ s = Empty /\ pc = "getStorage" /\ m \in backs => "get" \in Faults
    /\ disk' = [disk EXCEPT ![m] = s]
    /\ seen' = [seen EXCEPT ![m] = IF @ = "current" THEN "old" ELSE @]
    /\ unlinked' = IF m \in locked /\ s = Empty THEN unlinked \union {m} ELSE unlinked
    /\ writes' = writes + 1
    /\ ret' = "none"
    /\ UNCHANGED <<ks, allKeys, dataVars, pc, parent, backs, locked, failed, histVars,
                   edits>>

-----------------------------------------------------------------------------
(***************************************************************************)
(* kdbGet().                                                               *)
(***************************************************************************)

\* A backend is updated if its file is there and not the one last seen.
NeedsUpdate(m) == disk[m] # Empty /\ seen[m] # "current"

\* Every call forgets that a backend is read-only; only the initialization of
\* the backend finds out.
InitBackends(all) ==
    /\ initialized' = [m \in Mounts |-> initialized[m] \/ m \in all]
    /\ readonly' = [m \in Mounts |-> IF m \in all THEN ~initialized[m] /\ m \in ReadOnly
                                     ELSE readonly[m]]

\* The resolvers remember what they see.
ResolveBackendsForGet(all) ==
    seen' = [m \in Mounts |-> IF m \notin all THEN seen[m]
                              ELSE IF disk[m] = Empty THEN "missing" ELSE "current"]

\* Steps 1 to 6.
GetResolver(p) ==
    LET all == BackendsForParentKey(p)
    IN  /\ pc = "idle"
        /\ parent' = p
        /\ InitBackends(all)
        /\ ResolveBackendsForGet(all)
        /\ backs' = {m \in all : NeedsUpdate(m)}
        /\ IF backs' = {} THEN Return("noUpdate") ELSE pc' = "getStorage" /\ UNCHANGED ret
        /\ UNCHANGED <<disk, ks, allKeys, getSize, keys, locked, unlinked, failed, histVars,
                       edits, writes>>

\* A file that has gone since the resolver phase is an error of the storage plugin.
FilesThere == \A m \in backs : disk[m] # Empty

\* Loaded keys are removed from ks instead of the old ones.
GetStorageSwapped ==
    LET divided == BackendsDivide(backs, BackendsMerge(backs, disk))
    IN  /\ pc = "getStorage" /\ FilesThere
        /\ keys' = divided
        /\ getSize' = MergedSize(backs, divided)
        /\ ks' = KsCutAll(KsAppend(ks, BackendsMerge(backs, divided)), backs)
        /\ allKeys' = KsAppend(KsCut(allKeys, parent), BackendsMerge(backs, divided))
        /\ base' = [m \in Mounts |-> IF m \in backs THEN disk[m] ELSE base[m]]
        /\ edited' = {k \in edited : \A m \in backs : ~IsBelowOrSame(k, m)}
        /\ Return("updated")
        /\ UNCHANGED <<disk, seen, initialized, readonly, parent, backs, locked, unlinked,
                       failed, stored, edits, writes>>

\* Keys that are no longer in the file stay in ks.
GetStorageKeepsRemoved ==
    LET divided == BackendsDivide(backs, BackendsMerge(backs, disk))
        dataKs  == BackendsMerge(backs, divided)
    IN  /\ pc = "getStorage" /\ FilesThere
        /\ keys' = divided
        /\ getSize' = MergedSize(backs, divided)
        /\ ks' = KsAppend(ks, dataKs)
        /\ allKeys' = KsAppend(KsCut(allKeys, parent), dataKs)
        /\ base' = [m \in Mounts |-> IF m \in backs THEN disk[m] ELSE base[m]]
        /\ edited' = {k \in edited : \A m \in backs : ~IsBelowOrSame(k, m)}
        /\ Return("updated")
        /\ UNCHANGED <<disk, seen, initialized, readonly, parent, backs, locked, unlinked,
                       failed, stored, edits, writes>>

\* Steps 10 to 18: the storage phase reads the files, whatever they hold by
\* now; the data is merged, divided again for the poststorage phase, and what
\* is below the backends that were read is replaced in ks.
GetStorage ==
    LET merged  == BackendsMerge(backs, disk)
        divided == BackendsDivide(backs, merged)
        dataKs  == BackendsMerge(backs, divided)
    IN  /\ pc = "getStorage" /\ FilesThere
        /\ keys' = divided
        /\ getSize' = MergedSize(backs, divided)
        /\ ks' = KsAppend(KsCutAll(ks, backs), dataKs)
        /\ allKeys' = KsAppend(KsCut(allKeys, parent), dataKs)
        /\ base' = [m \in Mounts |-> IF m \in backs THEN disk[m] ELSE base[m]]
        /\ edited' = {k \in edited : \A m \in backs : ~IsBelowOrSame(k, m)}
        /\ Return("updated")
        /\ UNCHANGED <<disk, seen, initialized, readonly, parent, backs, locked, unlinked,
                       failed, stored, edits, writes>>

\* Backends fail in the storage phase, in which the others are loaded, or in the
\* poststorage phase after the data of all backends was merged and divided.
GetFails ==
    /\ pc = "getStorage" /\ "get" \in Faults
    /\ \/ \E loaded \in SUBSET {m \in backs : disk[m] # Empty} :
            /\ keys' = [m \in Mounts |-> IF m \notin backs THEN keys[m]
                                         ELSE IF m \in loaded THEN disk[m] ELSE Empty]
            /\ UNCHANGED getSize
       \/ /\ FilesThere
          /\ keys' = BackendsDivide(backs, BackendsMerge(backs, disk))
          /\ getSize' = MergedSize(backs, disk)
    /\ Return("getFailed")
    /\ UNCHANGED <<disk, seen, ks, allKeys, initialized, readonly, parent, backs, locked,
                   unlinked, failed, histVars, edits, writes>>

-----------------------------------------------------------------------------
(***************************************************************************)
(* kdbSet().                                                               *)
(***************************************************************************)

ChangedInSize(all, m, b) == getSize[m] # KsGetSize(b[m])

\* Step 6: the keys of backend m differ from allKeys, nested backends aside, or
\* are not as many as kdbGet() found.
Changed(all, m, b) ==
    \/ \E k \in Keys : /\ IsBelowOrSame(k, m)
                       /\ \A n \in all \ {m} : IsBelowOrSame(n, m) => ~IsBelowOrSame(k, n)
                       /\ b[m][k] # allKeys[k]
    \/ getSize[m] # KsGetSize(b[m])

\* Steps 1 to 6.
SetBegin(p) ==
    LET all == BackendsForParentKey(p)
        b   == BackendsDivide(all, KsBelowAll(ks, all))
    IN  /\ pc = "idle"
        /\ parent' = p
        /\ stored' = {}
        /\ IF \E m \in all : ~initialized[m]
             THEN Return("setFailed") /\ UNCHANGED <<keys, backs>>
             ELSE /\ keys' = b
                  /\ backs' = {m \in all : ~readonly[m] /\ Changed(all, m, b)}
                  /\ IF backs' = {} THEN Return("unchanged")
                     ELSE pc' = "setResolver" /\ UNCHANGED ret
        /\ UNCHANGED <<disk, seen, ks, allKeys, getSize, initialized, readonly, locked,
                       unlinked, failed, base, edited, edits, writes>>

NoConflict(m) == FALSE

\* The resolver's conflict check; an empty key set is not checked.
Conflict(m) ==
    /\ keys[m] # Empty
    /\ CASE seen[m] = "missing" -> disk[m] # Empty
         [] seen[m] = "current" -> disk[m] = Empty
         [] OTHER               -> TRUE

\* Step 7a, resolveBackendsForSet: all backends are asked even if one refuses.
SetResolver ==
    /\ pc = "setResolver"
    /\ locked' = {m \in backs : m \notin ReadOnly /\ keys[m] # Empty /\ ~Conflict(m)}
    /\ pc' = IF \E m \in backs : m \in ReadOnly \/ Conflict(m) THEN "rollback" ELSE "setStorage"
    /\ UNCHANGED <<disk, seen, ks, allKeys, dataVars, parent, backs, unlinked, failed, ret,
                   histVars, edits, writes>>

\* Steps 7b to 12a.
SetStorage ==
    /\ pc = "setStorage"
    /\ getSize' = MergedSize(backs, keys)
    /\ keys' = BackendsDivide(backs, BackendsMerge(backs, keys))
    /\ failed' = FALSE
    /\ pc' = "commit"
    /\ UNCHANGED <<disk, seen, ks, allKeys, initialized, readonly, parent, backs, locked,
                   unlinked, ret, histVars, edits, writes>>

\* Every backend goes through all phases before the next one begins.
SetFailsLate ==
    /\ pc \in {"setStorage", "commit"} /\ "set" \in Faults
    /\ getSize' \in {getSize, MergedSize(backs, keys)}
    /\ pc' = "rollback"
    /\ UNCHANGED <<disk, seen, ks, allKeys, initialized, readonly, keys, parent, backs,
                   locked, unlinked, failed, ret, histVars, edits, writes>>

\* A backend fails in the prestorage phase, or later on when the sizes of the
\* backends have been noted already.
SetFails ==
    /\ pc = "setStorage" /\ "set" \in Faults
    /\ getSize' \in {getSize, MergedSize(backs, keys)}
    /\ pc' = "rollback"
    /\ UNCHANGED <<disk, seen, ks, allKeys, initialized, readonly, keys, parent, backs,
                   locked, unlinked, failed, ret, histVars, edits, writes>>

\* Step 12b: backend m commits its keys, in any order of the backends.  An
\* empty key set removes the file, and the resolver remembers what it did.
Commit(m) ==
    /\ pc = "commit" /\ m \in backs \ stored
    /\ disk' = [disk EXCEPT ![m] = keys[m]]
    /\ seen' = [seen EXCEPT ![m] = IF keys[m] = Empty THEN @ ELSE "current"]
    /\ locked' = locked \ {m} /\ unlinked' = unlinked \ {m}
    /\ base' = [base EXCEPT ![m] = keys[m]]
    /\ edited' = {k \in edited : ~Contains(backs, m, k)}
    /\ stored' = stored \union {m}
    /\ UNCHANGED <<ks, allKeys, dataVars, pc, parent, backs, failed, ret, edits, writes>>

\* The commit of backend m fails; the others still get their turn.  The resolver
\* touches the old file, or the placeholder, all the same and so still takes it for
\* the current one; but it has forgotten that it found no file.
CommitFails(m) ==
    /\ pc = "commit" /\ m \in backs \ stored /\ "commit" \in Faults
    /\ locked' = locked \ {m} /\ unlinked' = unlinked \ {m}
    /\ seen' = [seen EXCEPT ![m] = IF m \in unlinked THEN "old" ELSE @]
    /\ backs' = backs \ {m}
    /\ failed' = TRUE
    /\ UNCHANGED <<disk, ks, allKeys, dataVars, pc, parent, ret, histVars, edits, writes>>

\* All backends had their turn.  After a success allKeys takes the whole ks,
\* the keys that are not below the parent key included.
SetEnd ==
    /\ pc = "commit" /\ backs \subseteq stored
    /\ \/ /\ ~failed
          /\ allKeys' = KsAppend(KsCut(allKeys, parent), ks)
          /\ Return("stored")
       \/ /\ failed
          /\ pc' = "rollback"
          /\ UNCHANGED <<allKeys, ret>>
    /\ UNCHANGED <<disk, seen, ks, dataVars, parent, backs, locked, unlinked, failed,
                   histVars, edits, writes>>

RollbackKeepsLocks ==
    /\ pc = "rollback"
    /\ Return("setFailed")
    /\ UNCHANGED <<disk, seen, ks, allKeys, dataVars, parent, backs, locked, unlinked,
                   failed, histVars, edits, writes>>

\* Steps E1 to E3.  A file that the resolver has created itself is unlinked by name,
\* whatever the name refers to by now.
Rollback ==
    /\ pc = "rollback"
    /\ disk' = [m \in Mounts |-> IF m \in locked /\ seen[m] = "missing" THEN Empty ELSE disk[m]]
    /\ locked' = {} /\ unlinked' = {}
    /\ Return("setFailed")
    /\ UNCHANGED <<seen, ks, allKeys, dataVars, parent, backs, failed, histVars, edits,
                   writes>>

-----------------------------------------------------------------------------
\* The calls under way, until they return.
Continue ==
    \/ GetStorage \/ GetFails
    \/ SetResolver \/ SetStorage \/ SetFails \/ SetEnd \/ Rollback
    \/ \E m \in Mounts : Commit(m) \/ CommitFails(m)

Next ==
    \/ \E k \in Keys, v \in Values \union {Absent} : Edit(k, v)
    \/ \E m \in Mounts, s \in KeySets : Write(m, s)
    \/ \E p \in Parents : GetResolver(p) \/ SetBegin(p)
    \/ Continue

\* kdbGet() and kdbSet() are sequential code that runs to its end.
Spec == Init /\ [][Next]_vars /\ WF_vars(Continue)

-----------------------------------------------------------------------------
(***************************************************************************)
(* Properties.                                                             *)
(***************************************************************************)

\* kdbSet() that succeeds has persisted all keys below the parent key: they are
\* what the handle last loaded from or stored in the file of their backend.
SetPersists ==
    pc = "idle" /\ ret \in {"stored", "unchanged"} =>
        \A k \in Keys : IsBelowOrSame(k, parent) /\ Home(k) \notin ReadOnly =>
            ks[k] = base[Home(k)][k]

\* kdbSet() stores nothing but the application's changes of ks: every other key
\* of the file is stored as it was loaded or stored before.
OnlyEditsStored ==
    [][stored' \ stored # {} =>
         \A k \in Keys : base'[Home(k)][k] # base[Home(k)][k] => k \in edited]_vars

\* The file of backend m is the one the resolver saw last.
UpToDate(m) == IF disk[m] = Empty THEN seen[m] = "missing" ELSE seen[m] = "current"

\* After kdbGet(), ks represents the files below the parent key that nobody has
\* written since, but for the application's own changes that were not overwritten.
\* A file that is missing changes nothing: the keys the handle last loaded from it
\* or stored in it stay in ks, also when another application has removed it.
GetShowsFiles ==
    pc = "idle" /\ ret \in {"updated", "noUpdate"} =>
        \A k \in Keys :
            IsBelowOrSame(k, parent) /\ UpToDate(Home(k)) /\ k \notin edited =>
                LET m == Home(k)
                IN  ks[k] = IF disk[m] # Empty THEN disk[m][k] ELSE base[m][k]

\* kdbSet() that fails has replaced no file; or the commit of one backend failed
\* when others were committed, which then hold all that the application had for
\* them, and the handle knows it.
FailedSetAccounted ==
    pc = "idle" /\ ret = "setFailed" /\ stored # {} =>
        /\ failed
        /\ \A k \in Keys : Home(k) \in stored => base[Home(k)][k] = ks[k]

\* A file only holds keys of its own backend.
KeysAtHome ==
    \A m \in Mounts, k \in Keys : disk[m][k] # Absent => m = Home(k)

\* No update is lost: a file that kdbSet() is about to replace holds what the
\* handle loaded from it or stored in it last, or is not there; unless another
\* application has removed it when it was locked already.
NoLostUpdate ==
    pc \in {"setStorage", "commit"} =>
        \A m \in backs \ (stored \union unlinked) :
            keys[m] # Empty => disk[m] \in {base[m], Empty}

\* Every way out of kdbSet() unlocks the files.
LocksReleased == pc \in {"idle", "getStorage"} => locked = {}

\* The file of a backend without a resolver for kdbSet() is never replaced.
ReadOnlyNeverStored == stored \cap ReadOnly = {}
=============================================================================
