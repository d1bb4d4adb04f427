----------------------------- MODULE KdbProofs ------------------------------
(***************************************************************************)
(* Proofs about kdbGet() and kdbSet(), for any mountpoints, keys, values   *)
(* and parent keys.                                                        *)
(***************************************************************************)
EXTENDS KdbInv, TLAPS, FiniteSetTheorems, WellFoundedInduction

\* Names.

LEMMA BelowAntisymmetric ==
    ASSUME NEW m \in Seq(STRING), NEW n \in Seq(STRING),
           IsBelowOrSame(m, n), IsBelowOrSame(n, m)
    PROVE  m = n
BY DEF IsBelowOrSame

\* Two names above the same key are nested, the longer one in the shorter one.
LEMMA PrefixesNested ==
    ASSUME NEW k \in Seq(STRING), NEW m \in Seq(STRING), NEW n \in Seq(STRING),
           IsBelowOrSame(k, m), IsBelowOrSame(k, n), Len(n) <= Len(m)
    PROVE  IsBelowOrSame(m, n)
<1>1. m = SubSeq(k, 1, Len(m)) /\ n = SubSeq(k, 1, Len(n)) /\ Len(m) <= Len(k)
  BY DEF IsBelowOrSame
<1>2. Len(SubSeq(m, 1, Len(n))) = Len(n)
  OBVIOUS
<1>3. ASSUME NEW i \in 1 .. Len(n) PROVE SubSeq(m, 1, Len(n))[i] = n[i]
  BY <1>1
<1>4. SubSeq(m, 1, Len(n)) = n
  BY <1>2, <1>3
<1>5. QED
  BY <1>4 DEF IsBelowOrSame

\* A non-empty set of numbers has a least one.
LEMMA LeastNumber ==
    ASSUME NEW S, S \subseteq Nat, S # {}
    PROVE  \E x \in S : \A y \in S : x <= y
<1> DEFINE less == {p \in Nat \X Nat : p[1] < p[2]}
<1>1. IsWellFoundedOn(less, Nat)
  BY NatLessThanWellFounded DEF OpToRel
<1> HIDE DEF less
<1>2. PICK x \in S : \A y \in S : ~(<<y, x>> \in less)
  BY <1>1, WFMin
<1>3. ASSUME NEW y \in S PROVE x <= y
  <2>1. x \in Nat /\ y \in Nat /\ ~(<<y, x>> \in less)
    BY <1>2
  <2>2. y < x => <<y, x>> \in less
    BY <2>1 DEF less
  <2>3. QED
    BY <2>1, <2>2
<1>4. QED
  BY <1>3

\* Of backends above the same key one is the deepest.
LEMMA DeepestExists ==
    ASSUME NEW k \in Keys, NEW hs \in SUBSET Mounts, hs # {},
           \A m \in hs : IsBelowOrSame(k, m)
    PROVE  \E m \in hs : \A n \in hs : IsBelowOrSame(m, n)
<1> DEFINE gaps == {Len(k) - Len(m) : m \in hs}
<1>1. gaps \subseteq Nat /\ gaps # {}
  BY MountsAssumption DEF IsBelowOrSame
<1> HIDE DEF gaps
<1>2. PICK g \in gaps : \A h \in gaps : g <= h
  BY <1>1, LeastNumber
<1>3. PICK m \in hs : g = Len(k) - Len(m)
  BY <1>2 DEF gaps
<1>4. ASSUME NEW n \in hs PROVE Len(n) <= Len(m)
  <2>1. Len(k) - Len(n) \in gaps
    BY DEF gaps
  <2>2. Len(k) \in Nat /\ Len(m) \in Nat /\ Len(n) \in Nat
    BY MountsAssumption
  <2>3. QED
    BY <1>2, <1>3, <2>1, <2>2
<1>5. QED
  BY <1>4, PrefixesNested, MountsAssumption

\* Every key has a backend, and it is above the key.
LEMMA HomeAbove ==
    ASSUME NEW k \in Keys
    PROVE  Home(k) \in Mounts /\ IsBelowOrSame(k, Home(k))
BY MountsAssumption DEF Home, Contains

\* Of the backends above a key only the deepest contains it.
LEMMA ContainsUnique ==
    ASSUME NEW bs \in SUBSET Mounts, NEW k, NEW m, NEW n, Contains(bs, m, k), Contains(bs, n, k)
    PROVE  m = n
<1>1. m \in Seq(STRING) /\ n \in Seq(STRING)
  BY MountsAssumption DEF Contains
<1>2. IsBelowOrSame(m, n) /\ IsBelowOrSame(n, m)
  BY DEF Contains
<1>3. QED
  BY <1>1, <1>2, BelowAntisymmetric

-----------------------------------------------------------------------------
\* Key sets.

LEMMA SizeType ==
    ASSUME NEW s \in KeySets
    PROVE  KsGetSize(s) \in Nat
<1>1. IsFiniteSet({k \in Keys : s[k] # Absent})
  BY MountsAssumption, FS_Subset
<1>2. QED
  BY <1>1, FS_CardinalityType DEF KsGetSize

LEMMA SizesType ==
    ASSUME NEW bs, NEW b \in [Mounts -> KeySets], getSize \in [Mounts -> Nat]
    PROVE  MergedSize(bs, b) \in [Mounts -> Nat]
BY SizeType DEF MergedSize

LEMMA EmptyType == Empty \in KeySets
BY DEF Empty, KeySets

\* A key set that is not empty holds a key.
LEMMA NonemptyHolds ==
    ASSUME NEW s \in KeySets, s # Empty
    PROVE  \E k \in Keys : s[k] # Absent
BY DEF Empty, KeySets

\* Operators on key sets yield key sets.
LEMMA KeySetType ==
    ASSUME NEW s \in KeySets, NEW t \in KeySets, NEW n, NEW ns
    PROVE  /\ KsCut(s, n) \in KeySets /\ KsAppend(s, t) \in KeySets
           /\ KsCutAll(s, ns) \in KeySets /\ KsBelowAll(s, ns) \in KeySets
BY DEF KeySets, KsCut, KsAppend, KsCutAll, KsBelowAll

LEMMA DivideType ==
    ASSUME NEW s \in KeySets, NEW bs, keys \in [Mounts -> KeySets]
    PROVE  BackendsDivide(bs, s) \in [Mounts -> KeySets]
BY DEF KeySets, BackendsDivide

\* What a backend holds is at or below its mountpoint.
Placed(b) == \A m \in Mounts, k \in Keys : b[m][k] # Absent => IsBelowOrSame(k, m)

\* backendsDivide puts keys only below their mountpoint.
LEMMA DividePlaced ==
    ASSUME NEW s, NEW bs, Placed(keys)
    PROVE  Placed(BackendsDivide(bs, s))
BY DEF Placed, BackendsDivide, Contains

\* A merged key comes from a backend that holds it, and none is left out.
LEMMA MergeHolder ==
    ASSUME NEW bs \in SUBSET Mounts, NEW b, Placed(b), NEW k \in Keys
    PROVE  BackendsMerge(bs, b)[k] = Absent \/ \E m \in bs : /\ b[m][k] # Absent
                                                             /\ BackendsMerge(bs, b)[k] = b[m][k]
<1> DEFINE holders == {m \in bs : b[m][k] # Absent}
           deepest == CHOOSE m \in holders : \A n \in holders : IsBelowOrSame(m, n)
<1>1. CASE holders = {}
  BY <1>1 DEF BackendsMerge
<1>2. CASE holders # {}
  <2>1. \A m \in holders : IsBelowOrSame(k, m)
    BY DEF Placed
  <2>2. holders \in SUBSET Mounts
    OBVIOUS
  <2>3. deepest \in holders
    <3> HIDE DEF holders
    <3> QED
      BY <1>2, <2>1, <2>2, DeepestExists
  <2>4. BackendsMerge(bs, b)[k] = b[deepest][k]
    BY <1>2 DEF BackendsMerge
  <2> HIDE DEF deepest
  <2>5. QED
    BY <2>3, <2>4
<1>3. QED
  BY <1>1, <1>2

LEMMA MergeType ==
    ASSUME NEW bs \in SUBSET Mounts, NEW b \in [Mounts -> KeySets], Placed(b)
    PROVE  BackendsMerge(bs, b) \in KeySets
<1>1. ASSUME NEW k \in Keys PROVE BackendsMerge(bs, b)[k] \in Values \union {Absent}
  BY MergeHolder DEF KeySets
<1>2. BackendsMerge(bs, b) = [k \in Keys |-> BackendsMerge(bs, b)[k]]
  BY DEF BackendsMerge
<1>3. QED
  BY <1>1, <1>2 DEF KeySets

-----------------------------------------------------------------------------
(***************************************************************************)
(* What holds whatever fails.                                              *)
(***************************************************************************)

LEMMA PlacementInit == Init => PlacementInvariant
<1> SUFFICES ASSUME Init PROVE PlacementInvariant
  OBVIOUS
<1>1. TypeOK
  <2>1. initialized \in [Mounts -> BOOLEAN] /\ readonly \in [Mounts -> BOOLEAN]
    BY Zenon DEF Init
  <2>2. /\ disk \in [Mounts -> KeySets] /\ ks \in KeySets /\ allKeys \in KeySets
        /\ keys \in [Mounts -> KeySets] /\ base \in [Mounts -> KeySets]
    BY EmptyType DEF Init
  <2>3. /\ seen \in [Mounts -> {"nothing", "missing", "current", "old"}]
        /\ getSize \in [Mounts -> Nat]
    BY DEF Init
  <2>4. edits \in 0 .. MaxEdits /\ writes \in 0 .. MaxWrites
    BY KdbBoundsAssumption DEF Init
  <2>5. failed \in BOOLEAN
    BY DEF Init
  <2>6. QED
    BY <2>1, <2>2, <2>3, <2>4, <2>5 DEF Init, TypeOK
<1>2. KeysPlaced
  <2>1. ASSUME NEW m \in Mounts, NEW k \in Keys,
               disk[m][k] # Absent \/ keys[m][k] # Absent
        PROVE  IsBelowOrSame(k, m)
    BY <2>1, HomeAbove DEF Init, Empty
  <2>2. QED
    BY <2>1 DEF KeysPlaced
<1>3. QED
  BY <1>1, <1>2 DEF Init, PlacementInvariant, LockedTakePart, ReadOnlyRefused,
                    ReadOnlyNeverStored

\* The two halves of KeysPlaced.
LEMMA PlacedParts == KeysPlaced <=> Placed(disk) /\ Placed(keys)
BY DEF KeysPlaced, Placed

\* What kdbGet() loads is well typed and placed.
LEMMA GetLoads ==
    ASSUME TypeOK, KeysPlaced
    PROVE  LET merged  == BackendsMerge(backs, disk)
               divided == BackendsDivide(backs, merged)
           IN  /\ merged \in KeySets
               /\ divided \in [Mounts -> KeySets] /\ Placed(divided)
               /\ BackendsMerge(backs, divided) \in KeySets
<1> DEFINE merged  == BackendsMerge(backs, disk)
           divided == BackendsDivide(backs, merged)
<1>1. /\ backs \in SUBSET Mounts /\ disk \in [Mounts -> KeySets]
      /\ keys \in [Mounts -> KeySets] /\ Placed(disk) /\ Placed(keys)
  BY PlacedParts DEF TypeOK
<1>2. merged \in KeySets
  BY <1>1, MergeType
<1> HIDE DEF merged
<1>3. divided \in [Mounts -> KeySets] /\ Placed(divided)
  BY <1>1, <1>2, DivideType, DividePlaced
<1> HIDE DEF divided
<1>4. BackendsMerge(backs, divided) \in KeySets
  BY <1>1, <1>3, MergeType
<1>5. QED
  BY <1>2, <1>3, <1>4 DEF merged, divided

\* What kdbSet() divides again after the prestorage phase is, too.
LEMMA SetDivides ==
    ASSUME TypeOK, KeysPlaced
    PROVE  LET divided == BackendsDivide(backs, BackendsMerge(backs, keys))
           IN  divided \in [Mounts -> KeySets] /\ Placed(divided)
<1>1. backs \in SUBSET Mounts /\ keys \in [Mounts -> KeySets] /\ Placed(keys)
  BY PlacedParts DEF TypeOK
<1>2. BackendsMerge(backs, keys) \in KeySets
  BY <1>1, MergeType
<1>3. QED
  BY <1>1, <1>2, DivideType, DividePlaced

LEMMA TypeStep ==
    ASSUME TypeOK, KeysPlaced, Next
    PROVE  TypeOK'
<1> USE DEF TypeOK
<1>1. ASSUME NEW k \in Keys, NEW v \in Values \union {Absent}, Edit(k, v) PROVE TypeOK'
  BY <1>1, KdbBoundsAssumption DEF Edit, dataVars, KeySets
<1>2. ASSUME NEW m \in Mounts, NEW s \in KeySets, Write(m, s) PROVE TypeOK'
  BY <1>2, KdbBoundsAssumption DEF Write, dataVars, histVars
<1>3. ASSUME NEW p \in Parents, GetResolver(p) PROVE TypeOK'
  BY <1>3 DEF GetResolver, InitBackends, ResolveBackendsForGet, Return,
              BackendsForParentKey, histVars
<1>4. ASSUME NEW p \in Parents, SetBegin(p) PROVE TypeOK'
  <2> DEFINE all == BackendsForParentKey(p)
             b   == BackendsDivide(all, KsBelowAll(ks, all))
  <2>1. b \in [Mounts -> KeySets] /\ all \subseteq Mounts
    BY DivideType, KeySetType DEF BackendsForParentKey
  <2>2. keys' \in {keys, b} /\ (backs' = backs \/ backs' \subseteq all)
    BY <1>4 DEF SetBegin
  <2>3. /\ parent' = p /\ stored' = {} /\ pc' \in {"idle", "setResolver"}
        /\ ret' \in {"setFailed", "unchanged", ret}
        /\ UNCHANGED <<disk, seen, ks, allKeys, getSize, initialized, readonly, locked, unlinked,
                       failed, base, edited, edits, writes>>
    BY <1>4 DEF SetBegin, Return
  <2> HIDE DEF all, b
  <2>4. QED
    BY <2>1, <2>2, <2>3
<1>5. CASE GetStorage
  <2> DEFINE divided == BackendsDivide(backs, BackendsMerge(backs, disk))
             dataKs  == BackendsMerge(backs, divided)
  <2>1. divided \in [Mounts -> KeySets] /\ dataKs \in KeySets
    BY GetLoads
  <2>2. /\ keys' = divided /\ getSize' = MergedSize(backs, divided)
        /\ ks' = KsAppend(KsCutAll(ks, backs), dataKs)
        /\ allKeys' = KsAppend(KsCut(allKeys, parent), dataKs)
        /\ base' = [m \in Mounts |-> IF m \in backs THEN disk[m] ELSE base[m]]
        /\ edited' \subseteq edited /\ pc' = "idle" /\ ret' = "updated"
        /\ UNCHANGED <<disk, seen, initialized, readonly, parent, backs, locked, unlinked,
                       failed, stored, edits, writes>>
    BY <1>5 DEF GetStorage, Return
  <2> HIDE DEF divided, dataKs
  <2>3. getSize' \in [Mounts -> Nat]
    BY <2>1, <2>2, SizesType
  <2>4. ks' \in KeySets /\ allKeys' \in KeySets
    BY <2>1, <2>2, KeySetType
  <2>5. base' \in [Mounts -> KeySets]
    BY <2>2
  <2>6. QED
    BY <2>1, <2>2, <2>3, <2>4, <2>5
<1>6. CASE GetFails
  <2>1. keys' \in [Mounts -> KeySets]
    BY <1>6, GetLoads, EmptyType DEF GetFails
  <2>2. getSize' \in [Mounts -> Nat]
    BY <1>6, SizesType DEF GetFails
  <2>3. QED
    BY <1>6, <2>1, <2>2 DEF GetFails, Return, histVars
<1>7. CASE SetResolver
  BY <1>7 DEF SetResolver, dataVars, histVars
<1>8. CASE SetStorage
  <2>1. keys' \in [Mounts -> KeySets]
    BY <1>8, SetDivides DEF SetStorage
  <2>2. getSize' \in [Mounts -> Nat]
    BY <1>8, SizesType DEF SetStorage
  <2>3. QED
    BY <1>8, <2>1, <2>2 DEF SetStorage, histVars
<1>9. CASE SetFails
  <2>1. getSize' \in [Mounts -> Nat]
    BY <1>9, SizesType DEF SetFails
  <2>2. QED
    BY <1>9, <2>1 DEF SetFails, histVars
<1>10. CASE SetEnd
  <2>1. allKeys' \in KeySets
    <3>1. KsCut(allKeys, parent) \in KeySets
      BY KeySetType
    <3>2. KsAppend(KsCut(allKeys, parent), ks) \in KeySets
      BY <3>1, KeySetType
    <3>3. QED
      BY <1>10, <3>2 DEF SetEnd
  <2>2. QED
    BY <1>10, <2>1 DEF SetEnd, Return, dataVars, histVars
<1>11. CASE Rollback
  <2>1. disk' \in [Mounts -> KeySets]
    BY <1>11, EmptyType DEF Rollback
  <2>2. QED
    BY <1>11, <2>1 DEF Rollback, Return, dataVars, histVars
<1>12. ASSUME NEW m \in Mounts, Commit(m) PROVE TypeOK'
  BY <1>12 DEF Commit, dataVars
<1>13. ASSUME NEW m \in Mounts, CommitFails(m) PROVE TypeOK'
  BY <1>13 DEF CommitFails, dataVars, histVars
<1>14. QED
  BY <1>1, <1>2, <1>3, <1>4, <1>5, <1>6, <1>7, <1>8, <1>9, <1>10, <1>11, <1>12, <1>13
  DEF Next, Continue

LEMMA PlacementStep ==
    ASSUME PlacementInvariant, [Next]_vars
    PROVE  PlacementInvariant'
<1> USE DEF PlacementInvariant
<1>1. CASE UNCHANGED vars
  BY <1>1 DEF vars, dataVars, histVars, TypeOK, KeysPlaced, LockedTakePart, ReadOnlyRefused,
              ReadOnlyNeverStored
<1>2. CASE Next
  <2>1. TypeOK'
    BY <1>2, TypeStep
  <2>2. KeysPlaced'
    <3>1. Placed(disk) /\ Placed(keys)
      BY PlacedParts
    <3>2. Placed(disk')
      <4>1. ASSUME NEW m \in Mounts, NEW s \in KeySets, Write(m, s) PROVE Placed(disk')
        <5>1. disk' = [disk EXCEPT ![m] = s] /\ disk \in [Mounts -> KeySets]
          BY <4>1 DEF Write, TypeOK
        <5>2. \A k \in Keys : s[k] # Absent => IsBelowOrSame(k, m)
          BY <4>1, HomeAbove DEF Write
        <5>3. QED
          BY <3>1, <5>1, <5>2 DEF Placed
      <4>2. ASSUME NEW m \in Mounts, Commit(m) PROVE Placed(disk')
        <5>1. disk' = [disk EXCEPT ![m] = keys[m]] /\ disk \in [Mounts -> KeySets]
          BY <4>2 DEF Commit, TypeOK
        <5>2. QED
          BY <3>1, <5>1 DEF Placed
      <4>3. CASE Rollback
        BY <3>1, <4>3 DEF Rollback, Placed, Empty
      <4>4. CASE UNCHANGED disk
        BY <3>1, <4>4
      <4>5. QED
        BY <1>2, <4>1, <4>2, <4>3, <4>4
        DEF Next, Continue, Edit, GetResolver, GetStorage, GetFails, SetBegin, SetResolver,
            SetStorage, SetFails, CommitFails, SetEnd
    <3>3. Placed(keys')
      <4>1. ASSUME NEW p \in Parents, SetBegin(p) PROVE Placed(keys')
        BY <3>1, <4>1, DividePlaced DEF SetBegin
      <4>2. CASE GetStorage
        BY <4>2, GetLoads DEF GetStorage
      <4>3. CASE GetFails
        <5>1. ASSUME NEW loaded \in SUBSET backs,
                     keys' = [m \in Mounts |-> IF m \notin backs THEN keys[m]
                                               ELSE IF m \in loaded THEN disk[m] ELSE Empty]
              PROVE  Placed(keys')
          BY <3>1, <5>1 DEF Placed, Empty
        <5>2. CASE keys' = BackendsDivide(backs, BackendsMerge(backs, disk))
          BY <5>2, GetLoads
        <5>3. QED
          BY <4>3, <5>1, <5>2 DEF GetFails
      <4>4. CASE SetStorage
        BY <4>4, SetDivides DEF SetStorage
      <4>5. CASE UNCHANGED keys
        BY <3>1, <4>5
      <4>6. QED
        BY <1>2, <4>1, <4>2, <4>3, <4>4, <4>5
        DEF Next, Continue, Edit, Write, GetResolver, SetResolver, SetFails, Commit,
            CommitFails, SetEnd, Rollback, dataVars
    <3>4. QED
      BY <3>2, <3>3 DEF Placed, KeysPlaced
  <2>3. LockedTakePart'
    BY <1>2 DEF Next, Continue, Edit, Write, GetResolver, GetStorage, GetFails, SetBegin,
        SetResolver, SetStorage, SetFails, Commit, CommitFails, SetEnd, Rollback, Return,
        dataVars, histVars, LockedTakePart, TypeOK
  <2>4. ReadOnlyRefused'
    BY <1>2 DEF Next, Continue, Edit, Write, GetResolver, GetStorage, GetFails, SetBegin,
        SetResolver, SetStorage, SetFails, Commit, CommitFails, SetEnd, Rollback, Return,
        dataVars, histVars, ReadOnlyRefused
  <2>5. ReadOnlyNeverStored'
    BY <1>2 DEF Next, Continue, Edit, Write, GetResolver, GetStorage, GetFails, SetBegin,
        SetResolver, SetStorage, SetFails, Commit, CommitFails, SetEnd, Rollback, Return,
        dataVars, histVars, ReadOnlyRefused, ReadOnlyNeverStored
  <2>6. QED
    BY <2>1, <2>2, <2>3, <2>4, <2>5
<1>3. QED
  BY <1>1, <1>2

\* kdbGet() and kdbSet() keep their data well typed.
THEOREM KdbTypeCorrect == Spec => []TypeOK
<1>1. PlacementInvariant => TypeOK
  BY DEF PlacementInvariant
<1>2. QED
  BY <1>1, PlacementInit, PlacementStep, PTL DEF Spec

\* Outside of kdbSet() no file is locked: every way out of kdbSet() unlocks.
THEOREM CallsUnlock == Spec => []LocksReleased
<1>1. PlacementInvariant => LocksReleased
  BY DEF PlacementInvariant, LockedTakePart, LocksReleased
<1>2. QED
  BY <1>1, PlacementInit, PlacementStep, PTL DEF Spec

\* The file of a backend without a resolver for kdbSet() is never replaced.
THEOREM ReadOnlyKept == Spec => []ReadOnlyNeverStored
<1>1. PlacementInvariant => ReadOnlyNeverStored
  BY DEF PlacementInvariant
<1>2. QED
  BY <1>1, PlacementInit, PlacementStep, PTL DEF Spec

-----------------------------------------------------------------------------
(***************************************************************************)
(* No update is lost, if loading a backend does not fail.                  *)
(***************************************************************************)

LEMMA UpdateInit == Init => UpdateInvariant
BY DEF Init, UpdateInvariant, KeysDivided, CurrentLoaded, ReplacedLocked,
       NoLostUpdate

\* backendsDivide after backendsMerge gives no backend a first key.
LEMMA DivideKeepsEmpty ==
    ASSUME TypeOK, KeysPlaced, KeysDivided, pc = "setStorage", NEW m \in backs,
           BackendsDivide(backs, BackendsMerge(backs, keys))[m] # Empty
    PROVE  keys[m] # Empty
<1> DEFINE merged == BackendsMerge(backs, keys)
<1>1. backs \in SUBSET Mounts /\ m \in Mounts /\ Placed(keys)
  BY PlacedParts DEF TypeOK
<1>2. BackendsDivide(backs, merged)[m] \in KeySets
  BY <1>1, SetDivides
<1>3. PICK k \in Keys : BackendsDivide(backs, merged)[m][k] # Absent
  BY <1>2, NonemptyHolds
<1>4. Contains(backs, m, k) /\ merged[k] # Absent
  BY <1>1, <1>3 DEF BackendsDivide
<1>5. PICK n \in backs : keys[n][k] # Absent
  BY <1>1, <1>4, MergeHolder
<1>6. Contains(backs, n, k)
  BY <1>5 DEF KeysDivided
<1>7. m = n
  BY <1>1, <1>4, <1>6, ContainsUnique
<1>8. QED
  BY <1>5, <1>7 DEF Empty

LEMMA UpdateStep ==
    ASSUME "get" \notin Faults, PlacementInvariant, UpdateInvariant, [Next]_vars
    PROVE  UpdateInvariant'
<1>0. /\ TypeOK /\ KeysPlaced /\ KeysDivided /\ CurrentLoaded
      /\ ReplacedLocked /\ NoLostUpdate
  BY DEF PlacementInvariant, UpdateInvariant
<1> USE DEF UpdateInvariant, KeysDivided, CurrentLoaded, ReplacedLocked,
            NoLostUpdate
<1>1. CASE UNCHANGED vars
  BY <1>0, <1>1 DEF vars, dataVars, histVars
<1>2. ASSUME NEW k \in Keys, NEW v \in Values \union {Absent}, Edit(k, v)
      PROVE  UpdateInvariant'
  BY <1>0, <1>2 DEF Edit, dataVars
<1>3. ASSUME NEW m \in Mounts, NEW s \in KeySets, Write(m, s) PROVE UpdateInvariant'
  BY <1>0, <1>3 DEF Write, dataVars, histVars, TypeOK
<1>4. ASSUME NEW p \in Parents, GetResolver(p) PROVE UpdateInvariant'
  BY <1>0, <1>4 DEF GetResolver, ResolveBackendsForGet, Return, NeedsUpdate, histVars, TypeOK
<1>5. ASSUME NEW p \in Parents, SetBegin(p) PROVE UpdateInvariant'
  <2>1. pc = "idle" /\ pc' \in {"idle", "setResolver"} /\ UNCHANGED <<disk, seen, base>>
    BY <1>5 DEF SetBegin, Return
  <2>2. KeysDivided'
    <3> DEFINE all == BackendsForParentKey(p)
               b   == BackendsDivide(all, KsBelowAll(ks, all))
    <3>1. CASE pc' = "setResolver"
      <4>1. keys' = b /\ backs' \subseteq all /\ all \subseteq Mounts
        BY <1>5, <3>1 DEF SetBegin, Return, BackendsForParentKey
      <4>2. ASSUME NEW m \in backs', NEW k \in Keys, keys'[m][k] # Absent
            PROVE  Contains(all, m, k)
        BY <4>1, <4>2 DEF BackendsDivide
      <4> HIDE DEF all
      <4>3. QED
        BY <4>1, <4>2 DEF Contains
    <3>2. CASE pc' = "idle"
      BY <3>2
    <3>3. QED
      BY <2>1, <3>1, <3>2
  <2>3. QED
    BY <1>0, <2>1, <2>2
<1>6. CASE GetStorage
  BY <1>0, <1>6 DEF GetStorage, Return, TypeOK
<1>7. CASE GetFails
  BY <1>7 DEF GetFails
<1>8. CASE SetResolver
  BY <1>0, <1>8 DEF SetResolver, Conflict, dataVars, histVars, TypeOK
<1>9. CASE SetStorage
  <2>1. /\ pc = "setStorage" /\ pc' = "commit"
        /\ keys' = BackendsDivide(backs, BackendsMerge(backs, keys))
        /\ UNCHANGED <<disk, seen, backs, locked, unlinked, base, stored>>
    BY <1>9 DEF SetStorage, histVars
  <2>2. \A m \in backs : keys'[m] # Empty => keys[m] # Empty
    BY <1>0, <2>1, DivideKeepsEmpty
  <2>3. QED
    BY <1>0, <2>1, <2>2
<1>10. CASE SetFails
  BY <1>0, <1>10 DEF SetFails, histVars
<1>11. CASE SetEnd
  BY <1>0, <1>11 DEF SetEnd, Return, histVars
<1>12. CASE Rollback
  BY <1>0, <1>12 DEF Rollback, Return, histVars
<1>13. ASSUME NEW m \in Mounts, Commit(m) PROVE UpdateInvariant'
  BY <1>0, <1>13 DEF Commit, dataVars, TypeOK
<1>14. ASSUME NEW m \in Mounts, CommitFails(m) PROVE UpdateInvariant'
  BY <1>0, <1>14 DEF CommitFails, dataVars, histVars, TypeOK
<1>15. QED
  BY <1>1, <1>2, <1>3, <1>4, <1>5, <1>6, <1>7, <1>8, <1>9, <1>10, <1>11, <1>12, <1>13, <1>14
  DEF Next, Continue

\* If loading a backend never fails, kdbSet() replaces no file that holds an
\* update of another application that the handle has not loaded, unless the file it
\* had locked was removed under its hands.
THEOREM KdbLosesNoUpdate ==
    ASSUME "get" \notin Faults
    PROVE  Spec => []NoLostUpdate
<1>1. UpdateInvariant => NoLostUpdate
  BY DEF UpdateInvariant
<1>2. PlacementInvariant /\ UpdateInvariant /\ [Next]_vars
      => PlacementInvariant' /\ UpdateInvariant'
  BY PlacementStep, UpdateStep
<1>3. QED
  BY <1>1, <1>2, PlacementInit, UpdateInit, PTL DEF Spec

-----------------------------------------------------------------------------
(***************************************************************************)
(* Files hold the keys of their own backend only.                          *)
(***************************************************************************)

LEMMA HomeContains ==
    ASSUME NEW k \in Keys
    PROVE  Contains(Mounts, Home(k), k)
BY MountsAssumption DEF Home

\* The backend of a key contains it whichever others take part.
LEMMA HomeTakesPart ==
    ASSUME NEW k \in Keys, NEW bs \in SUBSET Mounts, Home(k) \in bs, NEW m
    PROVE  Contains(bs, m, k) <=> m = Home(k)
<1>1. Contains(bs, Home(k), k)
  BY HomeContains DEF Contains
<1>2. QED
  BY <1>1, ContainsUnique

\* The backends of bs hold only keys of their own.
AtHome(bs, b) == \A m \in bs, k \in Keys : b[m][k] # Absent => Home(k) = m

\* Merging what is divided properly takes every key from its backend, ...
LEMMA MergeAtHome ==
    ASSUME NEW bs \in SUBSET Mounts, NEW b, AtHome(bs, b), NEW k \in Keys
    PROVE  BackendsMerge(bs, b)[k] = IF Home(k) \in bs THEN b[Home(k)][k] ELSE Absent
<1> DEFINE holders == {m \in bs : b[m][k] # Absent}
           deepest == CHOOSE m \in holders : \A n \in holders : IsBelowOrSame(m, n)
<1>1. holders \subseteq {Home(k)}
  BY DEF AtHome
<1>2. CASE holders = {}
  BY <1>2 DEF BackendsMerge
<1>3. CASE holders # {}
  <2>1. Home(k) \in bs /\ holders = {Home(k)}
    BY <1>1, <1>3
  <2>2. IsBelowOrSame(Home(k), Home(k))
    BY HomeContains DEF Contains
  <2>3. deepest \in holders
    <3> HIDE DEF holders
    <3> QED
      BY <2>1, <2>2
  <2>4. BackendsMerge(bs, b)[k] = b[deepest][k]
    BY <1>3 DEF BackendsMerge
  <2>5. QED
    BY <2>1, <2>3, <2>4
<1>4. QED
  BY <1>2, <1>3

\* ... and dividing it again gives every backend what it had.
LEMMA DivideAgain ==
    ASSUME NEW bs \in SUBSET Mounts, NEW b \in [Mounts -> KeySets], AtHome(bs, b), NEW m \in bs
    PROVE  BackendsDivide(bs, BackendsMerge(bs, b))[m] = b[m]
<1> DEFINE merged  == BackendsMerge(bs, b)
           divided == [k \in Keys |-> IF Contains(bs, m, k) THEN merged[k] ELSE Absent]
<1>1. BackendsDivide(bs, merged)[m] = divided
  BY DEF BackendsDivide
<1>2. ASSUME NEW k \in Keys PROVE divided[k] = b[m][k]
  <2>1. CASE Home(k) \in bs
    BY <2>1, HomeTakesPart, MergeAtHome DEF AtHome
  <2>2. CASE Home(k) \notin bs
    BY <2>2, MergeAtHome DEF AtHome
  <2>3. QED
    BY <2>1, <2>2
<1>3. b[m] = [k \in Keys |-> b[m][k]]
  BY DEF KeySets
<1>4. divided = [k \in Keys |-> divided[k]]
  OBVIOUS
<1> HIDE DEF divided
<1>5. QED
  BY <1>1, <1>2, <1>3, <1>4

\* What kdbSet() divides of ks among its backends is their part of it.
LEMMA DivideKs ==
    ASSUME ParentsTakeNested, NEW p \in Parents, NEW m \in BackendsForParentKey(p),
           NEW k \in Keys
    PROVE  LET all == BackendsForParentKey(p)
           IN  BackendsDivide(all, KsBelowAll(ks, all))[m][k]
                 = IF Home(k) = m THEN ks[k] ELSE Absent
<1> DEFINE all == BackendsForParentKey(p)
           b   == BackendsDivide(all, KsBelowAll(ks, all))
<1>1. all \in SUBSET Mounts /\ m \in Mounts
  BY DEF BackendsForParentKey
<1>2. b[m][k] = IF Contains(all, m, k) THEN KsBelowAll(ks, all)[k] ELSE Absent
  BY <1>1 DEF BackendsDivide
<1>3. CASE Home(k) \in all
  <2>1. Contains(all, m, k) <=> m = Home(k)
    BY <1>1, <1>3, HomeTakesPart
  <2>2. KsBelowAll(ks, all)[k] = ks[k]
    BY <1>3, HomeAbove DEF KsBelowAll
  <2>3. QED
    BY <1>2, <2>1, <2>2
<1>4. CASE Home(k) \notin all
  <2>1. ~Contains(all, m, k)
    <3>1. SUFFICES ASSUME IsBelowOrSame(k, m) PROVE FALSE
      BY DEF Contains
    <3>2. IsBelowOrSame(Home(k), m) /\ Home(k) \in Mounts
      BY <1>1, <3>1, HomeContains DEF Contains
    <3>3. QED
      BY <1>4, <3>2 DEF ParentsTakeNested
  <2>2. Home(k) # m
    BY <1>4
  <2>3. QED
    BY <1>2, <2>1, <2>2
<1>5. QED
  BY <1>3, <1>4

HomeInvariant == KeysAtHome /\ PartOfKs

LEMMA HomeInit == Init => HomeInvariant
BY DEF Init, HomeInvariant, KeysAtHome, PartOfKs, Storing

LEMMA PartAtHome ==
    ASSUME PartOfKs, Storing
    PROVE  AtHome(backs, keys)
BY DEF PartOfKs, AtHome

\* The second division of kdbSet() changes nothing.
LEMMA SetDividesAgain ==
    ASSUME TypeOK, PartOfKs, SetStorage
    PROVE  \A m \in backs : keys'[m] = keys[m]
<1>1. Storing /\ keys' = BackendsDivide(backs, BackendsMerge(backs, keys))
  BY DEF SetStorage, Storing
<1>2. backs \in SUBSET Mounts /\ keys \in [Mounts -> KeySets]
  BY DEF TypeOK
<1>3. QED
  BY <1>1, <1>2, PartAtHome, DivideAgain

LEMMA HomeStep ==
    ASSUME ParentsTakeNested, PlacementInvariant, HomeInvariant, [Next]_vars
    PROVE  HomeInvariant'
<1>0. TypeOK /\ KeysAtHome /\ PartOfKs
  BY DEF PlacementInvariant, HomeInvariant
<1>1. CASE UNCHANGED vars
  BY <1>0, <1>1 DEF vars, dataVars, HomeInvariant, KeysAtHome, PartOfKs, Storing
<1>2. CASE Next
  <2>1. KeysAtHome'
    <3>1. ASSUME NEW m \in Mounts, NEW s \in KeySets, Write(m, s) PROVE KeysAtHome'
      BY <1>0, <3>1 DEF Write, KeysAtHome, TypeOK
    <3>2. ASSUME NEW m \in Mounts, Commit(m) PROVE KeysAtHome'
      <4>1. \A k \in Keys : keys[m][k] # Absent => Home(k) = m
        BY <1>0, <3>2 DEF Commit, PartOfKs, Storing
      <4>2. QED
        BY <1>0, <3>2, <4>1 DEF Commit, KeysAtHome, TypeOK
    <3>3. CASE Rollback
      BY <1>0, <3>3 DEF Rollback, KeysAtHome, Empty
    <3>4. CASE UNCHANGED disk
      BY <1>0, <3>4 DEF KeysAtHome
    <3>5. QED
      BY <1>2, <3>1, <3>2, <3>3, <3>4
      DEF Next, Continue, Edit, GetResolver, GetStorage, GetFails, SetBegin, SetResolver,
          SetStorage, SetFails, CommitFails, SetEnd
  <2>2. PartOfKs'
    <3>1. ASSUME NEW p \in Parents, SetBegin(p) PROVE PartOfKs'
      <4> DEFINE all == BackendsForParentKey(p)
                 b   == BackendsDivide(all, KsBelowAll(ks, all))
      <4>1. CASE pc' = "setResolver"
        <5>1. keys' = b /\ backs' \subseteq all /\ ks' = ks
          BY <3>1, <4>1 DEF SetBegin, Return
        <5>2. QED
          BY <5>1, DivideKs DEF PartOfKs
      <4>2. CASE pc' = "idle"
        BY <4>2 DEF PartOfKs, Storing
      <4>3. QED
        BY <3>1, <4>1, <4>2 DEF SetBegin, Return
    <3>2. CASE SetStorage
      <4>1. Storing /\ UNCHANGED <<backs, ks>>
        BY <3>2 DEF SetStorage, Storing
      <4>2. \A m \in backs : keys'[m] = keys[m]
        BY <1>0, <3>2, SetDividesAgain
      <4>3. QED
        BY <1>0, <4>1, <4>2 DEF PartOfKs
    <3>3. CASE ~Storing'
      BY <3>3 DEF PartOfKs
    <3>4. CASE Storing /\ UNCHANGED <<keys, ks>> /\ backs' \subseteq backs
      BY <1>0, <3>4 DEF PartOfKs
    <3>5. QED
      BY <1>2, <3>1, <3>2, <3>3, <3>4
      DEF Next, Continue, Edit, Write, GetResolver, GetStorage, GetFails, SetResolver, SetFails,
          Commit, CommitFails, SetEnd, Rollback, Return, Storing, dataVars
  <2>3. QED
    BY <2>1, <2>2 DEF HomeInvariant
<1>3. QED
  BY <1>1, <1>2

\* If the parent keys of the calls take along all backends mounted below the ones
\* they select, a file only holds keys of its own backend, whatever fails.
THEOREM FilesHoldOwnKeys ==
    ASSUME ParentsTakeNested
    PROVE  Spec => []KeysAtHome
<1>1. HomeInvariant => KeysAtHome
  BY DEF HomeInvariant
<1>2. PlacementInvariant /\ HomeInvariant /\ [Next]_vars
      => PlacementInvariant' /\ HomeInvariant'
  BY PlacementStep, HomeStep
<1>3. QED
  BY <1>1, <1>2, PlacementInit, HomeInit, PTL DEF Spec

-----------------------------------------------------------------------------
(***************************************************************************)
(* A kdbSet() that fails.                                                  *)
(***************************************************************************)

LEMMA FailsInit == Init => FailsBeforeCommit
BY DEF Init, FailsBeforeCommit

LEMMA FailsStep ==
    ASSUME "commit" \notin Faults, FailsBeforeCommit, [Next]_vars
    PROVE  FailsBeforeCommit'
<1> USE DEF FailsBeforeCommit
<1>1. CASE UNCHANGED vars
  BY <1>1 DEF vars, histVars
<1>2. CASE Next
  BY <1>2 DEF Next, Continue, Edit, Write, GetResolver, GetStorage, GetFails, SetBegin,
      SetResolver, SetStorage, SetFails, Commit, CommitFails, SetEnd, Rollback, Return,
      dataVars, histVars
<1>3. QED
  BY <1>1, <1>2

LEMMA FailureInit == Init => FailureAccounted
BY DEF Init, FailureAccounted, FailedSetAccounted

LEMMA FailureStep ==
    ASSUME TypeOK, PartOfKs, LockedTakePart, FailureAccounted, [Next]_vars
    PROVE  FailureAccounted'
<1> USE DEF LockedTakePart, FailureAccounted, FailedSetAccounted
<1>1. CASE UNCHANGED vars
  BY <1>1 DEF vars, histVars
<1>2. ASSUME NEW m \in Mounts, Commit(m) PROVE FailureAccounted'
  <2>1. /\ m \in backs /\ base' = [base EXCEPT ![m] = keys[m]] /\ stored' = stored \union {m}
        /\ pc = "commit" /\ pc' = "commit" /\ ks' = ks
    BY <1>2 DEF Commit
  <2>2. ASSUME NEW k \in Keys, Home(k) \in stored' PROVE base'[Home(k)][k] = ks'[k]
    <3>1. CASE Home(k) = m
      BY <2>1, <3>1 DEF TypeOK, PartOfKs, Storing
    <3>2. CASE Home(k) # m
      BY <2>1, <2>2, <3>2 DEF TypeOK
    <3>3. QED
      BY <3>1, <3>2
  <2>3. QED
    BY <2>1, <2>2
<1>3. CASE SetEnd
  BY <1>3 DEF SetEnd, Return, histVars
<1>4. CASE Rollback
  BY <1>4 DEF Rollback, Return, histVars
<1>5. CASE SetStorage \/ SetFails \/ SetResolver \/ \E m \in Mounts : CommitFails(m)
  BY <1>5 DEF SetStorage, SetFails, SetResolver, CommitFails, histVars
<1>6. CASE \E p \in Parents : SetBegin(p)
  BY <1>6 DEF SetBegin, Return
<1>7. CASE \/ GetStorage \/ GetFails \/ \E p \in Parents : GetResolver(p)
           \/ \E k \in Keys, v \in Values \union {Absent} : Edit(k, v)
  BY <1>7 DEF GetStorage, GetFails, GetResolver, Edit, Return
<1>8. CASE \E m \in Mounts, s \in KeySets : Write(m, s)
  BY <1>8 DEF Write, histVars
<1>9. QED
  BY <1>1, <1>2, <1>3, <1>4, <1>5, <1>6, <1>7, <1>8 DEF Next, Continue

\* Whatever fails: a kdbSet() that fails has replaced no file, or the commit of one
\* backend has failed, and the files replaced before hold all of the application's
\* keys for them.  (The parent keys of the calls take nested backends along.)
THEOREM FailureLeavesWholeFiles ==
    ASSUME ParentsTakeNested
    PROVE  Spec => []FailedSetAccounted
<1>1. FailureAccounted => FailedSetAccounted
  BY DEF FailureAccounted
<1>2. PlacementInvariant /\ HomeInvariant /\ FailureAccounted /\ [Next]_vars
      => PlacementInvariant' /\ HomeInvariant' /\ FailureAccounted'
  BY PlacementStep, HomeStep, FailureStep DEF PlacementInvariant, HomeInvariant
<1>3. QED
  BY <1>1, <1>2, PlacementInit, HomeInit, FailureInit, PTL DEF Spec

-----------------------------------------------------------------------------
(***************************************************************************)
(* A kdbSet() that succeeds.                                               *)
(***************************************************************************)

\* Below a name below n is below n.
LEMMA BelowTransitive ==
    ASSUME NEW k \in Seq(STRING), NEW m \in Seq(STRING), NEW n \in Seq(STRING),
           IsBelowOrSame(k, m), IsBelowOrSame(m, n)
    PROVE  IsBelowOrSame(k, n)
<1>1. m = SubSeq(k, 1, Len(m)) /\ n = SubSeq(m, 1, Len(n)) /\ Len(n) <= Len(m) /\ Len(m) <= Len(k)
  BY DEF IsBelowOrSame
<1>2. Len(SubSeq(k, 1, Len(n))) = Len(n)
  BY <1>1
<1>3. ASSUME NEW i \in 1 .. Len(n) PROVE SubSeq(k, 1, Len(n))[i] = n[i]
  BY <1>1
<1>4. SubSeq(k, 1, Len(n)) = n
  BY <1>2, <1>3
<1>5. QED
  BY <1>1, <1>4 DEF IsBelowOrSame

LEMMA AllTaken ==
    ASSUME ParentsTakeAll, NEW p \in Parents
    PROVE  BackendsForParentKey(p) = Mounts /\ \A k \in Keys : IsBelowOrSame(k, p)
<1>1. BackendsForParentKey(p) = Mounts
  BY DEF BackendsForParentKey, ParentsTakeAll
<1>2. ASSUME NEW k \in Keys PROVE IsBelowOrSame(k, p)
  <2>1. Home(k) \in Mounts /\ IsBelowOrSame(k, Home(k)) /\ IsBelowOrSame(Home(k), p)
    BY HomeAbove DEF ParentsTakeAll
  <2>2. k \in Seq(STRING) /\ Home(k) \in Seq(STRING) /\ p \in Seq(STRING)
    BY <2>1, MountsAssumption
  <2>3. QED
    BY <2>1, <2>2, BelowTransitive
<1>3. QED
  BY <1>1, <1>2

LEMMA AllTakeNested == ParentsTakeAll => ParentsTakeNested
BY AllTaken DEF ParentsTakeNested

LEMMA SizeZero ==
    ASSUME NEW s \in KeySets, KsGetSize(s) = 0
    PROVE  s = Empty
<1>1. IsFiniteSet({k \in Keys : s[k] # Absent})
  BY MountsAssumption, FS_Subset
<1>2. {k \in Keys : s[k] # Absent} = {}
  BY <1>1, FS_EmptySet DEF KsGetSize
<1>3. QED
  BY <1>2 DEF KeySets, Empty

LEMMA EmptySize == KsGetSize(Empty) = 0
<1>1. {k \in Keys : Empty[k] # Absent} = {}
  BY DEF Empty
<1>2. QED
  BY <1>1, FS_EmptySet DEF KsGetSize

\* The loading of backends that hold only their own keys: each gets what its
\* file holds, and so do ks and KDB.allKeys.
LEMMA GetLoadsHome ==
    ASSUME TypeOK, KeysPlaced, KeysAtHome, GetStorage
    PROVE  LET dataKs == [k \in Keys |-> IF Home(k) \in backs THEN disk[Home(k)][k] ELSE Absent]
           IN  /\ \A m \in backs : getSize'[m] = KsGetSize(disk[m])
               /\ \A m \in Mounts \ backs : getSize'[m] = getSize[m]
               /\ ks' = KsAppend(KsCutAll(ks, backs), dataKs)
               /\ allKeys' = KsAppend(KsCut(allKeys, parent), dataKs)
               /\ base' = [m \in Mounts |-> IF m \in backs THEN disk[m] ELSE base[m]]
<1> DEFINE divided == BackendsDivide(backs, BackendsMerge(backs, disk))
           loaded  == BackendsMerge(backs, divided)
           dataKs  == [k \in Keys |-> IF Home(k) \in backs THEN disk[Home(k)][k] ELSE Absent]
<1>1. backs \in SUBSET Mounts /\ disk \in [Mounts -> KeySets] /\ AtHome(backs, disk)
  BY DEF TypeOK, KeysAtHome, AtHome
<1>2. \A m \in backs : divided[m] = disk[m]
  BY <1>1, DivideAgain
<1>3. /\ getSize' = MergedSize(backs, divided)
      /\ ks' = KsAppend(KsCutAll(ks, backs), loaded)
      /\ allKeys' = KsAppend(KsCut(allKeys, parent), loaded)
      /\ base' = [m \in Mounts |-> IF m \in backs THEN disk[m] ELSE base[m]]
  BY DEF GetStorage
<1> HIDE DEF divided
<1>4. AtHome(backs, divided)
  BY <1>1, <1>2 DEF AtHome
<1>5. ASSUME NEW k \in Keys PROVE loaded[k] = dataKs[k]
  BY <1>1, <1>2, <1>4, MergeAtHome
<1>6. loaded = [k \in Keys |-> loaded[k]]
  BY DEF BackendsMerge
<1>7. dataKs = [k \in Keys |-> dataKs[k]]
  OBVIOUS
<1>8. loaded = dataKs
  <2> HIDE DEF loaded, dataKs
  <2> QED
    BY <1>5, <1>6, <1>7
<1> HIDE DEF loaded, dataKs
<1>9. /\ \A m \in backs : getSize'[m] = KsGetSize(disk[m])
      /\ \A m \in Mounts \ backs : getSize'[m] = getSize[m]
  BY <1>1, <1>2, <1>3 DEF MergedSize
<1>10. QED
  BY <1>3, <1>8, <1>9 DEF dataKs

\* A backend that is not Changed holds its part of ks.
LEMMA UnchangedHolds ==
    ASSUME TypeOK, EmptyKnown, AllKeysKnown, ParentsTakeAll, pc = "idle",
           NEW p \in Parents, NEW m \in Mounts \ ReadOnly,
           ~Changed(Mounts, m, BackendsDivide(Mounts, KsBelowAll(ks, Mounts))),
           NEW k \in Keys, Home(k) = m
    PROVE  ks[k] = base[m][k]
<1> DEFINE b == BackendsDivide(Mounts, KsBelowAll(ks, Mounts))
<1>1. ParentsTakeNested /\ BackendsForParentKey(p) = Mounts
  BY AllTaken, AllTakeNested
<1>2. \A j \in Keys : b[m][j] = IF Home(j) = m THEN ks[j] ELSE Absent
  BY <1>1, DivideKs
<1>3. \A j \in Keys, n \in Mounts \ {m} :
        Home(j) = m /\ IsBelowOrSame(n, m) => ~IsBelowOrSame(j, n)
  <2>1. SUFFICES ASSUME NEW j \in Keys, NEW n \in Mounts \ {m}, Home(j) = m,
                        IsBelowOrSame(n, m), IsBelowOrSame(j, n)
                 PROVE  FALSE
    OBVIOUS
  <2>2. IsBelowOrSame(m, n)
    BY <2>1, HomeContains DEF Contains
  <2>3. m \in Seq(STRING) /\ n \in Seq(STRING)
    BY MountsAssumption
  <2>4. QED
    BY <2>1, <2>2, <2>3, BelowAntisymmetric
<1>4. ASSUME NEW j \in Keys, Home(j) = m PROVE ks[j] = allKeys[j]
  <2>1. IsBelowOrSame(j, m)
    BY <1>4, HomeAbove
  <2>2. b[m][j] = allKeys[j]
    BY <1>3, <1>4, <2>1 DEF Changed
  <2>3. QED
    BY <1>2, <1>4, <2>2
<1>5. CASE \A j \in Keys : Home(j) = m => allKeys[j] = base[m][j]
  BY <1>4, <1>5
<1>6. CASE \A j \in Keys : Home(j) = m => allKeys[j] = Absent
  <2>1. b \in [Mounts -> KeySets]
    BY DivideType, KeySetType DEF TypeOK
  <2>2. \A j \in Keys : b[m][j] = Absent
    BY <1>2, <1>4, <1>6
  <2>3. b[m] = Empty
    BY <2>1, <2>2 DEF KeySets, Empty
  <2>4. getSize[m] = KsGetSize(b[m])
    BY DEF Changed
  <2> HIDE DEF b
  <2>5. getSize[m] = 0
    BY <2>3, <2>4, EmptySize
  <2>6. base[m] = Empty
    BY <2>5 DEF EmptyKnown
  <2>7. QED
    BY <1>4, <1>6, <2>6 DEF Empty
<1>7. QED
  BY <1>5, <1>6 DEF AllKeysKnown

LEMMA PersistInit == Init => PersistInvariant
<1> SUFFICES ASSUME Init PROVE PersistInvariant
  OBVIOUS
<1>1. EmptyKnown /\ SizesNoted /\ ReadOnlyMarked /\ RestHolds /\ SetPersists
  BY DEF Init, EmptyKnown, SizesNoted, ReadOnlyMarked, RestHolds, SetPersists,
         Storing
<1>2. AllKeysKnown
  BY DEF Init, AllKeysKnown, Empty
<1>3. QED
  BY <1>1, <1>2 DEF PersistInvariant

\* What the proofs about a step of kdbSet() start from.
Calm == /\ TypeOK /\ KeysPlaced /\ LockedTakePart /\ KeysAtHome /\ PartOfKs
        /\ FailsBeforeCommit /\ PersistInvariant

\* kdbGet() loads some of the backends and forgets the others in KDB.allKeys.
LEMMA PersistLoads ==
    ASSUME Calm, GetStorage, ParentsTakeAll
    PROVE  PersistInvariant'
<1>0. TypeOK /\ KeysPlaced /\ KeysAtHome /\ PersistInvariant
  BY DEF Calm
<1> DEFINE dataKs == [k \in Keys |-> IF Home(k) \in backs THEN disk[Home(k)][k] ELSE Absent]
<1>1. /\ \A m \in backs : getSize'[m] = KsGetSize(disk[m])
      /\ \A m \in Mounts \ backs : getSize'[m] = getSize[m]
      /\ allKeys' = KsAppend(KsCut(allKeys, parent), dataKs)
      /\ base' = [m \in Mounts |-> IF m \in backs THEN disk[m] ELSE base[m]]
  BY <1>0, GetLoadsHome
<1>2. pc = "getStorage" /\ pc' = "idle" /\ ret' = "updated" /\ UNCHANGED <<disk, readonly>>
  BY DEF GetStorage, Return
<1>3. EmptyKnown'
  <2>1. ASSUME NEW m \in Mounts, getSize'[m] = 0 PROVE base'[m] = Empty
    <3>1. CASE m \in backs
      BY <1>0, <1>1, <2>1, <3>1, SizeZero DEF TypeOK
    <3>2. CASE m \notin backs
      BY <1>0, <1>1, <1>2, <2>1, <3>2 DEF PersistInvariant, EmptyKnown
    <3>3. QED
      BY <3>1, <3>2
  <2>2. QED
    BY <2>1 DEF EmptyKnown
<1>4. AllKeysKnown'
  <2>1. \A k \in Keys : IsBelowOrSame(k, parent)
    BY <1>0, AllTaken DEF TypeOK
  <2>2. \A k \in Keys : allKeys'[k] = dataKs[k]
    BY <1>1, <2>1 DEF KsAppend, KsCut
  <2>3. ASSUME NEW m \in Mounts
        PROVE  \/ \A k \in Keys : Home(k) = m => allKeys'[k] = base'[m][k]
               \/ \A k \in Keys : Home(k) = m => allKeys'[k] = Absent
    BY <1>1, <2>2
  <2>4. QED
    BY <2>3 DEF AllKeysKnown
<1>5. QED
  BY <1>0, <1>2, <1>3, <1>4
  DEF PersistInvariant, SizesNoted, ReadOnlyMarked, RestHolds, SetPersists, Storing

LEMMA PersistGetFails ==
    ASSUME Calm, GetFails
    PROVE  PersistInvariant'
<1>0. TypeOK /\ PersistInvariant
  BY DEF Calm
<1>1. /\ pc = "getStorage" /\ pc' = "idle" /\ ret' = "getFailed"
      /\ UNCHANGED <<disk, ks, allKeys, readonly, backs, base, stored>>
  BY DEF GetFails, Return, histVars
<1>2. ASSUME NEW m \in Mounts, getSize'[m] = 0 PROVE base'[m] = Empty
  <2>1. CASE getSize'[m] = getSize[m]
    BY <1>0, <1>1, <1>2, <2>1 DEF PersistInvariant, EmptyKnown
  <2>2. CASE getSize'[m] # getSize[m]
    <3>1. FilesThere /\ getSize' = MergedSize(backs, disk)
      BY <2>2 DEF GetFails
    <3>2. m \in backs /\ getSize'[m] = KsGetSize(disk[m])
      BY <2>2, <3>1 DEF MergedSize
    <3>3. disk[m] = Empty
      BY <1>0, <1>2, <3>2, SizeZero DEF TypeOK
    <3>4. QED
      BY <3>1, <3>2, <3>3 DEF FilesThere
  <2>3. QED
    BY <2>1, <2>2
<1>3. QED
  BY <1>0, <1>1, <1>2
  DEF PersistInvariant, EmptyKnown, SizesNoted, AllKeysKnown, ReadOnlyMarked,
      RestHolds, SetPersists, Storing

LEMMA PersistBegins ==
    ASSUME Calm, ParentsTakeAll, NEW p \in Parents, SetBegin(p)
    PROVE  PersistInvariant'
<1>0. TypeOK /\ PersistInvariant /\ pc = "idle"
  BY DEF Calm, SetBegin
<1>1. /\ pc' \in {"idle", "setResolver"} /\ stored' = {} /\ parent' = p
      /\ UNCHANGED <<disk, ks, allKeys, getSize, readonly, base>>
  BY DEF SetBegin, Return
<1>2. EmptyKnown' /\ SizesNoted' /\ AllKeysKnown' /\ ReadOnlyMarked'
  BY <1>0, <1>1
  DEF PersistInvariant, EmptyKnown, SizesNoted, AllKeysKnown, ReadOnlyMarked
<1>3. ASSUME pc' = "setResolver" \/ ret' = "unchanged", NEW k \in Keys,
             Home(k) \notin ReadOnly, Home(k) \notin backs'
      PROVE  ks[k] = base[Home(k)][k]
  <2> DEFINE b == BackendsDivide(Mounts, KsBelowAll(ks, Mounts))
  <2>1. backs' = {m \in Mounts : ~readonly[m] /\ Changed(Mounts, m, b)}
    <3>1. BackendsForParentKey(p) = Mounts
      BY AllTaken
    <3>2. QED
      BY <1>0, <1>3, <3>1 DEF SetBegin, Return
  <2>2. Home(k) \in Mounts \ ReadOnly
    BY <1>3, HomeAbove
  <2>3. ~readonly[Home(k)]
    BY <1>0, <2>2 DEF PersistInvariant, ReadOnlyMarked
  <2>4. ~Changed(Mounts, Home(k), b)
    BY <1>3, <2>1, <2>2, <2>3
  <2>5. QED
    BY <1>0, <2>2, <2>4, UnchangedHolds DEF PersistInvariant
<1>4. RestHolds'
  <2>1. CASE pc' = "setResolver"
    BY <1>1, <1>3, <2>1 DEF RestHolds, Storing
  <2>2. CASE pc' = "idle"
    BY <2>2 DEF RestHolds, Storing
  <2>3. QED
    BY <1>1, <2>1, <2>2
<1>5. SetPersists'
  <2>1. CASE pc' = "idle" /\ ret' = "unchanged"
    <3>1. backs' = {}
      BY <1>0, <2>1 DEF SetBegin, Return
    <3>2. QED
      BY <1>1, <1>3, <2>1, <3>1 DEF SetPersists
  <2>2. CASE ~(pc' = "idle" /\ ret' = "unchanged")
    <3>1. pc' = "setResolver" \/ ret' = "setFailed"
      BY <2>2 DEF SetBegin, Return
    <3>2. QED
      BY <3>1 DEF SetPersists
  <2>3. QED
    BY <2>1, <2>2
<1>6. QED
  BY <1>2, <1>4, <1>5 DEF PersistInvariant

LEMMA PersistStores ==
    ASSUME Calm, SetStorage
    PROVE  PersistInvariant'
<1>0. TypeOK /\ PartOfKs /\ PersistInvariant /\ stored = {}
  BY DEF Calm, LockedTakePart, SetStorage
<1>1. /\ pc = "setStorage" /\ pc' = "commit" /\ getSize' = MergedSize(backs, keys)
      /\ UNCHANGED <<disk, ks, allKeys, readonly, parent, backs, ret, base, stored>>
  BY DEF SetStorage, histVars
<1>2. \A m \in backs : keys'[m] = keys[m]
  BY <1>0, SetDividesAgain
<1>3. SizesNoted'
  BY <1>0, <1>1, <1>2 DEF SizesNoted, MergedSize, TypeOK
<1>4. EmptyKnown'
  BY <1>0, <1>1 DEF PersistInvariant, EmptyKnown, MergedSize
<1>5. QED
  BY <1>0, <1>1, <1>3, <1>4
  DEF PersistInvariant, AllKeysKnown, ReadOnlyMarked, RestHolds, SetPersists, Storing

LEMMA PersistCommits ==
    ASSUME Calm, NEW m \in Mounts, Commit(m)
    PROVE  PersistInvariant'
<1>0. TypeOK /\ PartOfKs /\ PersistInvariant
  BY DEF Calm
<1>1. /\ pc = "commit" /\ pc' = "commit" /\ m \in backs \ stored
      /\ base' = [base EXCEPT ![m] = keys[m]] /\ stored' = stored \union {m}
      /\ UNCHANGED <<ks, allKeys, getSize, readonly, keys, backs>>
  BY DEF Commit, dataVars
<1>2. EmptyKnown'
  <2>1. getSize[m] = 0 => keys[m] = Empty
    BY <1>0, <1>1, SizeZero DEF PersistInvariant, SizesNoted, TypeOK
  <2>2. QED
    BY <1>0, <1>1, <2>1 DEF PersistInvariant, EmptyKnown, TypeOK
<1>3. AllKeysKnown'
  BY <1>0, <1>1 DEF PersistInvariant, AllKeysKnown, TypeOK
<1>4. RestHolds'
  <2>1. ASSUME NEW k \in Keys, Home(k) = m PROVE keys[m][k] = ks[k]
    BY <1>0, <1>1, <2>1 DEF PartOfKs, Storing
  <2>2. QED
    BY <1>0, <1>1, <2>1 DEF PersistInvariant, RestHolds, Storing, TypeOK
<1>5. QED
  BY <1>0, <1>1, <1>2, <1>3, <1>4
  DEF PersistInvariant, SizesNoted, ReadOnlyMarked, SetPersists

LEMMA PersistEnds ==
    ASSUME Calm, ParentsTakeAll, SetEnd
    PROVE  PersistInvariant'
<1>0. TypeOK /\ PersistInvariant /\ FailsBeforeCommit
  BY DEF Calm
<1>1. /\ pc = "commit" /\ backs \subseteq stored /\ pc' = "idle" /\ ret' = "stored"
      /\ allKeys' = KsAppend(KsCut(allKeys, parent), ks)
      /\ UNCHANGED <<disk, ks, getSize, readonly, parent, backs, base, stored>>
  BY <1>0 DEF SetEnd, Return, FailsBeforeCommit, dataVars, histVars
<1>2. ASSUME NEW k \in Keys, Home(k) \notin ReadOnly PROVE ks[k] = base[Home(k)][k]
  BY <1>0, <1>1, <1>2 DEF PersistInvariant, RestHolds, Storing
<1>3. ASSUME NEW k \in Keys PROVE allKeys'[k] = ks[k]
  <2>1. IsBelowOrSame(k, parent)
    BY <1>0, AllTaken DEF TypeOK
  <2>2. QED
    BY <1>1, <2>1 DEF KsAppend, KsCut
<1>4. AllKeysKnown'
  BY <1>1, <1>2, <1>3 DEF AllKeysKnown
<1>5. SetPersists'
  BY <1>1, <1>2 DEF SetPersists
<1>6. EmptyKnown'
  BY <1>0, <1>1 DEF PersistInvariant, EmptyKnown
<1>7. QED
  BY <1>0, <1>1, <1>4, <1>5, <1>6
  DEF PersistInvariant, SizesNoted, ReadOnlyMarked, RestHolds, Storing

LEMMA PersistStep ==
    ASSUME "set" \notin Faults, "commit" \notin Faults, ParentsTakeAll, Calm, [Next]_vars
    PROVE  PersistInvariant'
<1>0. TypeOK /\ LockedTakePart /\ PersistInvariant
  BY DEF Calm
<1> USE DEF PersistInvariant, EmptyKnown, SizesNoted, AllKeysKnown, ReadOnlyMarked,
            RestHolds, SetPersists, Storing
<1>1. CASE UNCHANGED vars
  BY <1>0, <1>1 DEF vars, dataVars, histVars
<1>2. ASSUME NEW k \in Keys, NEW v \in Values \union {Absent}, Edit(k, v)
      PROVE  PersistInvariant'
  BY <1>0, <1>2 DEF Edit, dataVars
<1>3. ASSUME NEW m \in Mounts, NEW s \in KeySets, Write(m, s) PROVE PersistInvariant'
  BY <1>0, <1>3 DEF Write, dataVars, histVars, TypeOK
<1>4. ASSUME NEW p \in Parents, GetResolver(p) PROVE PersistInvariant'
  BY <1>0, <1>4 DEF GetResolver, InitBackends, NeedsUpdate, Return, histVars
<1>5. CASE SetResolver
  BY <1>0, <1>5 DEF SetResolver, LockedTakePart, dataVars, histVars
<1>6. CASE Rollback
  BY <1>0, <1>6 DEF Rollback, Return, dataVars, histVars
<1>7. CASE SetFails \/ \E m \in Mounts : CommitFails(m)
  BY <1>7 DEF SetFails, CommitFails
<1>8. CASE \/ GetStorage \/ GetFails \/ SetStorage \/ SetEnd
           \/ \E p \in Parents : SetBegin(p)
           \/ \E m \in Mounts : Commit(m)
  BY <1>8, PersistLoads, PersistGetFails, PersistStores, PersistEnds, PersistBegins,
     PersistCommits
<1>9. QED
  BY <1>1, <1>2, <1>3, <1>4, <1>5, <1>6, <1>7, <1>8 DEF Next, Continue

\* If every call is about all backends, and no backend fails while or before it is
\* stored, a kdbSet() that succeeds has persisted all keys of ks, also if
\* kdbGet() has updated only some of the backends before, or has failed.
THEOREM SuccessPersists ==
    ASSUME "set" \notin Faults, "commit" \notin Faults, ParentsTakeAll
    PROVE  Spec => []SetPersists
<1>1. PersistInvariant => SetPersists
  BY DEF PersistInvariant
<1> DEFINE Inv == /\ PlacementInvariant /\ HomeInvariant
                  /\ FailsBeforeCommit /\ PersistInvariant
<1>2. Inv => Calm
  BY DEF PlacementInvariant, HomeInvariant, Calm
<1>3. Inv /\ [Next]_vars => Inv'
  <2> SUFFICES ASSUME Inv, [Next]_vars PROVE Inv'
    OBVIOUS
  <2>1. PlacementInvariant' /\ FailsBeforeCommit'
    BY PlacementStep, FailsStep
  <2>2. HomeInvariant'
    BY AllTakeNested, HomeStep
  <2>3. PersistInvariant'
    BY <1>2, PersistStep
  <2>4. QED
    BY <2>1, <2>2, <2>3
<1>4. Init => Inv
  BY PlacementInit, HomeInit, FailsInit, PersistInit
<1> HIDE DEF Inv
<1>5. Inv => SetPersists
  BY <1>1 DEF Inv
<1>6. QED
  BY <1>3, <1>4, <1>5, PTL DEF Spec

-----------------------------------------------------------------------------
(***************************************************************************)
(* What kdbGet() shows and what kdbSet() stores.                           *)
(***************************************************************************)

LEMMA FlatTakesNested == MountsFlat => ParentsTakeNested
BY DEF MountsFlat, ParentsTakeNested, BackendsForParentKey

\* Among backends that are not nested, whatever is above a key is its backend.
LEMMA FlatHome ==
    ASSUME MountsFlat, NEW k \in Keys, NEW m \in Mounts, IsBelowOrSame(k, m)
    PROVE  Home(k) = m
BY HomeContains DEF Contains, MountsFlat

LEMMA ShownInit == Init => LoadedShown
<1>1. SUFFICES ASSUME Init, NEW k \in Keys PROVE ks[k] = base[Home(k)][k]
  BY DEF LoadedShown
<1>2. QED
  BY <1>1, HomeAbove DEF Init

LEMMA ShownStep ==
    ASSUME MountsFlat, TypeOK, KeysPlaced, KeysAtHome, PartOfKs, LoadedShown, [Next]_vars
    PROVE  LoadedShown'
<1>1. ASSUME NEW k \in Keys, NEW v \in Values \union {Absent}, Edit(k, v) PROVE LoadedShown'
  BY <1>1 DEF Edit, LoadedShown, TypeOK, KeySets
<1>2. CASE GetStorage
  <2> DEFINE dataKs == [k \in Keys |-> IF Home(k) \in backs THEN disk[Home(k)][k] ELSE Absent]
  <2>1. /\ ks' = KsAppend(KsCutAll(ks, backs), dataKs)
        /\ base' = [m \in Mounts |-> IF m \in backs THEN disk[m] ELSE base[m]]
    BY <1>2, GetLoadsHome
  <2>2. edited' = {k \in edited : \A m \in backs : ~IsBelowOrSame(k, m)} /\ backs \subseteq Mounts
    BY <1>2 DEF GetStorage, TypeOK
  <2>3. ASSUME NEW k \in Keys, k \notin edited' PROVE ks'[k] = base'[Home(k)][k]
    <3>1. Home(k) \in Mounts /\ IsBelowOrSame(k, Home(k))
      BY HomeAbove
    <3>2. CASE Home(k) \in backs
      BY <2>1, <3>1, <3>2 DEF KsAppend, KsCutAll
    <3>3. CASE Home(k) \notin backs
      <4>1. \A m \in backs : ~IsBelowOrSame(k, m)
        BY <2>2, <3>3, FlatHome
      <4>2. k \notin edited
        BY <2>2, <2>3, <4>1
      <4>3. ks'[k] = ks[k] /\ base'[Home(k)] = base[Home(k)]
        BY <2>1, <3>1, <3>3, <4>1 DEF KsAppend, KsCutAll
      <4>4. QED
        BY <4>2, <4>3 DEF LoadedShown
    <3>4. QED
      BY <3>2, <3>3
  <2>4. QED
    BY <2>3 DEF LoadedShown
<1>3. ASSUME NEW m \in Mounts, Commit(m) PROVE LoadedShown'
  <2>1. /\ m \in backs /\ base' = [base EXCEPT ![m] = keys[m]] /\ ks' = ks
        /\ edited' = {k \in edited : ~Contains(backs, m, k)} /\ Storing
    BY <1>3 DEF Commit, Storing
  <2>2. ASSUME NEW k \in Keys, k \notin edited' PROVE ks'[k] = base'[Home(k)][k]
    <3>1. CASE Home(k) = m
      BY <2>1, <3>1, HomeAbove DEF PartOfKs, TypeOK
    <3>2. CASE Home(k) # m
      <4>1. ~Contains(backs, m, k)
        BY <3>2, FlatHome DEF Contains
      <4>2. k \notin edited /\ base'[Home(k)] = base[Home(k)]
        BY <2>1, <2>2, <3>2, <4>1, HomeAbove DEF TypeOK
      <4>3. QED
        BY <2>1, <4>2 DEF LoadedShown
    <3>3. QED
      BY <3>1, <3>2
  <2>3. QED
    BY <2>2 DEF LoadedShown
<1>4. CASE UNCHANGED <<ks, base, edited>>
  BY <1>4 DEF LoadedShown
<1>5. QED
  BY <1>1, <1>2, <1>3, <1>4
  DEF Next, Continue, Write, GetResolver, GetFails, SetBegin, SetResolver, SetStorage, SetFails,
      CommitFails, SetEnd, Rollback, vars, histVars

ShownInvariant == PlacementInvariant /\ HomeInvariant /\ LoadedShown

LEMMA ShownInductive ==
    ASSUME MountsFlat
    PROVE  /\ Init => ShownInvariant
           /\ ShownInvariant /\ [Next]_vars => ShownInvariant'
<1>1. ParentsTakeNested
  BY FlatTakesNested
<1>2. Init => ShownInvariant
  BY PlacementInit, HomeInit, ShownInit DEF ShownInvariant
<1>3. ASSUME ShownInvariant, [Next]_vars PROVE ShownInvariant'
  <2>1. PlacementInvariant' /\ HomeInvariant'
    BY <1>1, <1>3, PlacementStep, HomeStep DEF ShownInvariant
  <2>2. LoadedShown'
    BY <1>3, ShownStep DEF ShownInvariant, PlacementInvariant, HomeInvariant
  <2>3. QED
    BY <2>1, <2>2 DEF ShownInvariant
<1>4. QED
  BY <1>2, <1>3

\* If no backend is nested in another one and loading never fails, after kdbGet()
\* ks represents the files that are there, and what was known of those that are not,
\* but for the application's own changes.
THEOREM GetRepresentsFiles ==
    ASSUME "get" \notin Faults, MountsFlat
    PROVE  Spec => []GetShowsFiles
<1> DEFINE Inv == ShownInvariant /\ UpdateInvariant
<1>1. Inv => GetShowsFiles
  <2>1. SUFFICES ASSUME Inv, pc = "idle", NEW k \in Keys, UpToDate(Home(k)), k \notin edited
                 PROVE  LET m == Home(k)
                        IN  ks[k] = IF disk[m] # Empty THEN disk[m][k] ELSE base[m][k]
    BY DEF GetShowsFiles
  <2>2. disk[Home(k)] # Empty => disk[Home(k)] = base[Home(k)]
    BY <2>1, HomeAbove DEF UpToDate, UpdateInvariant, CurrentLoaded
  <2>3. ks[k] = base[Home(k)][k]
    BY <2>1 DEF ShownInvariant, LoadedShown
  <2>4. QED
    BY <2>2, <2>3
<1>2. Init => Inv
  BY ShownInductive, UpdateInit
<1>3. Inv /\ [Next]_vars => Inv'
  BY ShownInductive, UpdateStep DEF ShownInvariant
<1> HIDE DEF Inv
<1>4. QED
  BY <1>1, <1>2, <1>3, PTL DEF Spec

\* If no backend is nested in another one, kdbSet() stores nothing but the changes
\* of the application, whichever backends take part and whatever fails.
THEOREM OnlyChangesStored ==
    ASSUME MountsFlat
    PROVE  Spec => OnlyEditsStored
<1> DEFINE Step == stored' \ stored # {} =>
                     \A k \in Keys : base'[Home(k)][k] # base[Home(k)][k] => k \in edited
<1>1. ShownInvariant /\ [Next]_vars => [Step]_vars
  <2>1. SUFFICES ASSUME ShownInvariant, Next, stored' \ stored # {}, NEW k \in Keys,
                        base'[Home(k)][k] # base[Home(k)][k]
                 PROVE  k \in edited
    OBVIOUS
  <2>2. TypeOK /\ PartOfKs /\ LoadedShown
    BY <2>1 DEF ShownInvariant, PlacementInvariant, HomeInvariant
  <2>3. PICK m \in Mounts : Commit(m)
    BY <2>1 DEF Next, Continue, Edit, Write, GetResolver, GetStorage, GetFails, SetBegin,
        SetResolver, SetStorage, SetFails, CommitFails, SetEnd, Rollback, histVars
  <2>4. m \in backs /\ base' = [base EXCEPT ![m] = keys[m]] /\ Storing
    BY <2>3 DEF Commit, Storing
  <2>5. Home(k) = m /\ base'[m][k] = keys[m][k]
    BY <2>1, <2>2, <2>4, HomeAbove DEF TypeOK
  <2>6. keys[m][k] = ks[k]
    BY <2>2, <2>4, <2>5 DEF PartOfKs
  <2>7. QED
    BY <2>1, <2>2, <2>5, <2>6 DEF LoadedShown
<1> HIDE DEF Step
<1>2. Init => ShownInvariant
  BY ShownInductive
<1>3. ShownInvariant /\ [Next]_vars => ShownInvariant'
  BY ShownInductive
<1>4. Spec => [][Step]_vars
  BY <1>1, <1>2, <1>3, PTL DEF Spec
<1>5. QED
  BY <1>4 DEF OnlyEditsStored, Step
=============================================================================
