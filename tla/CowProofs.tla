------------------------------ MODULE CowProofs ------------------------------
(***************************************************************************)
(* Proofs about the calls of Cow on single keys, from any heap in order,   *)
(* with any number of keys and key sets in it.  The calls on key sets walk *)
(* through arrays with folds, and are left to TLC.                         *)
(*                                                                         *)
(* First the memory for one kind of objects, with the pointers of the keys *)
(* to them, then the heap, then the calls.                                 *)
(***************************************************************************)
EXTENDS Cow, FiniteSetTheorems, WellFoundedInduction, TLAPS

\* Min(), by which the model chooses free memory, is defined for what is not empty.
LEMMA LeastNumber ==
    ASSUME NEW S, S \subseteq Nat, S # {}
    PROVE  Min(S) \in S
<1> DEFINE less == {p \in Nat \X Nat : p[1] < p[2]}
<1>1. IsWellFoundedOn(less, Nat)
  BY NatLessThanWellFounded DEF OpToRel
<1> HIDE DEF less
<1>2. PICK x \in S : \A y \in S : ~(<<y, x>> \in less)
  BY <1>1, WFMin
<1>3. ASSUME NEW y \in S PROVE x <= y
  <2>1. x \in Nat /\ y \in Nat /\ ~(<<y, x>> \in less)
    BY <1>2
  <2>2. y < x => <<y, x>> \in less
    BY <2>1 DEF less
  <2>3. QED
    BY <2>1, <2>2
<1>4. QED
  BY <1>2, <1>3 DEF Min

-----------------------------------------------------------------------------
(***************************************************************************)
(* One kind of shared objects, the memory m for it, and the pointers p of  *)
(* the keys.                                                               *)
(***************************************************************************)

Pointers == Cells \union {Null}
Memory(vals) == [Cells -> [refs : 0 .. MaxRefs, val : vals \union {Null}]]

Users(p, c) == {k \in Keys : p[k] = c}

\* Every object has as many users as it counts, but for one more that keyCopy()
\* counts for x, and is freed if there is none.
Counted(m, p, x) ==
    \A c \in Cells : /\ m[c].refs = Cardinality(Users(p, c)) + (IF c = x THEN 1 ELSE 0)
                     /\ m[c].val = Null <=> m[c].refs = 0

\* What a key sees.
Seen(m, c) == IF c = Null THEN Null ELSE m[c].val

Increased(m, o) ==
    IF o = Null \/ m[o].refs = MaxRefs THEN m
    ELSE [m EXCEPT ![o] = [refs |-> m[o].refs + 1, val |-> m[o].val]]
Released(m, o) ==
    IF o = Null THEN m
    ELSE IF m[o].refs <= 1 THEN [m EXCEPT ![o] = Freed]
    ELSE [m EXCEPT ![o] = [refs |-> m[o].refs - 1, val |-> m[o].val]]

Stored(m, o, refs, v) == [m EXCEPT ![o] = [refs |-> refs, val |-> v]]
Redirected(p, k, o) == [p EXCEPT ![k] = o]

\* An object has a number of users.
LEMMA UsersFinite ==
    ASSUME NEW p, NEW c
    PROVE  IsFiniteSet(Users(p, c)) /\ Cardinality(Users(p, c)) \in Nat
<1>1. IsFiniteSet(Keys)
  <2>1. MaxKeys \in Nat
    BY CowAssumption
  <2>2. QED
    BY <2>1, FS_Interval DEF Keys
<1>2. Users(p, c) \in SUBSET Keys
  BY DEF Users
<1>3. QED
  BY <1>1, <1>2, FS_Subset, FS_CardinalityType

\* A pointer that moves is counted at its new place, and no longer at its old one.
LEMMA UsersMove ==
    ASSUME NEW p \in [Keys -> Pointers], NEW k \in Keys, NEW o \in Pointers, NEW c \in Cells,
           NEW q \in [Keys -> Pointers], \A l \in Keys : q[l] = IF l = k THEN o ELSE p[l]
    PROVE  Cardinality(Users(q, c)) =
             Cardinality(Users(p, c)) + (IF c = o THEN 1 ELSE 0) - (IF c = p[k] THEN 1 ELSE 0)
<1> DEFINE rest == Users(p, c) \ {k}
<1>1. IsFiniteSet(rest) /\ Cardinality(rest) = Cardinality(Users(p, c)) - (IF c = p[k] THEN 1 ELSE 0)
  <2>1. IsFiniteSet(Users(p, c)) /\ (k \in Users(p, c) <=> c = p[k])
    BY UsersFinite DEF Users
  <2>2. QED
    BY <2>1, UsersFinite, FS_RemoveElement
<1>2. Users(q, c) = IF c = o THEN rest \union {k} ELSE rest
  BY DEF Users
<1>3. k \notin rest
  OBVIOUS
<1>4. Cardinality(rest) \in Nat
  BY <1>1, FS_CardinalityType
<1> HIDE DEF rest
<1>5. Cardinality(Users(q, c)) = Cardinality(rest) + (IF c = o THEN 1 ELSE 0)
  <2>1. Cardinality(rest \union {k}) = Cardinality(rest) + 1
    BY <1>1, <1>3, FS_AddElement
  <2>2. QED
    BY <1>2, <1>4, <2>1
<1>6. QED
  BY <1>1, <1>4, <1>5, UsersFinite

\* There is an object that no key uses.
LEMMA CellFree ==
    ASSUME NEW p \in [Keys -> Pointers]
    PROVE  \E c \in Cells : Users(p, c) = {}
<1> SUFFICES ASSUME \A c \in Cells : \E k \in Keys : p[k] = c PROVE FALSE
  BY DEF Users
<1> DEFINE f == [c \in Cells |-> CHOOSE k \in Keys : p[k] = c]
<1>1. IsFiniteSet(Keys) /\ Cardinality(Keys) = MaxKeys
  BY CowAssumption, FS_Interval DEF Keys
<1>2. IsFiniteSet(Cells) /\ Cardinality(Cells) = MaxKeys + 1
  BY CowAssumption, FS_Interval DEF Cells
<1>3. \A c \in Cells : f[c] \in Keys /\ p[f[c]] = c
  OBVIOUS
<1>4. f \in [Cells -> Keys]
  BY <1>3
<1> HIDE DEF f
<1>5. \E x, y \in Cells : x # y /\ f[x] = f[y]
  BY <1>1, <1>2, <1>4, CowAssumption, FS_PigeonHole
<1>6. QED
  BY <1>3, <1>5

-----------------------------------------------------------------------------
\* keyCopy() counts once more what the destination has ...
LEMMA CountedMore ==
    ASSUME NEW vals, NEW m \in Memory(vals), NEW p \in [Keys -> Pointers], NEW x \in Pointers,
           Counted(m, p, Null), x # Null => m[x].val # Null /\ m[x].refs < MaxRefs
    PROVE  /\ Increased(m, x) \in Memory(vals) /\ Counted(Increased(m, x), p, x)
           /\ \A c \in Cells : Increased(m, x)[c].val = m[c].val
<1> USE DEF Increased
<1>0. \A c \in Cells : c # Null /\ Cardinality(Users(p, c)) \in Nat
  BY CowAssumption, UsersFinite
<1>1. CASE x = Null
  BY <1>1
<1>2. CASE x \in Cells
  <2>1. Increased(m, x) = [m EXCEPT ![x] = [refs |-> m[x].refs + 1, val |-> m[x].val]]
    BY <1>0, <1>2 DEF Memory
  <2>2. \A c \in Cells : /\ Increased(m, x)[c].val = m[c].val
                         /\ Increased(m, x)[c].refs = m[c].refs + (IF c = x THEN 1 ELSE 0)
    BY <1>2, <2>1 DEF Memory
  <2>3. Increased(m, x) \in Memory(vals)
    BY <1>0, <1>2, <2>1, CowAssumption DEF Memory
  <2>4. Counted(Increased(m, x), p, x)
    <3> HIDE DEF Increased
    <3> QED
      BY <1>0, <1>2, <2>2 DEF Counted, Memory
  <2>5. QED
    BY <2>2, <2>3, <2>4
<1>3. QED
  BY <1>1, <1>2 DEF Pointers

\* ... and gives it back.
LEMMA CountedLess ==
    ASSUME NEW vals, NEW m \in Memory(vals), NEW p \in [Keys -> Pointers], NEW x \in Pointers,
           Counted(m, p, x)
    PROVE  /\ Released(m, x) \in Memory(vals) /\ Counted(Released(m, x), p, Null)
           /\ \A k \in Keys : Seen(Released(m, x), p[k]) = Seen(m, p[k])
<1>0. \A c \in Cells : c # Null /\ Cardinality(Users(p, c)) \in Nat
  BY CowAssumption, UsersFinite
<1>1. CASE x = Null
  BY <1>1 DEF Released
<1>2. CASE x \in Cells
  <2>0. m[x].refs = Cardinality(Users(p, x)) + 1 /\ m[x].refs \in Nat
    BY <1>0, <1>2 DEF Counted
  <2>1. CASE m[x].refs <= 1
    <3>1. Released(m, x) = [m EXCEPT ![x] = [refs |-> 0, val |-> Null]]
      BY <1>0, <1>2, <2>1 DEF Released, Freed
    <3>2. Released(m, x) \in Memory(vals)
      BY <1>2, <3>1, CowAssumption DEF Memory
    <3>3. \A c \in Cells \ {x} : Released(m, x)[c] = m[c]
      BY <1>2, <3>1 DEF Memory
    <3>4. Released(m, x)[x].refs = 0 /\ Released(m, x)[x].val = Null
      BY <1>2, <3>1 DEF Memory
    <3>5. Cardinality(Users(p, x)) = 0
      BY <1>0, <1>2, <2>0, <2>1
    <3>6. Users(p, x) = {}
      BY <3>5, UsersFinite, FS_EmptySet
    <3>7. \A k \in Keys : Seen(Released(m, x), p[k]) = Seen(m, p[k])
      BY <3>3, <3>6 DEF Seen, Users, Pointers
    <3>8. Counted(Released(m, x), p, Null)
      BY <1>0, <1>2, <3>3, <3>4, <3>5 DEF Counted
    <3>9. QED
      BY <3>2, <3>7, <3>8
  <2>2. CASE m[x].refs > 1
    <3>1. Released(m, x) = [m EXCEPT ![x] = [refs |-> m[x].refs - 1, val |-> m[x].val]]
      BY <1>0, <1>2, <2>0, <2>2 DEF Released, Memory
    <3>2. Released(m, x) \in Memory(vals)
      BY <1>2, <2>0, <2>2, <3>1, CowAssumption DEF Memory
    <3>3. \A c \in Cells : /\ Released(m, x)[c].val = m[c].val
                           /\ Released(m, x)[c].refs = m[c].refs - (IF c = x THEN 1 ELSE 0)
      BY <1>2, <3>1 DEF Memory
    <3>4. Counted(Released(m, x), p, Null)
      BY <1>0, <1>2, <2>0, <2>2, <3>3 DEF Counted
    <3>5. \A k \in Keys : Seen(Released(m, x), p[k]) = Seen(m, p[k])
      BY <3>3 DEF Seen, Pointers
    <3>6. QED
      BY <3>2, <3>4, <3>5
  <2>3. QED
    BY <2>0, <2>1, <2>2
<1>3. QED
  BY <1>1, <1>2 DEF Pointers

\* A key lets go of its object.
LEMMA PointerDropped ==
    ASSUME NEW vals, NEW m \in Memory(vals), NEW p \in [Keys -> Pointers], NEW k \in Keys,
           Counted(m, p, Null)
    PROVE  LET q == Redirected(p, k, Null)
           IN  /\ Released(m, p[k]) \in Memory(vals) /\ Counted(Released(m, p[k]), q, Null)
               /\ \A l \in Keys \ {k} : Seen(Released(m, p[k]), p[l]) = Seen(m, p[l])
<1> DEFINE q == [p EXCEPT ![k] = Null]
<1>1. q \in [Keys -> Pointers] /\ p[k] \in Pointers /\ \A l \in Keys \ {k} : q[l] = p[l]
  BY DEF Pointers
<1>2. \A c \in Cells : /\ c # Null /\ Cardinality(Users(p, c)) \in Nat
                       /\ Cardinality(Users(q, c)) \in Nat
                       /\ Cardinality(Users(q, c)) =
                            Cardinality(Users(p, c)) - (IF c = p[k] THEN 1 ELSE 0)
  <2>0. \A l \in Keys : q[l] = IF l = k THEN Null ELSE p[l]
    OBVIOUS
  <2> HIDE DEF q
  <2>1. \A c \in Cells : c # Null
    BY CowAssumption
  <2>2. \A c \in Cells : Cardinality(Users(q, c)) =
             Cardinality(Users(p, c)) + (IF c = Null THEN 1 ELSE 0) - (IF c = p[k] THEN 1 ELSE 0)
    BY <1>1, <2>0, UsersMove DEF Pointers
  <2>3. QED
    BY <2>1, <2>2, UsersFinite
<1> HIDE DEF q
<1>3. Counted(m, q, p[k])
  BY <1>2 DEF Counted
<1>4. /\ Released(m, p[k]) \in Memory(vals) /\ Counted(Released(m, p[k]), q, Null)
      /\ \A l \in Keys : Seen(Released(m, p[k]), q[l]) = Seen(m, q[l])
  BY <1>1, <1>3, CountedLess
<1>5. QED
  BY <1>1, <1>4 DEF q, Redirected

\* The destination of keyCopy(), whose object x is counted once more, gets the
\* source's object.
LEMMA PointerCopied ==
    ASSUME NEW vals, NEW m \in Memory(vals), NEW p \in [Keys -> Pointers],
           NEW dest \in Keys, NEW source \in Keys, Counted(m, p, p[dest]),
           p[source] \notin {Null, p[dest]} => m[p[source]].refs < MaxRefs
    PROVE  LET n == Increased(Released(m, p[dest]), p[source])
               q == Redirected(p, dest, p[source])
           IN  /\ n \in Memory(vals) /\ Counted(n, q, p[dest])
               /\ \A c \in Cells : n[c].val = m[c].val
<1> DEFINE x == p[dest]
           s == p[source]
           d == Released(m, x)
           n == Increased(d, s)
           q == [p EXCEPT ![dest] = s]
<1>0. x \in Pointers /\ s \in Pointers /\ q \in [Keys -> Pointers]
  OBVIOUS
<1>1. \A c \in Cells : /\ c # Null /\ Cardinality(Users(p, c)) \in Nat
                       /\ m[c].refs \in Nat /\ m[c].refs <= MaxRefs
  BY CowAssumption, UsersFinite DEF Memory
<1>2. \A c \in Cells : Cardinality(Users(q, c)) =
           Cardinality(Users(p, c)) + (IF c = s THEN 1 ELSE 0) - (IF c = x THEN 1 ELSE 0)
  <2>1. \A l \in Keys : q[l] = IF l = dest THEN s ELSE p[l]
    OBVIOUS
  <2> HIDE DEF q, s
  <2>2. QED
    BY <1>0, <2>1, UsersMove DEF x
<1>3. \A k \in Keys : p[k] # Null => p[k] \in Cells /\ Cardinality(Users(p, p[k])) > 0
  <2> SUFFICES ASSUME NEW k \in Keys, p[k] # Null, Cardinality(Users(p, p[k])) = 0 PROVE FALSE
    BY <1>1 DEF Pointers
  <2>1. Users(p, p[k]) = {}
    BY UsersFinite, FS_EmptySet
  <2>2. QED
    BY <2>1 DEF Users
<1> HIDE DEF q
<1>4. /\ d \in Memory(vals)
      /\ \A c \in Cells : /\ d[c].val = m[c].val
                           /\ d[c].refs = m[c].refs - (IF c = x THEN 1 ELSE 0)
  <2>1. CASE x = Null
    BY <1>1, <2>1 DEF Released
  <2>2. CASE x # Null
    <3>1. x \in Cells /\ m[x].refs > 1
      BY <1>1, <1>3, <2>2 DEF Counted
    <3>2. d = [m EXCEPT ![x] = [refs |-> m[x].refs - 1, val |-> m[x].val]]
      BY <1>1, <2>2, <3>1 DEF Released
    <3> HIDE DEF d, x
    <3>3. m[x].refs - 1 \in 0 .. MaxRefs
      BY <1>1, <3>1, CowAssumption
    <3>4. d \in Memory(vals)
      BY <3>1, <3>2, <3>3 DEF Memory
    <3>5. \A c \in Cells \ {x} : d[c] = m[c]
      BY <3>1, <3>2 DEF Memory
    <3>6. d[x].val = m[x].val /\ d[x].refs = m[x].refs - 1
      BY <3>1, <3>2 DEF Memory
    <3>7. QED
      BY <1>1, <3>4, <3>5, <3>6
  <2>3. QED
    BY <2>1, <2>2
<1> HIDE DEF d
<1>5. /\ n \in Memory(vals)
      /\ \A c \in Cells : /\ n[c].val = m[c].val
                           /\ n[c].refs = m[c].refs - (IF c = x THEN 1 ELSE 0)
                                                    + (IF c = s THEN 1 ELSE 0)
  <2>1. CASE s = Null
    BY <1>1, <1>4, <2>1 DEF Increased
  <2>2. CASE s # Null
    <3>1. s \in Cells /\ d[s].refs < MaxRefs /\ d[s].refs \in Nat
      <4>1. s \in Cells /\ m[s].refs \in Nat /\ m[s].refs <= MaxRefs
        BY <1>1, <1>3, <2>2
      <4>2. s # x => m[s].refs < MaxRefs
        BY <2>2
      <4>3. d[s].refs = m[s].refs - (IF s = x THEN 1 ELSE 0) /\ d[s].refs \in 0 .. MaxRefs
        BY <1>4, <4>1 DEF Memory
      <4> HIDE DEF s, x
      <4>4. QED
        BY <4>1, <4>2, <4>3, CowAssumption
    <3>2. n = [d EXCEPT ![s] = [refs |-> d[s].refs + 1, val |-> d[s].val]]
      BY <1>1, <2>2, <3>1 DEF Increased
    <3> HIDE DEF n, s, x
    <3>3. n \in Memory(vals)
      BY <1>4, <3>1, <3>2, CowAssumption DEF Memory
    <3>4. QED
      BY <1>1, <1>4, <3>1, <3>2, <3>3 DEF Memory
  <2>3. QED
    BY <2>1, <2>2
<1> HIDE DEF n
<1>6. Counted(n, q, x)
  <2>1. ASSUME NEW c \in Cells
        PROVE  n[c].refs = Cardinality(Users(q, c)) + (IF c = x THEN 1 ELSE 0)
    BY <1>1, <1>2, <1>5 DEF Counted
  <2>2. ASSUME NEW c \in Cells PROVE n[c].val = Null <=> n[c].refs = 0
    <3>1. m[c].val = Null <=> m[c].refs = 0
      BY DEF Counted
    <3>2. c = x => m[c].refs > 1
      BY <1>1, <1>3 DEF Counted
    <3>3. c = s => m[c].refs > 0
      BY <1>1, <1>3 DEF Counted
    <3>4. /\ m[c].refs \in Nat
          /\ n[c].val = m[c].val
          /\ n[c].refs = m[c].refs - (IF c = x THEN 1 ELSE 0) + (IF c = s THEN 1 ELSE 0)
      BY <1>1, <1>5
    <3> HIDE DEF s, x
    <3>5. QED
      BY <3>1, <3>2, <3>3, <3>4
  <2>3. QED
    BY <2>1, <2>2 DEF Counted
<1>7. QED
  BY <1>5, <1>6 DEF n, q, d, Redirected

\* A key writes to its object, which nobody else uses, ...
LEMMA ObjectWritten ==
    ASSUME NEW vals, NEW m \in Memory(vals), NEW p \in [Keys -> Pointers], NEW k \in Keys,
           NEW v \in vals, v # Null, Counted(m, p, Null), p[k] # Null, m[p[k]].refs <= 1
    PROVE  LET n == Stored(m, p[k], m[p[k]].refs, v)
           IN  /\ n \in Memory(vals) /\ Counted(n, p, Null)
               /\ \A l \in Keys : Seen(n, p[l]) = IF l = k THEN v ELSE Seen(m, p[l])
<1> DEFINE o == p[k]
           n == [m EXCEPT ![o] = [refs |-> m[o].refs, val |-> v]]
<1>1. o \in Cells /\ o # Null
  BY DEF Pointers
<1>2. n \in Memory(vals)
  BY <1>1 DEF Memory
<1>3. \A c \in Cells : n[c].refs = m[c].refs /\ n[c].val = IF c = o THEN v ELSE m[c].val
  BY <1>1 DEF Memory
<1>4. ASSUME NEW l \in Keys, p[l] = o PROVE l = k
  <2>1. IsFiniteSet(Users(p, o)) /\ Cardinality(Users(p, o)) <= 1
        /\ Cardinality(Users(p, o)) \in Nat
    BY <1>1, UsersFinite DEF Counted
  <2>2. IsFiniteSet(Users(p, o) \ {k}) /\ Cardinality(Users(p, o) \ {k}) =
          Cardinality(Users(p, o)) - 1
    BY <2>1, FS_RemoveElement DEF Users
  <2>3. Cardinality(Users(p, o) \ {k}) = 0
    BY <2>1, <2>2, FS_CardinalityType
  <2>4. Users(p, o) \ {k} = {}
    BY <2>2, <2>3, FS_EmptySet
  <2>5. QED
    BY <1>4, <2>4 DEF Users
<1> HIDE DEF n
<1>5. \A l \in Keys : Seen(n, p[l]) = IF l = k THEN v ELSE Seen(m, p[l])
  BY <1>1, <1>3, <1>4 DEF Seen, Pointers
<1>6. m[o].refs # 0
  <2>1. k \in Users(p, o)
    BY DEF Users
  <2>2. Cardinality(Users(p, o)) # 0
    BY <2>1, UsersFinite, FS_EmptySet
  <2>3. QED
    BY <1>1, <2>2, UsersFinite DEF Counted
<1>7. Counted(n, p, Null)
  BY <1>1, <1>3, <1>6 DEF Counted
<1>8. QED
  BY <1>2, <1>5, <1>7 DEF n, Stored

\* ... or gets one of its own.
LEMMA ObjectDetached ==
    ASSUME NEW vals, NEW m \in Memory(vals), NEW p \in [Keys -> Pointers], NEW k \in Keys,
           NEW v \in vals, v # Null, Counted(m, p, Null), MaxRefs > 0,
           p[k] # Null => m[p[k]].refs > 1,
           NEW new \in Cells, Released(m, p[k])[new].val = Null
    PROVE  LET n == Stored(Released(m, p[k]), new, 1, v)
               q == Redirected(p, k, new)
           IN  /\ n \in Memory(vals) /\ Counted(n, q, Null)
               /\ \A l \in Keys : Seen(n, q[l]) = IF l = k THEN v ELSE Seen(m, p[l])
               /\ \A c \in Cells : n[c].refs <= m[c].refs \/ n[c].refs = 1
<1> DEFINE o == p[k]
           d == Released(m, o)
           n == [d EXCEPT ![new] = [refs |-> 1, val |-> v]]
           q == [p EXCEPT ![k] = new]
<1>0. /\ o \in Pointers /\ new # Null /\ new \in Pointers /\ q \in [Keys -> Pointers]
      /\ \A l \in Keys : q[l] = IF l = k THEN new ELSE p[l]
  BY CowAssumption DEF Pointers
<1>1. \A c \in Cells : /\ c # Null /\ Cardinality(Users(p, c)) \in Nat
                       /\ m[c].refs \in Nat /\ m[c].refs <= MaxRefs
  BY CowAssumption, UsersFinite DEF Memory
<1>2. \A c \in Cells : Cardinality(Users(q, c)) =
           Cardinality(Users(p, c)) + (IF c = new THEN 1 ELSE 0) - (IF c = o THEN 1 ELSE 0)
  <2> HIDE DEF q
  <2> QED
    BY <1>0, UsersMove
<1> HIDE DEF q
<1>3. /\ d \in Memory(vals)
      /\ \A c \in Cells : /\ d[c].val = m[c].val
                           /\ d[c].refs = m[c].refs - (IF c = o THEN 1 ELSE 0)
  <2>1. CASE o = Null
    BY <1>1, <2>1 DEF Released
  <2>2. CASE o # Null
    <3>1. o \in Cells /\ m[o].refs > 1
      BY <1>0, <2>2 DEF Pointers
    <3>2. d = [m EXCEPT ![o] = [refs |-> m[o].refs - 1, val |-> m[o].val]]
      BY <1>1, <2>2, <3>1 DEF Released
    <3> HIDE DEF d, o
    <3>3. m[o].refs - 1 \in 0 .. MaxRefs
      BY <1>1, <3>1, CowAssumption
    <3>4. d \in Memory(vals)
      BY <3>1, <3>2, <3>3 DEF Memory
    <3>5. \A c \in Cells \ {o} : d[c] = m[c]
      BY <3>1, <3>2 DEF Memory
    <3>6. d[o].val = m[o].val /\ d[o].refs = m[o].refs - 1
      BY <3>1, <3>2 DEF Memory
    <3>7. QED
      BY <1>1, <3>4, <3>5, <3>6
  <2>3. QED
    BY <2>1, <2>2
<1>4. m[new].val = Null /\ m[new].refs = 0 /\ Cardinality(Users(p, new)) = 0 /\ new # o
  <2>1. m[new].val = Null
    BY <1>3
  <2>2. m[new].refs = 0 /\ Cardinality(Users(p, new)) = 0
    BY <1>1, <2>1 DEF Counted
  <2>3. QED
    BY <1>0, <2>1, <2>2
<1> HIDE DEF d, o
<1>5. /\ n \in Memory(vals)
      /\ \A c \in Cells : n[c] = IF c = new THEN [refs |-> 1, val |-> v] ELSE d[c]
  BY <1>3, CowAssumption DEF Memory
<1> HIDE DEF n
<1>6. ASSUME NEW c \in Cells
      PROVE  n[c].refs = Cardinality(Users(q, c)) /\ (n[c].val = Null <=> n[c].refs = 0)
  <2>1. CASE c = new
    BY <1>1, <1>2, <1>4, <1>5, <2>1
  <2>2. CASE c # new
    <3>1. /\ n[c].val = m[c].val /\ n[c].refs = m[c].refs - (IF c = o THEN 1 ELSE 0)
          /\ Cardinality(Users(q, c)) = Cardinality(Users(p, c)) - (IF c = o THEN 1 ELSE 0)
      BY <1>1, <1>2, <1>3, <1>5, <2>2
    <3>2. c = o => m[c].refs > 1
      BY <1>1 DEF o
    <3>3. m[c].refs = Cardinality(Users(p, c)) /\ (m[c].val = Null <=> m[c].refs = 0)
      BY <1>1 DEF Counted
    <3>4. QED
      BY <1>1, <3>1, <3>2, <3>3
  <2>3. QED
    BY <2>1, <2>2
<1>7. Counted(n, q, Null)
  BY <1>1, <1>6, UsersFinite DEF Counted
<1>8. ASSUME NEW l \in Keys PROVE Seen(n, q[l]) = IF l = k THEN v ELSE Seen(m, p[l])
  <2>1. CASE l = k
    BY <1>0, <1>5, <2>1 DEF Seen
  <2>2. CASE l # k /\ p[l] = Null
    BY <1>0, <2>2 DEF Seen
  <2>3. CASE l # k /\ p[l] # Null
    <3>1. p[l] \in Cells /\ l \in Users(p, p[l])
      BY <2>3 DEF Pointers, Users
    <3>2. Cardinality(Users(p, p[l])) # 0
      BY <3>1, UsersFinite, FS_EmptySet
    <3>3. p[l] # new
      BY <1>4, <3>2
    <3>4. QED
      BY <1>0, <1>3, <1>5, <2>3, <3>1, <3>3 DEF Seen
  <2>4. QED
    BY <2>1, <2>2, <2>3
<1>9. \A c \in Cells : n[c].refs <= m[c].refs \/ n[c].refs = 1
  BY <1>1, <1>3, <1>5
<1>10. QED
  BY <1>5, <1>7, <1>8, <1>9 DEF n, q, d, o, Stored, Redirected

\* keyCopy() for a part that is copied, ...
LEMMA PartCopied ==
    ASSUME NEW vals, NEW m \in Memory(vals), NEW p \in [Keys -> Pointers],
           NEW dest \in Keys, NEW source \in Keys, Counted(m, p, Null),
           \A c \in Cells : m[c].refs < MaxRefs
    PROVE  LET kept == Increased(m, p[dest])
               n == Increased(Released(kept, p[dest]), p[source])
               r == Released(n, p[dest])
               q == Redirected(p, dest, p[source])
           IN  /\ kept \in Memory(vals) /\ Released(kept, p[dest]) \in Memory(vals)
               /\ n \in Memory(vals) /\ r \in Memory(vals) /\ Counted(r, q, Null)
               /\ \A l \in Keys : Seen(r, q[l]) = Seen(m, IF l = dest THEN p[source] ELSE p[l])
<1> DEFINE x == p[dest]
           kept == Increased(m, x)
           n == Increased(Released(kept, x), p[source])
           r == Released(n, x)
           q == Redirected(p, dest, p[source])
<1>0. /\ x \in Pointers /\ p[source] \in Pointers /\ q \in [Keys -> Pointers]
      /\ \A l \in Keys : q[l] = IF l = dest THEN p[source] ELSE p[l]
  BY DEF Redirected
<1>1. x # Null => m[x].val # Null
  <2> SUFFICES ASSUME x # Null PROVE m[x].val # Null
    OBVIOUS
  <2>1. x \in Cells /\ dest \in Users(p, x)
    BY DEF Pointers, Users
  <2>2. Cardinality(Users(p, x)) # 0
    BY <2>1, UsersFinite, FS_EmptySet
  <2>3. QED
    BY <2>1, <2>2, UsersFinite, CowAssumption DEF Counted
<1>2. x # Null => m[x].refs < MaxRefs
  BY DEF Pointers
<1>3. /\ kept \in Memory(vals) /\ Counted(kept, p, x)
      /\ \A c \in Cells : kept[c].val = m[c].val
  BY <1>0, <1>1, <1>2, CountedMore
<1>4. p[source] \notin {Null, x} => kept[p[source]].refs < MaxRefs
  BY <1>0 DEF Increased, Memory, Pointers
<1>5. Released(kept, x) \in Memory(vals)
  BY <1>0, <1>3, CountedLess
<1> HIDE DEF kept
<1>6. n \in Memory(vals) /\ Counted(n, q, x) /\ \A c \in Cells : n[c].val = kept[c].val
  BY <1>3, <1>4, PointerCopied
<1> HIDE DEF n, q
<1>7. /\ r \in Memory(vals) /\ Counted(r, q, Null)
      /\ \A l \in Keys : Seen(r, q[l]) = Seen(n, q[l])
  BY <1>0, <1>6, CountedLess
<1> HIDE DEF r
<1>8. ASSUME NEW l \in Keys
      PROVE  Seen(r, q[l]) = Seen(m, IF l = dest THEN p[source] ELSE p[l])
  <2>1. \A c \in Cells : n[c].val = m[c].val
    BY <1>3, <1>6
  <2>2. Seen(n, q[l]) = Seen(m, q[l])
    BY <1>0, <2>1 DEF Seen, Pointers
  <2>3. QED
    BY <1>0, <1>7, <2>2
<1>9. QED
  BY <1>3, <1>5, <1>6, <1>7, <1>8 DEF kept, n, r, q, x

\* ... and for one that is not.
LEMMA PartKept ==
    ASSUME NEW vals, NEW m \in Memory(vals), NEW p \in [Keys -> Pointers],
           NEW dest \in Keys, Counted(m, p, Null), \A c \in Cells : m[c].refs < MaxRefs
    PROVE  LET kept == Increased(m, p[dest])
               r == Released(kept, p[dest])
           IN  /\ kept \in Memory(vals) /\ r \in Memory(vals) /\ Counted(r, p, Null)
               /\ \A l \in Keys : Seen(r, p[l]) = Seen(m, p[l])
<1> DEFINE x == p[dest]
           kept == Increased(m, x)
           r == Released(kept, x)
<1>1. x \in Pointers /\ (x # Null => m[x].refs < MaxRefs)
  BY DEF Pointers
<1>2. x # Null => m[x].val # Null
  <2> SUFFICES ASSUME x # Null PROVE m[x].val # Null
    OBVIOUS
  <2>1. x \in Cells /\ dest \in Users(p, x)
    BY DEF Pointers, Users
  <2>2. Cardinality(Users(p, x)) # 0
    BY <2>1, UsersFinite, FS_EmptySet
  <2>3. QED
    BY <2>1, <2>2, UsersFinite, CowAssumption DEF Counted
<1>3. /\ kept \in Memory(vals) /\ Counted(kept, p, x)
      /\ \A c \in Cells : kept[c].val = m[c].val
  BY <1>1, <1>2, CountedMore
<1> HIDE DEF kept
<1>4. /\ r \in Memory(vals) /\ Counted(r, p, Null)
      /\ \A l \in Keys : Seen(r, p[l]) = Seen(kept, p[l])
  BY <1>1, <1>3, CountedLess
<1> HIDE DEF r
<1>5. \A l \in Keys : Seen(r, p[l]) = Seen(m, p[l])
  BY <1>3, <1>4 DEF Seen, Pointers
<1>6. QED
  BY <1>3, <1>4, <1>5 DEF kept, r, x

-----------------------------------------------------------------------------
(***************************************************************************)
(* The whole heap.  kind is the name of a part of keys and of the memory   *)
(* for it.                                                                 *)
(***************************************************************************)

Parts == {"name", "data"}
Fields == {"key", "set", "name", "data", "array"}
KeyFields == {"live", "refs", "name", "data", "hasReadOnlyName"}
KeyRecord == [live : BOOLEAN, refs : 0 .. MaxRefs, name : Pointers, data : Pointers,
              hasReadOnlyName : BOOLEAN]

\* A duplicate of a key has the name "/" before it gets its own.
Vals(kind) == IF kind = "name" THEN Names \union {Slash} ELSE Values

IsHeap(h) ==
    /\ h = [f \in Fields |-> h[f]]
    /\ h.key \in [Keys -> KeyRecord]
    /\ \A kind \in Parts : h[kind] \in Memory(Vals(kind))

Pts(h, kind) == [k \in Keys |-> h.key[k][kind]]
Whole(h) == IsHeap(h) /\ \A kind \in Parts : Counted(h[kind], Pts(h, kind), Null)

\* What a key has.
Part(h, kind, k) == Seen(h[kind], h.key[k][kind])

\* The types of one part.
LEMMA HeapParts ==
    ASSUME NEW h, IsHeap(h), NEW kind \in Parts
    PROVE  /\ h[kind] \in Memory(Vals(kind)) /\ Pts(h, kind) \in [Keys -> Pointers]
           /\ \A k \in Keys : h.key[k][kind] \in Pointers /\ Pts(h, kind)[k] = h.key[k][kind]
           /\ Null \notin Vals(kind)
<1>1. \A k \in Keys : h.key[k] \in KeyRecord
  BY DEF IsHeap
<1>2. \A k \in Keys : h.key[k][kind] \in Pointers
  BY <1>1 DEF KeyRecord, Parts
<1>3. Null \notin Vals(kind)
  BY CowAssumption DEF Vals
<1>4. QED
  BY <1>2, <1>3 DEF IsHeap, Pts

\* The model's counting, on the whole heap, is counting in the memory for the part ...
LEMMA RefIncIs ==
    ASSUME NEW h, NEW vals, NEW kind \in Parts, NEW o \in Pointers, kind \in DOMAIN h,
           h = [f \in DOMAIN h |-> h[f]], h[kind] \in Memory(vals)
    PROVE  RefInc(h, kind, o) = [h EXCEPT ![kind] = Increased(h[kind], o)]
<1>1. CASE o = Null \/ h[kind][o].refs = MaxRefs
  BY <1>1 DEF RefInc, Increased
<1>2. CASE ~(o = Null \/ h[kind][o].refs = MaxRefs)
  <2>1. o \in Cells
    BY <1>2 DEF Pointers
  <2> DEFINE m == h[kind]
  <2>2. m \in Memory(vals)
    OBVIOUS
  <2>3. RefInc(h, kind, o) = [h EXCEPT ![kind] = [m EXCEPT ![o].refs = m[o].refs + 1]]
    BY <1>2 DEF RefInc
  <2>4. Increased(m, o) = [m EXCEPT ![o] = [refs |-> m[o].refs + 1, val |-> m[o].val]]
    BY <1>2 DEF Increased
  <2> HIDE DEF m
  <2>5. [m EXCEPT ![o].refs = m[o].refs + 1] = [m EXCEPT ![o] = [refs |-> m[o].refs + 1, val |-> m[o].val]]
    <3>1. m[o] = [refs |-> m[o].refs, val |-> m[o].val]
      BY <2>1, <2>2 DEF Memory
    <3>2. [m[o] EXCEPT !.refs = m[o].refs + 1] = [refs |-> m[o].refs + 1, val |-> m[o].val]
      BY <3>1
    <3>3. QED
      BY <3>2
  <2>6. QED
    BY <2>3, <2>4, <2>5 DEF m
<1>3. QED
  BY <1>1, <1>2

\* ... and so is its releasing.
LEMMA RefDecAndDelIs ==
    ASSUME NEW h, NEW vals, NEW kind \in Parts, NEW o \in Pointers, kind \in DOMAIN h,
           h = [f \in DOMAIN h |-> h[f]], h[kind] \in Memory(vals)
    PROVE  RefDecAndDel(h, kind, o) = [h EXCEPT ![kind] = Released(h[kind], o)]
<1>1. CASE o = Null
  BY <1>1 DEF RefDecAndDel, RefDec, Released
<1>2. CASE o # Null
  <2>1. o \in Cells
    BY <1>2 DEF Pointers
  <2>2. h[kind][o].refs \in 0 .. MaxRefs /\ MaxRefs \in Nat
    BY <2>1, CowAssumption DEF Memory
  <2>3. CASE h[kind][o].refs = 0
    BY <1>2, <2>1, <2>3 DEF RefDecAndDel, RefDec, Released
  <2>4. CASE h[kind][o].refs > 0
    <3> DEFINE m == h[kind]
               n == [m EXCEPT ![o] = [refs |-> m[o].refs - 1, val |-> m[o].val]]
    <3>1. m \in Memory(vals) /\ m[o].refs \in 0 .. MaxRefs /\ m[o].refs > 0
      BY <2>2, <2>4
    <3>2. RefDec(h, kind, o) = [h EXCEPT ![kind] = [m EXCEPT ![o].refs = m[o].refs - 1]]
      BY <1>2, <2>2, <2>4 DEF RefDec
    <3> HIDE DEF m
    <3>3. n = [m EXCEPT ![o].refs = m[o].refs - 1]
      BY <2>1, <3>1 DEF Memory
    <3>4. /\ n[o].refs = m[o].refs - 1
          /\ [n EXCEPT ![o] = Freed] = [m EXCEPT ![o] = Freed]
      BY <2>1, <3>1 DEF Memory
    <3>5. Released(m, o) = IF m[o].refs = 1 THEN [m EXCEPT ![o] = Freed] ELSE n
      BY <1>2, <2>2, <3>1 DEF Released
    <3> HIDE DEF n
    <3> DEFINE d == RefDec(h, kind, o)
    <3>6. d = [h EXCEPT ![kind] = n] /\ d[kind] = n
      BY <3>2, <3>3 DEF m
    <3>7. RefDecAndDel(h, kind, o) = IF n[o].refs > 0 THEN d ELSE [d EXCEPT ![kind] = [n EXCEPT ![o] = Freed]]
      BY <1>2, <3>6 DEF RefDecAndDel
    <3>8. RefDecAndDel(h, kind, o) = IF n[o].refs > 0 THEN [h EXCEPT ![kind] = n]
                                     ELSE [h EXCEPT ![kind] = [n EXCEPT ![o] = Freed]]
      <4> DEFINE z == [n EXCEPT ![o] = Freed]
      <4> HIDE DEF z, d
      <4>1. [d EXCEPT ![kind] = z] = [h EXCEPT ![kind] = z]
        BY <3>6
      <4>2. QED
        BY <3>6, <3>7, <4>1 DEF z
    <3>9. RefDecAndDel(h, kind, o) = [h EXCEPT ![kind] = Released(m, o)]
      <4>1. CASE m[o].refs = 1
        <5>1. ~(n[o].refs > 0) /\ Released(m, o) = [n EXCEPT ![o] = Freed]
          BY <3>4, <3>5, <4>1
        <5>2. QED
          BY <3>8, <5>1
      <4>2. CASE m[o].refs # 1
        <5>1. n[o].refs > 0 /\ Released(m, o) = n
          BY <2>2, <3>1, <3>4, <3>5, <4>2
        <5>2. QED
          BY <3>8, <5>1
      <4>3. QED
        BY <4>1, <4>2
    <3>10. QED
      BY <3>9 DEF m
  <2>5. QED
    BY <2>2, <2>3, <2>4
<1>3. QED
  BY <1>1, <1>2

\* Nothing but this part of this key, and the memory for it, is another one in g.
SameBut(h, g, kind, k) ==
    /\ \A f \in Fields \ {kind, "key"} : g[f] = h[f]
    /\ \A l \in Keys, fld \in KeyFields :
          (l # k \/ fld # kind) => g.key[l][fld] = h.key[l][fld]

PartSet(h, kind, m, k, o) == [h EXCEPT ![kind] = m, !.key[k][kind] = o]

\* What is true of a heap in which one key has another object.
LEMMA PartChanged ==
    ASSUME NEW h, IsHeap(h), NEW kind \in Parts, NEW m \in Memory(Vals(kind)),
           NEW k \in Keys, NEW o \in Pointers
    PROVE  LET g == PartSet(h, kind, m, k, o)
           IN  /\ IsHeap(g) /\ g[kind] = m /\ g.key[k][kind] = o /\ SameBut(h, g, kind, k)
               /\ Pts(g, kind) = Redirected(Pts(h, kind), k, o)
               /\ \A other \in Parts \ {kind} : g[other] = h[other] /\ Pts(g, other) = Pts(h, other)
<1> DEFINE K == [h.key EXCEPT ![k] = [h.key[k] EXCEPT ![kind] = o]]
           g == [h EXCEPT ![kind] = m, !.key[k][kind] = o]
<1>1. h = [f \in Fields |-> h[f]] /\ h.key \in [Keys -> KeyRecord] /\ kind \in Fields /\ kind # "key"
  BY DEF IsHeap, Parts, Fields
<1>2. g = [f \in Fields |-> IF f = kind THEN m ELSE IF f = "key" THEN K ELSE h[f]]
  <2>1. g = [h EXCEPT ![kind] = m, !["key"] = K]
    BY <1>1 DEF Fields
  <2>2. QED
    BY <1>1, <2>1 DEF Fields
<1>3. /\ K \in [Keys -> KeyRecord] /\ K[k][kind] = o
      /\ \A l \in Keys, fld \in KeyFields : (l # k \/ fld # kind) => K[l][fld] = h.key[l][fld]
  <2>1. h.key[k] \in KeyRecord
    BY <1>1
  <2>2. /\ [h.key[k] EXCEPT ![kind] = o] \in KeyRecord /\ [h.key[k] EXCEPT ![kind] = o][kind] = o
        /\ \A fld \in KeyFields \ {kind} : [h.key[k] EXCEPT ![kind] = o][fld] = h.key[k][fld]
    BY <2>1 DEF KeyRecord, Parts, KeyFields
  <2>3. QED
    BY <1>1, <2>2
<1> HIDE DEF K, g
<1>4. g[kind] = m /\ g.key = K /\ \A f \in Fields \ {kind, "key"} : g[f] = h[f]
  BY <1>1, <1>2 DEF Fields
<1>5. g = [f \in Fields |-> g[f]]
  BY <1>2
<1>6. IsHeap(g)
  <2>1. \A other \in Parts : g[other] \in Memory(Vals(other))
    BY <1>4 DEF IsHeap, Parts, Fields
  <2>2. QED
    BY <1>3, <1>4, <1>5, <2>1 DEF IsHeap
<1>7. SameBut(h, g, kind, k)
  BY <1>3, <1>4 DEF SameBut
<1>8. Pts(g, kind) = [Pts(h, kind) EXCEPT ![k] = o]
  <2>1. \A l \in Keys : K[l][kind] = IF l = k THEN o ELSE h.key[l][kind]
    BY <1>3 DEF Parts, KeyFields
  <2>2. QED
    BY <1>4, <2>1 DEF Pts
<1>9. \A other \in Parts \ {kind} : g[other] = h[other] /\ Pts(g, other) = Pts(h, other)
  BY <1>3, <1>4 DEF Pts, Parts, KeyFields, Fields
<1>10. QED
  BY <1>3, <1>4, <1>6, <1>7, <1>8, <1>9 DEF g, PartSet, Redirected

\* The memory for a new object is free: nobody points to it.
LEMMA FreshIsFree ==
    ASSUME NEW h, IsHeap(h), NEW kind \in Parts, NEW k \in Keys,
           NEW p \in [Keys -> Pointers], Counted(h[kind], p, Null)
    PROVE  Fresh(h, kind, k) \in Cells /\ h[kind][Fresh(h, kind, k)].val = Null
<1> DEFINE free == {o \in DOMAIN h[kind] : h[kind][o].val = Null}
<1>1. DOMAIN h[kind] = Cells
  BY HeapParts DEF Memory
<1>2. PICK c \in Cells : Users(p, c) = {}
  BY CellFree
<1>3. h[kind][c].val = Null
  <2>1. Cardinality(Users(p, c)) = 0
    BY <1>2, FS_EmptySet
  <2>2. c # Null
    BY CowAssumption
  <2>3. QED
    BY <2>1, <2>2 DEF Counted
<1>4. free \subseteq Nat /\ free # {}
  BY <1>1, <1>3 DEF Cells
<1>5. Min(free) \in free
  BY <1>4, LeastNumber
<1>6. Fresh(h, kind, k) \in free
  BY <1>5 DEF Fresh
<1>7. QED
  BY <1>1, <1>6

\* A key gets a name or a value of its own, and no other key sees it.
LEMMA PartWritten ==
    ASSUME NEW h, Whole(h), NEW kind \in Parts, NEW k \in Keys, NEW v \in Vals(kind), MaxRefs > 0
    PROVE  LET g == Overwrite(h, kind, k, v)
           IN  /\ Whole(g) /\ SameBut(h, g, kind, k) /\ g.key[k][kind] # Null
               /\ \A l \in Keys : Part(g, kind, l) = IF l = k THEN v ELSE Part(h, kind, l)
               /\ \A c \in Cells : g[kind][c].refs <= h[kind][c].refs \/ g[kind][c].refs = 1
<1> DEFINE m == h[kind]
           p == Pts(h, kind)
           o == h.key[k][kind]
           g == Overwrite(h, kind, k, v)
<1>1. /\ IsHeap(h) /\ m \in Memory(Vals(kind)) /\ p \in [Keys -> Pointers] /\ Counted(m, p, Null)
      /\ o = p[k] /\ o \in Pointers /\ v # Null /\ \A l \in Keys : p[l] = h.key[l][kind]
  BY HeapParts DEF Whole
<1>2. h = [f \in Fields |-> h[f]] /\ kind \in DOMAIN h /\ DOMAIN h = Fields /\ kind \in Fields
  BY <1>1 DEF IsHeap, Parts, Fields
<1>3. \A c \in Cells : c # Null /\ m[c].refs \in Nat
  BY <1>1, CowAssumption DEF Memory
<1>4. CASE o # Null /\ h[kind][o].refs <= 1
  <2> DEFINE n == [m EXCEPT ![o] = [refs |-> m[o].refs, val |-> v]]
  <2>1. /\ n \in Memory(Vals(kind)) /\ Counted(n, p, Null)
        /\ \A l \in Keys : Seen(n, p[l]) = IF l = k THEN v ELSE Seen(m, p[l])
    <3>1. p[k] # Null /\ m[p[k]].refs <= 1
      BY <1>1, <1>4
    <3> DEFINE w == Stored(m, p[k], m[p[k]].refs, v)
    <3> HIDE DEF m, p
    <3>2. /\ w \in Memory(Vals(kind)) /\ Counted(w, p, Null)
          /\ \A l \in Keys : Seen(w, p[l]) = IF l = k THEN v ELSE Seen(m, p[l])
      BY <1>1, <3>1, ObjectWritten
    <3>3. n = w
      BY <1>1 DEF Stored
    <3>4. QED
      BY <3>2, <3>3
  <2>2. \A c \in Cells : n[c].refs = m[c].refs
    BY <1>1 DEF Memory
  <2>3. g = [h EXCEPT ![kind] = n]
    <3>1. o \in Cells
      BY <1>1, <1>4 DEF Pointers
    <3>2. m[o] = [refs |-> m[o].refs, val |-> m[o].val]
      BY <1>1, <3>1 DEF Memory
    <3>3. [m[o] EXCEPT !.val = v] = [refs |-> m[o].refs, val |-> v]
      <4> HIDE DEF m, o
      <4> QED
        BY <3>2
    <3>4. g = [h EXCEPT ![kind] = [m EXCEPT ![o] = [m[o] EXCEPT !.val = v]]]
      BY <1>4 DEF Overwrite
    <3>5. QED
      BY <3>3, <3>4
  <2> HIDE DEF n
  <2>4. g = [h EXCEPT ![kind] = n, !.key[k][kind] = o]
    <3>1. [h.key[k] EXCEPT ![kind] = o] = h.key[k]
      BY <1>1 DEF IsHeap, KeyRecord, Parts
    <3>2. [h.key EXCEPT ![k] = [h.key[k] EXCEPT ![kind] = o]] = h.key
      BY <1>1, <3>1 DEF IsHeap
    <3>3. g = [h EXCEPT ![kind] = n, !.key = h.key]
      BY <1>2, <2>3 DEF Parts, Fields
    <3>4. QED
      BY <1>2, <2>3, <3>2, <3>3 DEF Parts, Fields
  <2> HIDE DEF g
  <2>5. /\ IsHeap(g) /\ g[kind] = n /\ g.key[k][kind] = o /\ SameBut(h, g, kind, k)
        /\ Pts(g, kind) = [p EXCEPT ![k] = o]
        /\ \A other \in Parts \ {kind} : g[other] = h[other] /\ Pts(g, other) = Pts(h, other)
    <3> DEFINE w == PartSet(h, kind, n, k, o)
    <3> HIDE DEF o
    <3>1. /\ IsHeap(w) /\ w[kind] = n /\ w.key[k][kind] = o /\ SameBut(h, w, kind, k)
          /\ Pts(w, kind) = Redirected(Pts(h, kind), k, o)
          /\ \A other \in Parts \ {kind} : w[other] = h[other] /\ Pts(w, other) = Pts(h, other)
      BY <1>1, <2>1, PartChanged
    <3>2. g = w
      BY <2>4 DEF PartSet
    <3> HIDE DEF w
    <3>3. QED
      BY <3>1, <3>2 DEF Redirected, o
  <2>6. Pts(g, kind) = p
    BY <1>1, <2>5
  <2>7. Whole(g)
    BY <2>1, <2>5, <2>6 DEF Whole
  <2>8. \A l \in Keys : g.key[l][kind] = p[l]
    BY <1>1, <2>5, <2>6, <2>7, HeapParts DEF Whole
  <2>9. \A l \in Keys : Part(g, kind, l) = IF l = k THEN v ELSE Part(h, kind, l)
    BY <1>1, <2>1, <2>5, <2>8 DEF Part
  <2>10. QED
    BY <1>3, <1>4, <2>2, <2>5, <2>7, <2>9 DEF g
<1>5. CASE ~(o # Null /\ h[kind][o].refs <= 1)
  <2> DEFINE d == RefDecAndDel(h, kind, o)
             new == Fresh(d, kind, k)
             r == Released(m, o)
             n == [r EXCEPT ![new] = [refs |-> 1, val |-> v]]
  <2>1. d = [h EXCEPT ![kind] = r]
    BY <1>1, <1>2, RefDecAndDelIs
  <2>2. o # Null => m[p[k]].refs > 1
    BY <1>1, <1>3, <1>5 DEF Pointers
  <2>3. r \in Memory(Vals(kind)) /\ Counted(r, Redirected(p, k, Null), Null)
    BY <1>1, PointerDropped
  <2>4. new \in Cells /\ r[new].val = Null
    <3>1. d[kind] = r /\ IsHeap(d)
      <4>1. d = [f \in Fields |-> IF f = kind THEN r ELSE h[f]]
        BY <1>2, <2>1
      <4>2. d[kind] = r /\ d.key = h.key /\ \A other \in Parts \ {kind} : d[other] = h[other]
        BY <4>1 DEF Parts, Fields
      <4>3. d = [f \in Fields |-> d[f]]
        BY <4>1
      <4> HIDE DEF d
      <4>4. \A other \in Parts : d[other] \in Memory(Vals(other))
        BY <1>1, <2>3, <4>2 DEF IsHeap
      <4>5. QED
        BY <1>1, <4>2, <4>3, <4>4 DEF IsHeap
    <3>2. Redirected(p, k, Null) \in [Keys -> Pointers]
      BY <1>1 DEF Pointers, Redirected
    <3> HIDE DEF d, r, p
    <3>3. QED
      BY <2>3, <3>1, <3>2, FreshIsFree
  <2> HIDE DEF new
  <2>5. /\ n \in Memory(Vals(kind)) /\ Counted(n, [p EXCEPT ![k] = new], Null)
        /\ \A l \in Keys : Seen(n, [p EXCEPT ![k] = new][l]) = IF l = k THEN v ELSE Seen(m, p[l])
        /\ \A c \in Cells : n[c].refs <= m[c].refs \/ n[c].refs = 1
    <3>1. p[k] # Null => m[p[k]].refs > 1
      BY <1>1, <2>2
    <3> DEFINE w == Stored(Released(m, p[k]), new, 1, v)
    <3>2. n = w /\ Released(m, p[k])[new].val = Null
      BY <1>1, <2>4 DEF Stored
    <3> HIDE DEF m, p, n
    <3>3. /\ w \in Memory(Vals(kind)) /\ Counted(w, Redirected(p, k, new), Null)
          /\ \A l \in Keys : Seen(w, Redirected(p, k, new)[l]) = IF l = k THEN v ELSE Seen(m, p[l])
          /\ \A c \in Cells : w[c].refs <= m[c].refs \/ w[c].refs = 1
      BY <1>1, <2>4, <3>1, <3>2, ObjectDetached
    <3>4. QED
      BY <3>2, <3>3 DEF Redirected
  <2>6. g = [h EXCEPT ![kind] = n, !.key[k][kind] = new]
    <3>1. g = [d EXCEPT ![kind] = [d[kind] EXCEPT ![new] = [refs |-> 1, val |-> v]],
                        !.key[k][kind] = new]
      BY <1>5 DEF Overwrite, new
    <3>2. d[kind] = r /\ d.key = h.key
      BY <1>2, <2>1 DEF Parts, Fields
    <3>3. g = [d EXCEPT ![kind] = n, !.key[k][kind] = new]
      BY <3>1, <3>2
    <3> HIDE DEF n, d
    <3>4. QED
      BY <1>2, <2>1, <3>2, <3>3 DEF Parts, Fields
  <2> HIDE DEF g, n
  <2>7. new \in Pointers
    BY <2>4 DEF Pointers
  <2>8. /\ IsHeap(g) /\ g[kind] = n /\ g.key[k][kind] = new /\ SameBut(h, g, kind, k)
        /\ Pts(g, kind) = [p EXCEPT ![k] = new]
        /\ \A other \in Parts \ {kind} : g[other] = h[other] /\ Pts(g, other) = Pts(h, other)
    <3> DEFINE w == PartSet(h, kind, n, k, new)
    <3>1. /\ IsHeap(w) /\ w[kind] = n /\ w.key[k][kind] = new /\ SameBut(h, w, kind, k)
          /\ Pts(w, kind) = Redirected(Pts(h, kind), k, new)
          /\ \A other \in Parts \ {kind} : w[other] = h[other] /\ Pts(w, other) = Pts(h, other)
      BY <1>1, <2>5, <2>7, PartChanged
    <3>2. g = w
      BY <2>6 DEF PartSet
    <3> HIDE DEF w
    <3>3. QED
      BY <3>1, <3>2 DEF Redirected
  <2>9. Whole(g)
    BY <2>5, <2>8 DEF Whole
  <2>10. \A l \in Keys : g.key[l][kind] = [p EXCEPT ![k] = new][l]
    BY <2>8, <2>9, HeapParts DEF Whole
  <2>11. \A l \in Keys : Part(g, kind, l) = IF l = k THEN v ELSE Part(h, kind, l)
    BY <1>1, <2>5, <2>8, <2>10 DEF Part
  <2>12. QED
    BY <1>3, <2>4, <2>5, <2>8, <2>9, <2>11 DEF g
<1>6. QED
  BY <1>4, <1>5

-----------------------------------------------------------------------------
(* Calls that change both parts of a key. *)

\* The heap h but for its keys and what they have.
Assembled(h, K, n, d) ==
    [f \in Fields |-> IF f = "key" THEN K ELSE IF f = "name" THEN n
                      ELSE IF f = "data" THEN d ELSE h[f]]

\* A heap consists of its parts ...
LEMMA AssembledFrom ==
    ASSUME NEW h, IsHeap(h)
    PROVE  h = Assembled(h, h.key, h.name, h.data)
BY DEF IsHeap, Assembled, Fields

\* ... and gives them back.
LEMMA AssembledOf ==
    ASSUME NEW h, NEW K, NEW n, NEW d
    PROVE  LET g == Assembled(h, K, n, d)
           IN  /\ g = [f \in Fields |-> g[f]] /\ g.key = K /\ g.name = n /\ g.data = d
               /\ g.set = h.set /\ g.array = h.array
BY DEF Assembled, Fields

\* Counting changes one part only ...
LEMMA AssembledRefInc ==
    ASSUME NEW h, NEW K, NEW o \in Pointers,
           NEW n \in Memory(Vals("name")), NEW d \in Memory(Vals("data"))
    PROVE  LET g == Assembled(h, K, n, d)
           IN  /\ RefInc(g, "name", o) = Assembled(h, K, Increased(n, o), d)
               /\ RefInc(g, "data", o) = Assembled(h, K, n, Increased(d, o))
<1> DEFINE g == Assembled(h, K, n, d)
<1>1. /\ g = [f \in DOMAIN g |-> g[f]] /\ "name" \in DOMAIN g /\ "data" \in DOMAIN g
      /\ g["name"] = n /\ g["data"] = d
  BY DEF Assembled, Fields
<1>2. [g EXCEPT !["name"] = Increased(n, o)] = Assembled(h, K, Increased(n, o), d)
  BY DEF Assembled, Fields
<1>3. [g EXCEPT !["data"] = Increased(d, o)] = Assembled(h, K, n, Increased(d, o))
  BY DEF Assembled, Fields
<1> HIDE DEF g
<1>4. RefInc(g, "name", o) = [g EXCEPT !["name"] = Increased(n, o)]
  BY <1>1, RefIncIs DEF Parts
<1>5. RefInc(g, "data", o) = [g EXCEPT !["data"] = Increased(d, o)]
  BY <1>1, RefIncIs DEF Parts
<1>6. QED
  BY <1>2, <1>3, <1>4, <1>5 DEF g

\* ... and so does releasing.
LEMMA AssembledRefDec ==
    ASSUME NEW h, NEW K, NEW o \in Pointers,
           NEW n \in Memory(Vals("name")), NEW d \in Memory(Vals("data"))
    PROVE  LET g == Assembled(h, K, n, d)
           IN  /\ RefDecAndDel(g, "name", o) = Assembled(h, K, Released(n, o), d)
               /\ RefDecAndDel(g, "data", o) = Assembled(h, K, n, Released(d, o))
<1> DEFINE g == Assembled(h, K, n, d)
<1>1. /\ g = [f \in DOMAIN g |-> g[f]] /\ "name" \in DOMAIN g /\ "data" \in DOMAIN g
      /\ g["name"] = n /\ g["data"] = d
  BY DEF Assembled, Fields
<1>2. [g EXCEPT !["name"] = Released(n, o)] = Assembled(h, K, Released(n, o), d)
  BY DEF Assembled, Fields
<1>3. [g EXCEPT !["data"] = Released(d, o)] = Assembled(h, K, n, Released(d, o))
  BY DEF Assembled, Fields
<1> HIDE DEF g
<1>4. RefDecAndDel(g, "name", o) = [g EXCEPT !["name"] = Released(n, o)]
  BY <1>1, RefDecAndDelIs DEF Parts
<1>5. RefDecAndDel(g, "data", o) = [g EXCEPT !["data"] = Released(d, o)]
  BY <1>1, RefDecAndDelIs DEF Parts
<1>6. QED
  BY <1>2, <1>3, <1>4, <1>5 DEF g

\* The key dest with the source's part.
WithPart(K, kind, dest, source) == [K EXCEPT ![dest][kind] = K[source][kind]]

\* Only this part of this key is another one.
LEMMA WithPartIs ==
    ASSUME NEW K \in [Keys -> KeyRecord], NEW kind \in Parts, NEW dest \in Keys, NEW source \in Keys
    PROVE  LET L == WithPart(K, kind, dest, source)
           IN  /\ L \in [Keys -> KeyRecord]
               /\ \A l \in Keys, fld \in KeyFields :
                     L[l][fld] = IF l = dest /\ fld = kind THEN K[source][fld] ELSE K[l][fld]
<1> DEFINE o == K[source][kind]
           R == [K[dest] EXCEPT ![kind] = o]
           L == WithPart(K, kind, dest, source)
<1>1. K[dest] \in KeyRecord /\ o \in Pointers
  BY DEF KeyRecord, Parts
<1>2. L = [K EXCEPT ![dest] = R]
  BY DEF WithPart
<1> HIDE DEF L, o
<1>3. /\ R \in KeyRecord /\ R[kind] = o
      /\ \A fld \in KeyFields \ {kind} : R[fld] = K[dest][fld]
  BY <1>1 DEF KeyRecord, Parts, KeyFields
<1> HIDE DEF R
<1>4. QED
  BY <1>2, <1>3 DEF L, o

\* Memory stays memory.
LEMMA ReleasedType ==
    ASSUME NEW vals, NEW m \in Memory(vals), NEW o \in Pointers
    PROVE  Released(m, o) \in Memory(vals)
<1>1. CASE o = Null
  BY <1>1 DEF Released
<1>2. CASE o \in Cells /\ o # Null /\ m[o].refs <= 1
  <2>1. Released(m, o) = [m EXCEPT ![o] = [refs |-> 0, val |-> Null]]
    BY <1>2 DEF Released, Freed
  <2>2. QED
    BY <1>2, <2>1, CowAssumption DEF Memory
<1>3. CASE o \in Cells /\ o # Null /\ ~(m[o].refs <= 1)
  <2>1. Released(m, o) = [m EXCEPT ![o] = [refs |-> m[o].refs - 1, val |-> m[o].val]]
    BY <1>3 DEF Released
  <2>2. m[o].refs - 1 \in 0 .. MaxRefs
    BY <1>3, CowAssumption DEF Memory
  <2>3. QED
    BY <1>3, <2>1, <2>2 DEF Memory
<1>4. QED
  BY <1>1, <1>2, <1>3 DEF Pointers

\* One part of keyCopy().
LEMMA AssembledCopyPart ==
    ASSUME NEW h, NEW K \in [Keys -> KeyRecord], NEW dest \in Keys, NEW source \in Keys,
           NEW n \in Memory(Vals("name")), NEW d \in Memory(Vals("data"))
    PROVE  LET g == Assembled(h, K, n, d)
           IN  /\ CopyPart(g, "name", dest, source) =
                    Assembled(h, WithPart(K, "name", dest, source),
                              Increased(Released(n, K[dest].name), K[source].name), d)
               /\ CopyPart(g, "data", dest, source) =
                    Assembled(h, WithPart(K, "data", dest, source),
                              n, Increased(Released(d, K[dest].data), K[source].data))
<1> DEFINE g == Assembled(h, K, n, d)
           rn == Released(n, K[dest].name)
           rd == Released(d, K[dest].data)
           kn == WithPart(K, "name", dest, source)
           kd == WithPart(K, "data", dest, source)
<1>1. \A k \in Keys : K[k].name \in Pointers /\ K[k].data \in Pointers
  BY DEF KeyRecord
<1>2. g.key = K
  BY AssembledOf
<1>3. RefDecAndDel(g, "name", K[dest].name) = Assembled(h, K, rn, d)
  BY <1>1, AssembledRefDec
<1>4. RefDecAndDel(g, "data", K[dest].data) = Assembled(h, K, n, rd)
  BY <1>1, AssembledRefDec
<1>5. [Assembled(h, K, rn, d) EXCEPT !.key[dest]["name"] = K[source]["name"]] = Assembled(h, kn, rn, d)
  BY DEF Assembled, Fields, WithPart
<1>6. [Assembled(h, K, n, rd) EXCEPT !.key[dest]["data"] = K[source]["data"]] = Assembled(h, kd, n, rd)
  BY DEF Assembled, Fields, WithPart
<1> HIDE DEF rn, rd, kn, kd, g
<1>7. RefInc(Assembled(h, kn, rn, d), "name", K[source].name) =
        Assembled(h, kn, Increased(rn, K[source].name), d)
  BY <1>1, AssembledRefInc, ReleasedType DEF rn
<1>8. RefInc(Assembled(h, kd, n, rd), "data", K[source].data) =
        Assembled(h, kd, n, Increased(rd, K[source].data))
  BY <1>1, AssembledRefInc, ReleasedType DEF rd
<1>9. CopyPart(g, "name", dest, source) = Assembled(h, kn, Increased(rn, K[source].name), d)
  BY <1>2, <1>3, <1>5, <1>7 DEF CopyPart
<1>10. CopyPart(g, "data", dest, source) = Assembled(h, kd, n, Increased(rd, K[source].data))
  BY <1>2, <1>4, <1>6, <1>8 DEF CopyPart
<1>11. QED
  BY <1>9, <1>10 DEF g, rn, rd, kn, kd

\* What keyCopy() makes of the memory for one part: the destination's object x
\* is counted once more meanwhile.
Kept(m, x) == Increased(m, x)
Handled(m, x, s, kind, parts) ==
    IF kind \in parts THEN Increased(Released(Kept(m, x), x), s) ELSE Kept(m, x)
Settled(m, x, s, kind, parts) == Released(Handled(m, x, s, kind, parts), x)

\* The key a key has its part from.
From(l, dest, source, kind, parts) == IF l = dest /\ kind \in parts THEN source ELSE l

NoneAtLimit(h) == \A kind \in Parts, c \in Cells : h[kind][c].refs < MaxRefs

\* The memory m for a part is as it should be for the pointers q afterwards, and on the way there.
SettlesWell(m, x, s, kind, parts, q) ==
    /\ Kept(m, x) \in Memory(Vals(kind)) /\ Released(Kept(m, x), x) \in Memory(Vals(kind))
    /\ Handled(m, x, s, kind, parts) \in Memory(Vals(kind))
    /\ Settled(m, x, s, kind, parts) \in Memory(Vals(kind))
    /\ Counted(Settled(m, x, s, kind, parts), q, Null)
    /\ \A l \in Keys : Seen(Settled(m, x, s, kind, parts), q[l]) = Seen(m, q[l])

\* keyCopy() for one part, copied or not.
LEMMA PartSettled ==
    ASSUME NEW h, Whole(h), NoneAtLimit(h), NEW kind \in Parts, NEW dest \in Keys, NEW source \in Keys,
           NEW parts, NEW q \in [Keys -> Pointers],
           \A l \in Keys : q[l] = h.key[From(l, dest, source, kind, parts)][kind]
    PROVE  SettlesWell(h[kind], h.key[dest][kind], h.key[source][kind], kind, parts, q)
<1> DEFINE m == h[kind]
           x == h.key[dest][kind]
           s == h.key[source][kind]
           p == Pts(h, kind)
           r == Settled(m, x, s, kind, parts)
<1>1. /\ m \in Memory(Vals(kind)) /\ p \in [Keys -> Pointers] /\ Counted(m, p, Null)
      /\ p[dest] = x /\ p[source] = s /\ \A l \in Keys : p[l] = h.key[l][kind]
  BY HeapParts DEF Whole
<1>2. \A c \in Cells : m[c].refs < MaxRefs
  BY DEF NoneAtLimit
<1> HIDE DEF m, x, s, p
<1>3. CASE kind \in parts
  <2>1. q = Redirected(p, dest, p[source])
    BY <1>1, <1>3 DEF Redirected, From
  <2>2. LET kept == Increased(m, p[dest])
            n == Increased(Released(kept, p[dest]), p[source])
            t == Released(n, p[dest])
            u == Redirected(p, dest, p[source])
        IN  /\ kept \in Memory(Vals(kind)) /\ Released(kept, p[dest]) \in Memory(Vals(kind))
            /\ n \in Memory(Vals(kind)) /\ t \in Memory(Vals(kind)) /\ Counted(t, u, Null)
            /\ \A l \in Keys : Seen(t, u[l]) = Seen(m, IF l = dest THEN p[source] ELSE p[l])
    BY <1>1, <1>2, PartCopied
  <2>3. /\ Kept(m, x) = Increased(m, p[dest])
        /\ Handled(m, x, s, kind, parts) = Increased(Released(Increased(m, p[dest]), p[dest]), p[source])
        /\ r = Released(Increased(Released(Increased(m, p[dest]), p[dest]), p[source]), p[dest])
    BY <1>1, <1>3 DEF Kept, Handled, Settled
  <2>4. \A l \in Keys : q[l] = IF l = dest THEN p[source] ELSE p[l]
    BY <1>1, <1>3 DEF From
  <2> HIDE DEF r
  <2>5. /\ Kept(m, x) \in Memory(Vals(kind)) /\ Released(Kept(m, x), x) \in Memory(Vals(kind))
        /\ Handled(m, x, s, kind, parts) \in Memory(Vals(kind)) /\ r \in Memory(Vals(kind))
        /\ Counted(r, q, Null)
    BY <1>1, <2>1, <2>2, <2>3
  <2>6. \A l \in Keys : Seen(r, q[l]) = Seen(m, q[l])
    BY <2>1, <2>2, <2>3, <2>4
  <2>7. QED
    BY <2>5, <2>6 DEF SettlesWell, r, m, x, s
<1>4. CASE kind \notin parts
  <2>1. q = p
    BY <1>1, <1>4 DEF From
  <2>2. LET kept == Increased(m, p[dest])
            t == Released(kept, p[dest])
        IN  /\ kept \in Memory(Vals(kind)) /\ t \in Memory(Vals(kind)) /\ Counted(t, p, Null)
            /\ \A l \in Keys : Seen(t, p[l]) = Seen(m, p[l])
    BY <1>1, <1>2, PartKept
  <2>3. /\ Kept(m, x) = Increased(m, p[dest]) /\ Handled(m, x, s, kind, parts) = Kept(m, x)
        /\ r = Released(Increased(m, p[dest]), p[dest])
    BY <1>1, <1>4 DEF Kept, Handled, Settled
  <2> HIDE DEF r
  <2>4. QED
    BY <1>1, <2>1, <2>2, <2>3 DEF SettlesWell, r, m, x, s
<1>5. QED
  BY <1>3, <1>4

\* keyCopy() shares the parts, and every other key keeps what it has.
LEMMA KeyCopied ==
    ASSUME NEW h, Whole(h), NoneAtLimit(h), NEW dest \in Keys, NEW source \in Keys,
           dest # source, NEW parts \in SUBSET Parts
    PROVE  LET g == keyCopy(h, dest, source, parts)
           IN  /\ Whole(g) /\ g.set = h.set /\ g.array = h.array
               /\ \A l \in Keys, fld \in KeyFields :
                     g.key[l][fld] = h.key[IF l = dest /\ fld \in parts THEN source ELSE l][fld]
               /\ \A l \in Keys, kind \in Parts :
                     Part(g, kind, l) = Part(h, kind, IF l = dest /\ kind \in parts THEN source ELSE l)
<1> DEFINE K == h.key
           N == h.name
           D == h.data
           x == K[dest].name
           y == K[dest].data
           sx == K[source].name
           sy == K[source].data
           L == IF "name" \in parts THEN WithPart(K, "name", dest, source) ELSE K
           M == IF "data" \in parts THEN WithPart(L, "data", dest, source) ELSE L
           hn == Handled(N, x, sx, "name", parts)
           hd == Handled(D, y, sy, "data", parts)
           rn == Settled(N, x, sx, "name", parts)
           rd == Settled(D, y, sy, "data", parts)
           g == Assembled(h, M, rn, rd)
<1>1. /\ IsHeap(h) /\ K \in [Keys -> KeyRecord] /\ x \in Pointers /\ y \in Pointers
      /\ sx \in Pointers /\ sy \in Pointers
      /\ N \in Memory(Vals("name")) /\ D \in Memory(Vals("data"))
  BY DEF Whole, IsHeap, KeyRecord, Parts
<1>2. /\ L \in [Keys -> KeyRecord]
      /\ \A l \in Keys, fld \in KeyFields :
            L[l][fld] = K[IF l = dest /\ fld = "name" /\ "name" \in parts THEN source ELSE l][fld]
  BY <1>1, WithPartIs DEF Parts
<1> HIDE DEF L
<1>3. /\ M \in [Keys -> KeyRecord]
      /\ \A l \in Keys, fld \in KeyFields :
            M[l][fld] = K[IF l = dest /\ fld \in parts THEN source ELSE l][fld]
  <2>1. /\ M \in [Keys -> KeyRecord]
        /\ \A l \in Keys, fld \in KeyFields :
              M[l][fld] = L[IF l = dest /\ fld = "data" /\ "data" \in parts THEN source ELSE l][fld]
    BY <1>2, WithPartIs DEF Parts
  <2> HIDE DEF M
  <2>2. QED
    BY <1>2, <2>1 DEF Parts, KeyFields
<1> DEFINE P(kind) == [l \in Keys |-> M[l][kind]]
<1>4. \A kind \in Parts : /\ P(kind) \in [Keys -> Pointers] /\ kind \in KeyFields
                          /\ \A l \in Keys :
                                P(kind)[l] = K[IF l = dest /\ kind \in parts THEN source ELSE l][kind]
  <2>1. \A kind \in Parts : kind \in KeyFields
    BY DEF Parts, KeyFields
  <2>2. \A l \in Keys, kind \in Parts : M[l][kind] \in Pointers
    BY <1>3 DEF KeyRecord, Parts
  <2> HIDE DEF M, K
  <2>3. QED
    BY <1>3, <2>1, <2>2
<1>5. ASSUME NEW kind \in Parts 
      PROVE  SettlesWell(h[kind], h.key[dest][kind], h.key[source][kind], kind, parts, P(kind))
  <2> DEFINE q == P(kind)
  <2>1. /\ q \in [Keys -> Pointers]
        /\ \A l \in Keys : q[l] = h.key[From(l, dest, source, kind, parts)][kind]
    BY <1>4 DEF From
  <2> HIDE DEF P, q
  <2>2. SettlesWell(h[kind], h.key[dest][kind], h.key[source][kind], kind, parts, q)
    BY <2>1, PartSettled
  <2>3. QED
    BY <2>2 DEF q
<1>6. SettlesWell(N, x, sx, "name", parts, P("name")) /\ SettlesWell(D, y, sy, "data", parts, P("data"))
  <2> HIDE DEF P
  <2>1. "name" \in Parts /\ "data" \in Parts
    BY DEF Parts
  <2>2. QED
    BY <1>5, <2>1
<1>7. /\ Kept(N, x) \in Memory(Vals("name")) /\ Released(Kept(N, x), x) \in Memory(Vals("name"))
      /\ hn \in Memory(Vals("name")) /\ rn \in Memory(Vals("name")) /\ Counted(rn, P("name"), Null)
      /\ \A l \in Keys : Seen(rn, P("name")[l]) = Seen(N, P("name")[l])
  BY <1>6 DEF SettlesWell
<1>8. /\ Kept(D, y) \in Memory(Vals("data")) /\ Released(Kept(D, y), y) \in Memory(Vals("data"))
      /\ hd \in Memory(Vals("data")) /\ rd \in Memory(Vals("data")) /\ Counted(rd, P("data"), Null)
      /\ \A l \in Keys : Seen(rd, P("data")[l]) = Seen(D, P("data")[l])
  BY <1>6 DEF SettlesWell
<1>9. keyCopy(h, dest, source, parts) = g
  <2> DEFINE kn == Kept(N, x)
             kd == Kept(D, y)
             kept == RefInc(RefInc(h, "name", x), "data", y)
             n == IF "name" \in parts THEN CopyPart(kept, "name", dest, source) ELSE kept
             d == IF "data" \in parts THEN CopyPart(n, "data", dest, source) ELSE n
  <2>1. keyCopy(h, dest, source, parts) = RefDecAndDel(RefDecAndDel(d, "name", x), "data", y)
    BY DEF keyCopy
  <2>2. kept = Assembled(h, K, kn, kd)
    <3>1. h = Assembled(h, K, N, D)
      BY <1>1, AssembledFrom
    <3> HIDE DEF K, N, D, x, y
    <3>2. RefInc(h, "name", x) = Assembled(h, K, Increased(N, x), D)
      BY <1>1, <3>1, AssembledRefInc
    <3>3. RefInc(Assembled(h, K, Increased(N, x), D), "data", y) =
            Assembled(h, K, Increased(N, x), Increased(D, y))
      BY <1>1, <1>7, AssembledRefInc DEF Kept
    <3>4. QED
      BY <3>2, <3>3 DEF Kept
  <2> HIDE DEF kept
  <2>3. n = Assembled(h, L, hn, kd)
    <3>1. CopyPart(Assembled(h, K, kn, kd), "name", dest, source) =
            Assembled(h, WithPart(K, "name", dest, source), Increased(Released(kn, x), sx), kd)
      <4> HIDE DEF K, N, D
      <4>1. QED
        BY <1>1, <1>7, <1>8, AssembledCopyPart
    <3>2. hn = IF "name" \in parts THEN Increased(Released(kn, x), sx) ELSE kn
      BY DEF Handled
    <3> HIDE DEF K, N, D, x, y, sx, sy, kn, kd, hn, hd
    <3>3. QED
      BY <2>2, <3>1, <3>2 DEF L
  <2> HIDE DEF n
  <2>4. L[dest].data = y /\ L[source].data = sy
    BY <1>2 DEF KeyFields
  <2>5. d = Assembled(h, M, hn, hd)
    <3> HIDE DEF K, N, D, x, y, sx, sy, kn, kd, hn, hd
    <3>1. CopyPart(Assembled(h, L, hn, kd), "data", dest, source) =
            Assembled(h, WithPart(L, "data", dest, source), hn, Increased(Released(kd, y), sy))
      BY <1>2, <1>7, <1>8, <2>4, AssembledCopyPart DEF kd
    <3>2. hd = IF "data" \in parts THEN Increased(Released(kd, y), sy) ELSE kd
      BY DEF Handled, hd, kd
    <3>3. QED
      BY <2>3, <3>1, <3>2 DEF M
  <2> HIDE DEF d
  <2>6. RefDecAndDel(Assembled(h, M, hn, hd), "name", x) = Assembled(h, M, rn, hd)
    <3> HIDE DEF K, N, D, x, y, sx, sy, hn, hd, M
    <3>1. rn = Released(hn, x)
      BY DEF Settled, hn
    <3>2. QED
      BY <1>1, <1>7, <1>8, <3>1, AssembledRefDec
  <2>7. RefDecAndDel(Assembled(h, M, rn, hd), "data", y) = Assembled(h, M, rn, rd)
    <3> HIDE DEF K, N, D, x, y, sx, sy, hn, hd, M, rn
    <3>1. rd = Released(hd, y)
      BY DEF Settled, hd
    <3>2. QED
      BY <1>1, <1>7, <1>8, <3>1, AssembledRefDec
  <2>8. QED
    BY <2>1, <2>5, <2>6, <2>7
<1> HIDE DEF rn, rd, hn, hd, M
<1>10. /\ g = [f \in Fields |-> g[f]] /\ g.key = M /\ g.name = rn /\ g.data = rd
      /\ g.set = h.set /\ g.array = h.array
  BY AssembledOf
<1> HIDE DEF g
<1>11. g["name"] = rn /\ g["data"] = rd
  BY <1>10
<1>12. \A kind \in Parts : Pts(g, kind) = P(kind)
  BY <1>10 DEF Pts
<1>13. Whole(g)
  <2>1. IsHeap(g)
    BY <1>3, <1>7, <1>8, <1>10, <1>11 DEF IsHeap, Parts
  <2> HIDE DEF P
  <2>2. QED
    BY <1>7, <1>8, <1>11, <1>12, <2>1 DEF Whole, Parts
<1>14. \A l \in Keys, kind \in Parts :
          Part(g, kind, l) = Part(h, kind, IF l = dest /\ kind \in parts THEN source ELSE l)
  <2> SUFFICES ASSUME NEW l \in Keys, NEW kind \in Parts
               PROVE  Part(g, kind, l) = Part(h, kind, IF l = dest /\ kind \in parts THEN source ELSE l)
    OBVIOUS
  <2> DEFINE from == IF l = dest /\ kind \in parts THEN source ELSE l
  <2>1. P(kind)[l] = K[from][kind]
    BY <1>4
  <2>2. g.key[l][kind] = P(kind)[l]
    BY <1>10
  <2> HIDE DEF P, from
  <2>3. CASE kind = "name"
    <3>1. Seen(rn, P("name")[l]) = Seen(N, P("name")[l]) /\ h["name"] = N
      BY <1>7
    <3>2. P("name")[l] = h.key[from]["name"] /\ g.key[l]["name"] = P("name")[l]
      BY <2>1, <2>2, <2>3
    <3>3. Part(g, "name", l) = Part(h, "name", from)
      BY <1>11, <3>1, <3>2 DEF Part
    <3>4. QED
      BY <2>3, <3>3 DEF from
  <2>4. CASE kind = "data"
    <3>1. Seen(rd, P("data")[l]) = Seen(D, P("data")[l]) /\ h["data"] = D
      BY <1>8
    <3>2. P("data")[l] = h.key[from]["data"] /\ g.key[l]["data"] = P("data")[l]
      BY <2>1, <2>2, <2>4
    <3>3. Part(g, "data", l) = Part(h, "data", from)
      BY <1>11, <3>1, <3>2 DEF Part
    <3>4. QED
      BY <2>4, <3>3 DEF from
  <2>5. QED
    BY <2>3, <2>4 DEF Parts, from
<1>15. QED
  BY <1>3, <1>9, <1>10, <1>13, <1>14

\* keyDel() of a key that nobody counts on.
LEMMA KeyDropped ==
    ASSUME NEW h, Whole(h), NEW k \in Keys, ~(h.key[k].refs > 0)
    PROVE  LET g == keyDel(h, k)
           IN  /\ Whole(g) /\ g.set = h.set /\ g.array = h.array
               /\ g.key[k] = NoKey /\ \A l \in Keys \ {k} : g.key[l] = h.key[l]
               /\ \A l \in Keys \ {k}, kind \in Parts : Part(g, kind, l) = Part(h, kind, l)
<1> DEFINE K == h.key
           N == h.name
           D == h.data
           x == K[k].name
           y == K[k].data
           rn == Released(N, x)
           rd == Released(D, y)
           L == [K EXCEPT ![k] = NoKey]
           g == Assembled(h, L, rn, rd)
<1>1. /\ IsHeap(h) /\ K \in [Keys -> KeyRecord] /\ x \in Pointers /\ y \in Pointers
      /\ N \in Memory(Vals("name")) /\ D \in Memory(Vals("data"))
  BY DEF Whole, IsHeap, KeyRecord, Parts
<1>2. /\ L \in [Keys -> KeyRecord] /\ L[k].name = Null /\ L[k].data = Null
      /\ L[k] = NoKey /\ \A l \in Keys \ {k} : L[l] = K[l]
  <2>1. NoKey \in KeyRecord /\ NoKey.name = Null /\ NoKey.data = Null
    BY CowAssumption DEF NoKey, KeyRecord, Pointers
  <2>2. QED
    BY <1>1, <2>1
<1>3. /\ rn \in Memory(Vals("name")) /\ rd \in Memory(Vals("data"))
  BY <1>1, ReleasedType
<1>4. keyDel(h, k) = g
  <2>1. h = Assembled(h, K, N, D)
    BY <1>1, AssembledFrom
  <2> HIDE DEF K, N, D, x, y
  <2>2. RefDecAndDel(h, "name", x) = Assembled(h, K, rn, D)
    BY <1>1, <2>1, AssembledRefDec
  <2>3. RefDecAndDel(Assembled(h, K, rn, D), "data", y) = Assembled(h, K, rn, rd)
    BY <1>1, <1>3, AssembledRefDec
  <2>4. [Assembled(h, K, rn, rd) EXCEPT !.key[k] = NoKey] = g
    BY DEF Assembled, Fields
  <2> HIDE DEF g, rn, rd
  <2>5. QED
    BY <2>2, <2>3, <2>4 DEF keyDel, K, x, y
<1> HIDE DEF L
<1>5. /\ g = [f \in Fields |-> g[f]] /\ g.key = L /\ g.name = rn /\ g.data = rd
      /\ g.set = h.set /\ g.array = h.array
  BY AssembledOf
<1> HIDE DEF g, rn, rd
<1>6. ASSUME NEW kind \in Parts
      PROVE  /\ g[kind] = Released(h[kind], Pts(h, kind)[k])
             /\ Pts(g, kind) = Redirected(Pts(h, kind), k, Null)
  <2>1. Pts(h, kind)[k] = h.key[k][kind]
    BY <1>1, HeapParts
  <2>2. g[kind] = Released(h[kind], h.key[k][kind])
    BY <1>5 DEF Parts, rn, rd
  <2>3. Pts(g, kind) = Redirected(Pts(h, kind), k, Null)
    <3>1. L[k][kind] = Null
      BY <1>2 DEF Parts
    <3>2. \A l \in Keys \ {k} : L[l][kind] = h.key[l][kind]
      BY <1>2
    <3>3. QED
      BY <1>5, <3>1, <3>2 DEF Pts, Redirected
  <2>4. QED
    BY <2>1, <2>2, <2>3
<1>7. ASSUME NEW kind \in Parts
      PROVE  /\ g[kind] \in Memory(Vals(kind)) /\ Counted(g[kind], Pts(g, kind), Null)
             /\ \A l \in Keys \ {k} : Part(g, kind, l) = Part(h, kind, l)
  <2> DEFINE m == h[kind]
             p == Pts(h, kind)
  <2>1. /\ m \in Memory(Vals(kind)) /\ p \in [Keys -> Pointers] /\ Counted(m, p, Null)
        /\ \A l \in Keys : p[l] = h.key[l][kind]
    BY HeapParts DEF Whole
  <2>2. g[kind] = Released(m, p[k]) /\ Pts(g, kind) = Redirected(p, k, Null)
    BY <1>6
  <2> HIDE DEF m, p
  <2>3. /\ Released(m, p[k]) \in Memory(Vals(kind))
        /\ Counted(Released(m, p[k]), Redirected(p, k, Null), Null)
        /\ \A l \in Keys \ {k} : Seen(Released(m, p[k]), p[l]) = Seen(m, p[l])
    BY <2>1, PointerDropped
  <2>4. \A l \in Keys \ {k} : g.key[l][kind] = p[l]
    BY <1>2, <1>5, <2>1
  <2>5. QED
    BY <2>1, <2>2, <2>3, <2>4 DEF Part, m
<1>8. Whole(g)
  BY <1>2, <1>5, <1>7 DEF Whole, IsHeap
<1>9. g.key[k] = NoKey /\ \A l \in Keys \ {k} : g.key[l] = h.key[l]
  BY <1>2, <1>5
<1>10. QED
  BY <1>4, <1>5, <1>7, <1>8, <1>9

\* A new key is one that was dead.
LEMMA FreshKeyIsFree ==
    ASSUME NEW h, FreeKeys(h) # {}
    PROVE  FreshKey(h) \in Keys /\ ~h.key[FreshKey(h)].live
<1>1. FreeKeys(h) \subseteq Nat
  BY DEF FreeKeys, Keys
<1>2. FreshKey(h) \in FreeKeys(h)
  BY <1>1, LeastNumber DEF FreshKey
<1>3. QED
  BY <1>2 DEF FreeKeys

\* keyNew() takes a dead key, and nothing of it but its name is set.
LEMMA KeyMade ==
    ASSUME NEW h, Whole(h), FreeKeys(h) # {}, NEW n \in Vals("name"), MaxRefs > 0
    PROVE  LET g == keyNew(h, n)
               new == FreshKey(h)
           IN  /\ Whole(g) /\ g.set = h.set /\ g.array = h.array
               /\ g.key[new].live /\ g.key[new].name # Null /\ g.key[new].refs = h.key[new].refs
               /\ g.key[new].hasReadOnlyName = h.key[new].hasReadOnlyName
               /\ g.key[new].data = h.key[new].data
               /\ \A l \in Keys \ {new} : g.key[l] = h.key[l]
               /\ \A l \in Keys : Part(g, "name", l) = IF l = new THEN n ELSE Part(h, "name", l)
               /\ \A l \in Keys : Part(g, "data", l) = Part(h, "data", l)
               /\ g.data = h.data
               /\ \A c \in Cells : g.name[c].refs <= h.name[c].refs \/ g.name[c].refs = 1
<1> DEFINE new == FreshKey(h)
           R == [h.key[new] EXCEPT !.live = TRUE]
           K == [h.key EXCEPT ![new] = R]
           e == [h EXCEPT !.key[new].live = TRUE]
           g == keyNew(h, n)
<1>1. new \in Keys /\ ~h.key[new].live
  BY FreshKeyIsFree
<1>2. g = Overwrite(e, "name", new, n)
  BY DEF keyNew
<1>3. h = [f \in Fields |-> h[f]] /\ h.key \in [Keys -> KeyRecord]
  BY DEF Whole, IsHeap
<1>4. e = [h EXCEPT !.key = K]
  BY <1>3 DEF Fields
<1> HIDE DEF new
<1>5. /\ R \in KeyRecord /\ R.live = TRUE
      /\ \A fld \in KeyFields \ {"live"} : R[fld] = h.key[new][fld]
  BY <1>1, <1>3 DEF KeyRecord, KeyFields
<1> HIDE DEF R
<1>6. /\ K \in [Keys -> KeyRecord] /\ K[new] = R /\ \A l \in Keys \ {new} : K[l] = h.key[l]
  BY <1>1, <1>3, <1>5
<1> HIDE DEF K
<1>7. e = [f \in Fields |-> e[f]] /\ e.key = K /\ \A f \in Fields \ {"key"} : e[f] = h[f]
  BY <1>3, <1>4 DEF Fields
<1> HIDE DEF e
<1>8. \A kind \in Parts : e[kind] = h[kind] /\ Pts(e, kind) = Pts(h, kind) /\ kind \in KeyFields
  BY <1>5, <1>6, <1>7 DEF Pts, Parts, Fields, KeyFields
<1>9. Whole(e)
  BY <1>6, <1>7, <1>8 DEF Whole, IsHeap
<1>10. "name" \in Parts /\ "data" \in Parts
  BY DEF Parts
<1>11. /\ Whole(g) /\ SameBut(e, g, "name", new) /\ g.key[new]["name"] # Null
       /\ \A l \in Keys : Part(g, "name", l) = IF l = new THEN n ELSE Part(e, "name", l)
       /\ \A c \in Cells : g["name"][c].refs <= e["name"][c].refs \/ g["name"][c].refs = 1
  <2> HIDE DEF g
  <2> QED
    BY <1>1, <1>2, <1>9, <1>10, PartWritten
<1> HIDE DEF g
<1>12. g.set = h.set /\ g.array = h.array /\ g.data = h.data
  BY <1>7, <1>11 DEF SameBut, Fields
<1>13. \A l \in Keys, fld \in KeyFields : (l # new \/ fld # "name") => g.key[l][fld] = K[l][fld]
  BY <1>7, <1>11 DEF SameBut
<1>14. \A l \in Keys : /\ g.key[l] \in KeyRecord /\ h.key[l] \in KeyRecord
  BY <1>3, <1>11 DEF Whole, IsHeap
<1>15. \A l \in Keys \ {new} : g.key[l] = h.key[l]
  <2> SUFFICES ASSUME NEW l \in Keys \ {new} PROVE g.key[l] = h.key[l]
    OBVIOUS
  <2>1. \A fld \in KeyFields : g.key[l][fld] = h.key[l][fld]
    BY <1>6, <1>13
  <2>2. QED
    BY <1>14, <2>1 DEF KeyRecord, KeyFields
<1>16. /\ g.key[new].live /\ g.key[new].refs = h.key[new].refs /\ g.key[new].name # Null
       /\ g.key[new].hasReadOnlyName = h.key[new].hasReadOnlyName
       /\ g.key[new].data = h.key[new].data
  BY <1>1, <1>5, <1>6, <1>11, <1>13 DEF KeyFields
<1>17. \A l \in Keys : Part(e, "name", l) = Part(h, "name", l)
  BY <1>5, <1>6, <1>7, <1>8, <1>10 DEF Part, KeyFields
<1>18. \A l \in Keys : Part(g, "data", l) = Part(h, "data", l)
  BY <1>1, <1>12, <1>15, <1>16 DEF Part
<1>19. \A c \in Cells : g.name[c].refs <= h.name[c].refs \/ g.name[c].refs = 1
  BY <1>8, <1>10, <1>11
<1>20. QED
  BY <1>11, <1>12, <1>15, <1>16, <1>17, <1>18, <1>19 DEF g, new

-----------------------------------------------------------------------------
(* Between two calls. *)

Typed ==
    /\ IsHeap(heap) /\ locks \in [Keys -> Nat]
    /\ \A s \in Sets : heap.set[s].data \in Arrays \union {Null}

\* A live key has a name, a dead one nothing.
KeysTidy ==
    \A k \in Keys : IF heap.key[k].live THEN Part(heap, "name", k) \in Names
                    ELSE heap.key[k] = NoKey

\* The names of the keys in arrays can no longer be written.
NamesKept ==
    \A a \in Arrays :
        Held(a) => \A k \in ToSet(heap.array[a].val) : heap.key[k].hasReadOnlyName

HeapInv == Typed /\ KeysTidy /\ NamesKept /\ RefsExact /\ NoDangling /\ Ordered

LiveUsers(kind, c) == {k \in Live : heap.key[k][kind] = c}
Containing(k) == {a \in Arrays : Held(a) /\ k \in ToSet(heap.array[a].val)}

\* The counters of names and values, as the properties state them and as the lemmas do.
LEMMA HeapWhole ==
    ASSUME HeapInv
    PROVE  Whole(heap)
<1> SUFFICES ASSUME NEW kind \in Parts PROVE Counted(heap[kind], Pts(heap, kind), Null)
  BY DEF Whole, HeapInv, Typed
<1> SUFFICES ASSUME NEW c \in Cells
             PROVE  /\ heap[kind][c].refs = Cardinality(Users(Pts(heap, kind), c))
                    /\ heap[kind][c].val = Null <=> heap[kind][c].refs = 0
  <2>1. \A d \in Cells : d # Null /\ Cardinality(Users(Pts(heap, kind), d)) \in Nat
    BY CowAssumption, UsersFinite
  <2>2. QED
    BY <2>1 DEF Counted
<1> DEFINE users == LiveUsers(kind, c)
<1>1. heap[kind][c].refs = Cardinality(users) /\ (heap[kind][c].val = Null <=> users = {})
  <2>1. \A d \in Cells, part \in {"name", "data"} :
           /\ heap[part][d].refs = Cardinality(LiveUsers(part, d))
           /\ heap[part][d].val = Null <=> LiveUsers(part, d) = {}
    BY DEF HeapInv, RefsExact, LiveUsers
  <2>2. QED
    BY <2>1 DEF Parts
<1>2. users = Users(Pts(heap, kind), c)
  <2>1. \A k \in Keys \ Live : heap.key[k][kind] = Null
    BY DEF HeapInv, KeysTidy, Live, NoKey, Parts
  <2>2. c # Null
    BY CowAssumption
  <2>3. QED
    BY <2>1, <2>2 DEF LiveUsers, Users, Pts, Live
<1> HIDE DEF users
<1>3. users = {} <=> Cardinality(users) = 0
  BY <1>2, UsersFinite, FS_EmptySet
<1>4. QED
  BY <1>1, <1>2, <1>3

\* What keys have, and what counts on them, when nothing but keys has changed.
LEMMA KeysChanged ==
    ASSUME HeapInv, Whole(heap)', KeysTidy', locks' \in [Keys -> Nat],
           heap'.set = heap.set, heap'.array = heap.array,
           \A k \in Keys : /\ Containing(k) # {} =>
                                /\ heap'.key[k].live /\ heap'.key[k].hasReadOnlyName
                                /\ Part(heap', "name", k) = Part(heap, "name", k)
                           /\ heap'.key[k].live =>
                                heap'.key[k].refs = locks'[k] + Cardinality(Containing(k))
                           /\ locks'[k] > 0 => heap'.key[k].live
    PROVE  HeapInv'
<1>1. \A a \in Arrays : Held(a)' <=> Held(a)
  BY DEF Held
<1>2. \A k \in Keys : Containing(k)' = Containing(k)
  BY <1>1 DEF Containing
<1>3. \A a \in Arrays : \A k \in ToSet(heap.array[a].val) : Held(a) => k \in Keys /\ Containing(k) # {}
  BY DEF HeapInv, NoDangling, Live, Containing
<1>4. Typed'
  BY DEF HeapInv, Typed, Whole
<1>5. NamesKept'
  BY <1>1, <1>3 DEF NamesKept
<1>6. \A kind \in Parts, c \in Cells :
         {k \in Live' : heap'.key[k][kind] = c} = Users(Pts(heap', kind), c)
  <2>1. ASSUME NEW kind \in Parts PROVE \A k \in Keys : ~heap'.key[k].live => heap'.key[k][kind] = Null
    BY DEF KeysTidy, NoKey, Parts
  <2>2. \A c \in Cells : c # Null
    BY CowAssumption
  <2>3. QED
    BY <2>1, <2>2 DEF Users, Pts, Live
<1>7. RefsExact'
  <2>1. ASSUME NEW c \in Cells, NEW kind \in Parts
        PROVE  LET users == {k \in Live' : heap'.key[k][kind] = c}
               IN /\ heap'[kind][c].refs = Cardinality(users)
                  /\ heap'[kind][c].val = Null <=> users = {}
    <3> DEFINE users == Users(Pts(heap', kind), c)
    <3>1. heap'[kind][c].refs = Cardinality(users) /\ (heap'[kind][c].val = Null <=> heap'[kind][c].refs = 0)
      <4>1. c # Null /\ Cardinality(users) \in Nat
        BY CowAssumption, UsersFinite
      <4>2. QED
        BY <4>1 DEF Whole, Counted
    <3>2. users = {} <=> Cardinality(users) = 0
      BY UsersFinite, FS_EmptySet
    <3> HIDE DEF users
    <3>3. QED
      BY <1>6, <3>1, <3>2 DEF users
  <2>2. ASSUME NEW a \in Arrays
        PROVE  LET users == {s \in AllSets : heap'.set[s].data = a}
               IN /\ heap'.array[a].refs = Cardinality(users)
                  /\ Held(a)' <=> users # {}
    BY <1>1 DEF HeapInv, RefsExact
  <2>3. \A k \in Live' : heap'.key[k].refs = locks'[k] + Cardinality(Containing(k)')
    BY <1>2 DEF Live
  <2>4. QED
    BY <2>1, <2>2, <2>3 DEF RefsExact, Parts, Containing
<1>8. NoDangling'
  <2>1. ASSUME NEW k \in Live'
        PROVE  /\ heap'.name[heap'.key[k].name].val # Null
               /\ heap'.key[k].data # Null => heap'.data[heap'.key[k].data].val # Null
    <3>1. k \in Keys /\ heap'.key[k].live
      BY <2>1 DEF Live
    <3>2. Part(heap', "name", k) \in Names
      BY <3>1 DEF KeysTidy
    <3>3. heap'.name[heap'.key[k].name].val # Null
      BY <3>2, CowAssumption DEF Part, Seen
    <3>4. ASSUME heap'.key[k].data # Null PROVE heap'.data[heap'.key[k].data].val # Null
      <4> DEFINE c == heap'.key[k].data
                 users == Users(Pts(heap', "data"), c)
      <4>1. c \in Cells
        BY <3>1, <3>4 DEF Whole, IsHeap, KeyRecord, Pointers
      <4>2. k \in users
        BY <3>1 DEF Users, Pts
      <4>3. Cardinality(users) # 0 /\ Cardinality(users) \in Nat
        BY <4>2, UsersFinite, FS_EmptySet
      <4>4. /\ heap'["data"][c].refs = Cardinality(users)
            /\ heap'["data"][c].val = Null <=> heap'["data"][c].refs = 0
        <5>1. Counted(heap'["data"], Pts(heap', "data"), Null)
          BY DEF Whole, Parts
        <5>2. c # Null
          BY <3>4
        <5> HIDE DEF c
        <5>3. QED
          BY <4>1, <4>3, <5>1, <5>2 DEF Counted
      <4>5. QED
        BY <4>3, <4>4
    <3>5. QED
      BY <3>3, <3>4
  <2>2. \A s \in Existing' : heap'.set[s].data # Null => Held(heap.set[s].data)'
    <3>1. \A s \in Existing : heap.set[s].data # Null => Held(heap.set[s].data)
      BY DEF HeapInv, NoDangling
    <3>2. Existing' = Existing
      BY DEF Existing, Exists
    <3>3. QED
      BY <3>1, <3>2 DEF Held
  <2>3. \A a \in Arrays : Held(a)' => ToSet(heap'.array[a].val) \subseteq Live'
    BY <1>1, <1>3 DEF Live
  <2>4. \A k \in Keys : locks'[k] > 0 => k \in Live'
    BY DEF Live
  <2>5. QED
    BY <2>1, <2>2, <2>3, <2>4 DEF NoDangling
<1>9. Ordered'
  <2> SUFFICES ASSUME NEW s \in Existing', NEW i \in DOMAIN Array(heap', s),
                      NEW j \in DOMAIN Array(heap', s), i < j
               PROVE  Rank(NameOf(heap', Array(heap', s)[i])) < Rank(NameOf(heap', Array(heap', s)[j]))
    BY DEF Ordered
  <2>1. s \in Existing /\ Array(heap', s) = Array(heap, s)
    BY DEF Existing, Exists, Array
  <2>2. ASSUME NEW l \in DOMAIN Array(heap, s)
        PROVE  NameOf(heap', Array(heap, s)[l]) = NameOf(heap, Array(heap, s)[l])
    <3> DEFINE k == Array(heap, s)[l]
               a == heap.set[s].data
    <3>1. a # Null
      BY <2>2 DEF Array
    <3>2. Held(a) /\ a \in Arrays
      BY <2>1, <3>1 DEF HeapInv, Typed, NoDangling, Existing, Exists
    <3>3. k \in ToSet(heap.array[a].val)
      BY <2>2, <3>1 DEF Array, ToSet
    <3>4. k \in Keys /\ Containing(k) # {}
      BY <1>3, <3>2, <3>3
    <3>5. heap'.key[k].live /\ Part(heap', "name", k) = Part(heap, "name", k)
      BY <3>4
    <3>6. Part(heap', "name", k) \in Names
      BY <3>4, <3>5 DEF KeysTidy
    <3> HIDE DEF k
    <3>7. Part(heap', "name", k) = NameOf(heap', k) /\ Part(heap, "name", k) = NameOf(heap, k)
      BY <3>5, <3>6, CowAssumption DEF Part, Seen, NameOf
    <3>8. QED
      BY <3>5, <3>7 DEF k
  <2>3. Rank(NameOf(heap, Array(heap, s)[i])) < Rank(NameOf(heap, Array(heap, s)[j]))
    BY <2>1 DEF HeapInv, Ordered
  <2>4. QED
    BY <2>1, <2>2, <2>3
<1>10. QED
  BY <1>4, <1>5, <1>7, <1>8, <1>9 DEF HeapInv

\* Containers and locks of a key are what its counter says.
LEMMA KeyCounted ==
    ASSUME HeapInv, NEW k \in Keys
    PROVE  /\ IsFiniteSet(Containing(k)) /\ Cardinality(Containing(k)) \in Nat /\ locks[k] \in Nat
           /\ Containing(k) = {} => Cardinality(Containing(k)) = 0
           /\ Containing(k) # {} => heap.key[k].live /\ heap.key[k].hasReadOnlyName
           /\ heap.key[k].live => heap.key[k].refs = locks[k] + Cardinality(Containing(k))
           /\ heap.key[k].live /\ heap.key[k].refs = 0 => locks[k] = 0 /\ Containing(k) = {}
           /\ ~heap.key[k].live => locks[k] = 0 /\ Containing(k) = {} /\ heap.key[k] = NoKey
<1>1. IsFiniteSet(Arrays)
  <2>1. Cardinality(Sets) \in Nat
    BY CowAssumption, FS_CardinalityType
  <2>2. QED
    BY <2>1, FS_Interval DEF Arrays
<1>2. IsFiniteSet(Containing(k))
  <2>1. Containing(k) \in SUBSET Arrays
    BY DEF Containing
  <2>2. QED
    BY <1>1, <2>1, FS_Subset
<1>3. /\ Cardinality(Containing(k)) \in Nat
      /\ Cardinality(Containing(k)) = 0 <=> Containing(k) = {}
  BY <1>2, FS_CardinalityType, FS_EmptySet
<1>4. Containing(k) # {} => heap.key[k].live /\ heap.key[k].hasReadOnlyName
  BY DEF HeapInv, NoDangling, NamesKept, Containing, Live
<1>5. heap.key[k].live => heap.key[k].refs = locks[k] + Cardinality(Containing(k))
  BY DEF HeapInv, RefsExact, Live, Containing
<1>6. locks[k] \in Nat /\ (locks[k] > 0 => heap.key[k].live)
  BY DEF HeapInv, Typed, NoDangling, Live
<1>7. ~heap.key[k].live => heap.key[k] = NoKey
  BY DEF HeapInv, KeysTidy
<1>8. QED
  BY <1>2, <1>3, <1>4, <1>5, <1>6, <1>7

\* A step leaves all keys but k alone, all key sets and all locks.
OthersKept(k) ==
    /\ UNCHANGED locks /\ heap'.set = heap.set /\ heap'.array = heap.array
    /\ \A l \in Keys \ {k} :
          /\ heap'.key[l].live = heap.key[l].live /\ heap'.key[l].refs = heap.key[l].refs
          /\ heap'.key[l].hasReadOnlyName = heap.key[l].hasReadOnlyName
          /\ \A kind \in Parts : Part(heap', kind, l) = Part(heap, kind, l)
          /\ heap.key[l] = NoKey => heap'.key[l] = NoKey

\* The three things that can happen to one key: a write, ...
Written(k) ==
    /\ heap.key[k].live /\ heap'.key[k].live /\ heap'.key[k].refs = heap.key[k].refs
    /\ heap'.key[k].hasReadOnlyName = heap.key[k].hasReadOnlyName
    /\ Part(heap', "name", k) \in Names
    /\ heap.key[k].hasReadOnlyName => Part(heap', "name", k) = Part(heap, "name", k)

\* ... its creation, ...
Born(k) ==
    /\ ~heap.key[k].live /\ heap'.key[k].live /\ heap'.key[k].refs = 0
    /\ Part(heap', "name", k) \in Names

\* ... and its end.
Died(k) == heap.key[k].live /\ heap.key[k].refs = 0 /\ heap'.key[k] = NoKey

\* Whichever of the three happens, the heap stays in order ...
LEMMA OneKeyInv ==
    ASSUME HeapInv, NEW k \in Keys, Whole(heap)', OthersKept(k), Written(k) \/ Born(k) \/ Died(k)
    PROVE  HeapInv'
<1>1. \A l \in Keys \ {k} : ~heap.key[l].live => heap.key[l] = NoKey
  BY KeyCounted
<1>2. NoKey.live = FALSE
  BY DEF NoKey
<1>3. KeysTidy'
  <2>1. ASSUME NEW l \in Keys \ {k}
        PROVE  IF heap'.key[l].live THEN Part(heap', "name", l) \in Names ELSE heap'.key[l] = NoKey
    BY <1>1 DEF HeapInv, KeysTidy, OthersKept, Parts
  <2>2. IF heap'.key[k].live THEN Part(heap', "name", k) \in Names ELSE heap'.key[k] = NoKey
    BY <1>2 DEF Written, Born, Died
  <2>3. QED
    BY <2>1, <2>2 DEF KeysTidy
<1>4. locks' \in [Keys -> Nat] /\ locks' = locks /\ heap'.set = heap.set /\ heap'.array = heap.array
  BY DEF HeapInv, Typed, OthersKept
<1>5. ASSUME NEW l \in Keys \ {k}
      PROVE  /\ Containing(l) # {} => /\ heap'.key[l].live /\ heap'.key[l].hasReadOnlyName
                                      /\ Part(heap', "name", l) = Part(heap, "name", l)
             /\ heap'.key[l].live => heap'.key[l].refs = locks'[l] + Cardinality(Containing(l))
             /\ locks'[l] > 0 => heap'.key[l].live
  BY <1>4, KeyCounted DEF OthersKept, Parts
<1>6. /\ Containing(k) # {} => /\ heap'.key[k].live /\ heap'.key[k].hasReadOnlyName
                               /\ Part(heap', "name", k) = Part(heap, "name", k)
      /\ heap'.key[k].live => heap'.key[k].refs = locks'[k] + Cardinality(Containing(k))
      /\ locks'[k] > 0 => heap'.key[k].live
  <2>1. CASE Written(k)
    BY <1>4, <2>1, KeyCounted DEF Written
  <2>2. CASE Born(k)
    BY <1>4, <2>2, KeyCounted DEF Born
  <2>3. CASE Died(k)
    BY <1>2, <1>4, <2>3, KeyCounted DEF Died
  <2>4. QED
    BY <2>1, <2>2, <2>3
<1>7. QED
  BY <1>3, <1>4, <1>5, <1>6, KeysChanged

\* What the application sees of a key.
LEMMA KeySeen ==
    ASSUME HeapInv, NEW k \in Keys
    PROVE  KeyView[k] = IF heap.key[k].live
                        THEN [name |-> Part(heap, "name", k), value |-> Part(heap, "data", k)]
                        ELSE Null
<1>1. heap.key[k].live => NameOf(heap, k) = Part(heap, "name", k)
  BY CowAssumption DEF HeapInv, KeysTidy, Part, Seen, NameOf
<1>2. ValueOf(heap, k) = Part(heap, "data", k)
  BY DEF Part, Seen, ValueOf
<1>3. QED
  BY <1>1, <1>2 DEF KeyView

\* The application sees that a key is alive.
LEMMA LiveSeen ==
    ASSUME HeapInv, NEW k \in Keys, heap.key[k].live
    PROVE  KeyView[k] # Null
<1>1. Part(heap, "name", k) \in Names
  BY DEF HeapInv, KeysTidy
<1>2. Part(heap, "data", k) \in Values \union {Null}
  <2>1. heap.key[k].data \in Pointers /\ heap.data \in Memory(Values)
    BY DEF HeapInv, Typed, IsHeap, KeyRecord, Parts, Vals
  <2>2. QED
    BY <2>1 DEF Part, Seen, Memory, Pointers
<1>3. KeyView[k] = [name |-> Part(heap, "name", k), value |-> Part(heap, "data", k)]
  BY KeySeen
<1>4. KeyView[k] \in [name : Names, value : Values \union {Null}]
  BY <1>1, <1>2, <1>3
<1>5. QED
  BY <1>4, CowAssumption

\* ... and the application sees a write, a new key or its end, and nothing else.
LEMMA OneKeySeen ==
    ASSUME HeapInv, HeapInv', NEW k \in Keys, Whole(heap)', OthersKept(k),
           Written(k) \/ Born(k) \/ Died(k)
    PROVE  Shared!Write(k) \/ Shared!NewKey(k) \/ Shared!Delete(k)
<1> DEFINE c == [name |-> Part(heap', "name", k), value |-> Part(heap', "data", k)]
<1>1. ASSUME NEW l \in Keys
      PROVE  KeyView'[l] = IF heap'.key[l].live
                           THEN [name |-> Part(heap', "name", l), value |-> Part(heap', "data", l)]
                           ELSE Null
  <2>1. heap'.key[l].live => NameOf(heap', l) = Part(heap', "name", l)
    BY CowAssumption DEF HeapInv, KeysTidy, Part, Seen, NameOf
  <2>2. ValueOf(heap', l) = Part(heap', "data", l)
    BY DEF Part, Seen, ValueOf
  <2>3. QED
    BY <2>1, <2>2 DEF KeyView
<1>2. \A l \in Keys \ {k} : KeyView'[l] = KeyView[l]
  <2> SUFFICES ASSUME NEW l \in Keys \ {k} PROVE KeyView'[l] = KeyView[l]
    OBVIOUS
  <2>1. heap'.key[l].live = heap.key[l].live
    BY DEF OthersKept
  <2>2. Part(heap', "name", l) = Part(heap, "name", l) /\ Part(heap', "data", l) = Part(heap, "data", l)
    BY DEF OthersKept, Parts
  <2>3. KeyView[l] = IF heap.key[l].live
                     THEN [name |-> Part(heap, "name", l), value |-> Part(heap, "data", l)]
                     ELSE Null
    BY KeySeen
  <2>4. QED
    BY <1>1, <2>1, <2>2, <2>3
<1>3. KeyView' = [KeyView EXCEPT ![k] = KeyView'[k]]
  BY <1>2 DEF KeyView
<1>4. SetView' = SetView /\ UNCHANGED locks
  BY DEF SetView, OthersKept, Array
<1>5. Containing(k) = {} => Shared!Holders(SetView, k) = {}
  <2> SUFFICES ASSUME NEW s \in Sets, SetView[s] # Null, k \in SetView[s] PROVE Containing(k) # {}
    BY DEF Shared!Holders
  <2>1. heap.set[s].live /\ SetView[s] = ToSet(Array(heap, s))
    BY DEF SetView
  <2>2. heap.set[s].data # Null
    <3> SUFFICES ASSUME heap.set[s].data = Null PROVE FALSE
      OBVIOUS
    <3>1. Array(heap, s) = <<>>
      BY DEF Array
    <3>2. QED
      BY <2>1, <3>1 DEF ToSet
  <2>3. Held(heap.set[s].data) /\ heap.set[s].data \in Arrays
    BY <2>1, <2>2 DEF HeapInv, Typed, NoDangling, Existing, Exists
  <2>4. k \in ToSet(heap.array[heap.set[s].data].val)
    BY <2>1, <2>2 DEF Array
  <2>5. QED
    BY <2>3, <2>4 DEF Containing
<1>6. Part(heap', "data", k) \in Values \union {Null}
  <2>1. heap'.key[k].data \in Pointers /\ heap'.data \in Memory(Values)
    BY DEF Whole, IsHeap, KeyRecord, Parts, Vals
  <2>2. QED
    BY <2>1 DEF Part, Seen, Memory, Pointers
<1>7. Part(heap', "name", k) \in Names => c \in Shared!Content /\ c # Null
  BY <1>6, CowAssumption DEF Shared!Content
<1>8. CASE Written(k)
  <2>1. KeyView'[k] = c /\ c \in Shared!Content /\ KeyView[k].name = Part(heap, "name", k)
    <3>1. KeyView[k] = [name |-> Part(heap, "name", k), value |-> Part(heap, "data", k)]
      BY <1>8, KeySeen DEF Written
    <3>2. KeyView'[k] = c
      BY <1>1, <1>8 DEF Written
    <3>3. c \in Shared!Content
      BY <1>7, <1>8 DEF Written
    <3>4. KeyView[k].name = Part(heap, "name", k)
      BY <3>1
    <3>5. QED
      BY <3>2, <3>3, <3>4
  <2>2. KeyView[k] # Null
    BY <1>8, LiveSeen DEF Written
  <2>3. c.name # KeyView[k].name => Shared!Holders(SetView, k) = {}
    BY <1>5, <1>8, <2>1, KeyCounted DEF Written
  <2> HIDE DEF c
  <2>4. Shared!Write(k)
    BY <1>3, <1>4, <2>1, <2>2, <2>3 DEF Shared!Write
  <2>5. QED
    BY <2>4
<1>9. CASE Born(k)
  <2>1. KeyView'[k] = c /\ c \in Shared!Content /\ KeyView[k] = Null
    BY <1>1, <1>7, <1>9, KeySeen DEF Born
  <2> HIDE DEF c
  <2>2. Shared!NewKey(k)
    BY <1>3, <1>4, <2>1 DEF Shared!NewKey
  <2>3. QED
    BY <2>2
<1>10. CASE Died(k)
  <2>1. KeyView'[k] = Null
    <3>1. ~heap'.key[k].live
      BY <1>10 DEF Died, NoKey
    <3>2. QED
      BY <1>1, <3>1
  <2>2. KeyView[k] # Null
    BY <1>10, LiveSeen DEF Died
  <2>3. Shared!Holders(SetView, k) = {} /\ locks[k] = 0
    BY <1>5, <1>10, KeyCounted DEF Died
  <2>4. Shared!Delete(k)
    BY <1>3, <1>4, <2>1, <2>2, <2>3 DEF Shared!Delete
  <2>5. QED
    BY <2>4
<1>11. QED
  BY <1>8, <1>9, <1>10

-----------------------------------------------------------------------------
(* The calls. *)

\* keyNew()
LEMMA KeyNewEffect ==
    ASSUME HeapInv, NEW n \in Names, KeyNew(n), MaxRefs > 0
    PROVE  \E k \in Keys : Whole(heap)' /\ OthersKept(k) /\ Born(k)
<1> DEFINE new == FreshKey(heap)
           g == keyNew(heap, n)
<1>1. Whole(heap) /\ FreeKeys(heap) # {} /\ heap' = g /\ UNCHANGED locks /\ n \in Vals("name")
  BY HeapWhole DEF KeyNew, Vals
<1>2. new \in Keys /\ ~heap.key[new].live
  BY <1>1, FreshKeyIsFree
<1>3. heap.key[new].refs = 0
  <2>1. heap.key[new] = NoKey
    BY <1>2, KeyCounted
  <2>2. QED
    BY <2>1 DEF NoKey
<1>4. /\ Whole(g) /\ g.set = heap.set /\ g.array = heap.array
      /\ g.key[new].live /\ g.key[new].refs = heap.key[new].refs
      /\ \A l \in Keys \ {new} : g.key[l] = heap.key[l]
      /\ \A l \in Keys : Part(g, "name", l) = IF l = new THEN n ELSE Part(heap, "name", l)
      /\ \A l \in Keys : Part(g, "data", l) = Part(heap, "data", l)
  <2> HIDE DEF g, new
  <2> QED
    BY <1>1, KeyMade DEF g, new
<1> HIDE DEF g, new
<1>5. OthersKept(new)
  BY <1>1, <1>4 DEF OthersKept, Parts
<1>6. Born(new)
  BY <1>1, <1>2, <1>3, <1>4 DEF Born
<1>7. QED
  BY <1>1, <1>2, <1>4, <1>5, <1>6

\* keySetName() and keySetRaw()
LEMMA WriteEffect ==
    ASSUME HeapInv, NEW kind \in Parts, NEW k \in Keys, NEW v \in Vals(kind), MaxRefs > 0,
           heap' = Overwrite(heap, kind, k, v), UNCHANGED locks, heap.key[k].live,
           kind = "name" => v \in Names /\ ~heap.key[k].hasReadOnlyName
    PROVE  Whole(heap)' /\ OthersKept(k) /\ Written(k)
<1> DEFINE g == Overwrite(heap, kind, k, v)
<1>1. Whole(heap)
  BY HeapWhole
<1>2. /\ Whole(g) /\ SameBut(heap, g, kind, k)
      /\ \A l \in Keys : Part(g, kind, l) = IF l = k THEN v ELSE Part(heap, kind, l)
  <2> HIDE DEF g
  <2> QED
    BY <1>1, PartWritten DEF g
<1> HIDE DEF g
<1>3. heap' = g
  BY DEF g
<1>4. g.set = heap.set /\ g.array = heap.array
  BY <1>2 DEF SameBut, Fields, Parts
<1>5. \A l \in Keys, fld \in {"live", "refs", "hasReadOnlyName"} : g.key[l][fld] = heap.key[l][fld]
  BY <1>2 DEF SameBut, KeyFields, Parts
<1>6. \A l \in Keys : /\ g.key[l].live = heap.key[l].live /\ g.key[l].refs = heap.key[l].refs
                      /\ g.key[l].hasReadOnlyName = heap.key[l].hasReadOnlyName
  BY <1>5
<1>7. ASSUME NEW l \in Keys, NEW other \in Parts \ {kind}
      PROVE  Part(g, other, l) = Part(heap, other, l)
  <2>1. g[other] = heap[other]
    BY <1>2 DEF SameBut, Fields, Parts
  <2>2. g.key[l][other] = heap.key[l][other]
    BY <1>2 DEF SameBut, KeyFields, Parts
  <2>3. QED
    BY <2>1, <2>2 DEF Part
<1>8. \A l \in Keys \ {k} : g.key[l] = heap.key[l]
  <2> SUFFICES ASSUME NEW l \in Keys \ {k} PROVE g.key[l] = heap.key[l]
    OBVIOUS
  <2>1. \A fld \in KeyFields : g.key[l][fld] = heap.key[l][fld]
    BY <1>2 DEF SameBut
  <2>2. g.key[l] \in KeyRecord /\ heap.key[l] \in KeyRecord
    BY <1>1, <1>2 DEF Whole, IsHeap
  <2>3. QED
    BY <2>1, <2>2 DEF KeyRecord, KeyFields
<1>9. OthersKept(k)
  <2>1. \A l \in Keys \ {k}, part \in Parts : Part(g, part, l) = Part(heap, part, l)
    BY <1>2, <1>7
  <2>2. QED
    BY <1>3, <1>4, <1>6, <1>8, <2>1 DEF OthersKept
<1>10. Written(k)
  <2>1. Part(heap, "name", k) \in Names
    BY DEF HeapInv, KeysTidy
  <2>2. CASE kind = "name"
    BY <1>2, <1>3, <1>6, <2>2 DEF Written
  <2>3. CASE kind # "name"
    <3>1. Part(g, "name", k) = Part(heap, "name", k)
      BY <1>7, <2>3 DEF Parts
    <3>2. QED
      BY <1>3, <1>6, <2>1, <3>1 DEF Written
  <2>4. QED
    BY <2>2, <2>3
<1>11. QED
  BY <1>2, <1>3, <1>9, <1>10

\* keyDel(), of a key that somebody counts on or of one that nobody does
LEMMA KeyDelEffect ==
    ASSUME HeapInv, NEW k \in Keys, KeyDel(k)
    PROVE  UNCHANGED vars \/ (Whole(heap)' /\ OthersKept(k) /\ Died(k))
<1> DEFINE g == keyDel(heap, k)
<1>1. heap' = g /\ UNCHANGED locks /\ heap.key[k].live /\ Whole(heap)
  BY HeapWhole DEF KeyDel, Live
<1>2. CASE heap.key[k].refs > 0
  BY <1>1, <1>2 DEF keyDel, vars
<1>3. CASE ~(heap.key[k].refs > 0)
  <2>1. /\ Whole(g) /\ g.set = heap.set /\ g.array = heap.array
        /\ g.key[k] = NoKey /\ \A l \in Keys \ {k} : g.key[l] = heap.key[l]
        /\ \A l \in Keys \ {k}, kind \in Parts : Part(g, kind, l) = Part(heap, kind, l)
    <3> HIDE DEF g
    <3> QED
      BY <1>1, <1>3, KeyDropped DEF g
  <2> HIDE DEF g
  <2>2. heap.key[k].refs = 0
    <3>1. heap.key[k].refs \in 0 .. MaxRefs
      BY <1>1 DEF Whole, IsHeap, KeyRecord
    <3>2. QED
      BY <1>3, <3>1, CowAssumption
  <2>3. QED
    BY <1>1, <2>1, <2>2 DEF OthersKept, Died
<1>4. QED
  BY <1>2, <1>3

\* keyCopy()
LEMMA KeyCopyEffect ==
    ASSUME HeapInv, NoneAtLimit(heap), NEW dest \in Keys, NEW source \in Keys,
           NEW parts \in SUBSET Parts, KeyCopy(dest, source, parts)
    PROVE  UNCHANGED vars \/ (Whole(heap)' /\ OthersKept(dest) /\ Written(dest))
<1> DEFINE g == keyCopy(heap, dest, source, parts)
<1>1. /\ heap' = g /\ UNCHANGED locks /\ heap.key[dest].live /\ heap.key[source].live /\ Whole(heap)
      /\ "name" \in parts => ~heap.key[dest].hasReadOnlyName
  BY HeapWhole DEF KeyCopy, Live
<1>2. CASE source = dest
  BY <1>1, <1>2 DEF keyCopy, vars
<1>3. CASE source # dest
  <2>1. /\ Whole(g) /\ g.set = heap.set /\ g.array = heap.array
        /\ \A l \in Keys, fld \in KeyFields :
              g.key[l][fld] = heap.key[IF l = dest /\ fld \in parts THEN source ELSE l][fld]
        /\ \A l \in Keys, kind \in Parts :
              Part(g, kind, l) = Part(heap, kind, IF l = dest /\ kind \in parts THEN source ELSE l)
    <3> HIDE DEF g
    <3> QED
      BY <1>1, <1>3, KeyCopied DEF g
  <2> HIDE DEF g
  <2>2. \A l \in Keys, fld \in {"live", "refs", "hasReadOnlyName"} : g.key[l][fld] = heap.key[l][fld]
    BY <2>1 DEF Parts, KeyFields
  <2>3. \A l \in Keys : /\ g.key[l].live = heap.key[l].live /\ g.key[l].refs = heap.key[l].refs
                        /\ g.key[l].hasReadOnlyName = heap.key[l].hasReadOnlyName
    BY <2>2
  <2>4. \A l \in Keys \ {dest} : g.key[l] = heap.key[l]
    <3> SUFFICES ASSUME NEW l \in Keys \ {dest} PROVE g.key[l] = heap.key[l]
      OBVIOUS
    <3>1. \A fld \in KeyFields : g.key[l][fld] = heap.key[l][fld]
      BY <2>1
    <3>2. g.key[l] \in KeyRecord /\ heap.key[l] \in KeyRecord
      BY <1>1, <2>1 DEF Whole, IsHeap
    <3>3. QED
      BY <3>1, <3>2 DEF KeyRecord, KeyFields
  <2>5. OthersKept(dest)
    <3>1. \A l \in Keys \ {dest}, kind \in Parts : Part(g, kind, l) = Part(heap, kind, l)
      BY <2>1
    <3>2. QED
      BY <1>1, <2>1, <2>3, <2>4, <3>1 DEF OthersKept
  <2>6. Written(dest)
    <3>1. /\ Part(heap, "name", dest) \in Names /\ Part(heap, "name", source) \in Names
      BY <1>1 DEF HeapInv, KeysTidy
    <3>2. Part(g, "name", dest) = Part(heap, "name", IF "name" \in parts THEN source ELSE dest)
      BY <2>1 DEF Parts
    <3>3. QED
      BY <1>1, <2>3, <3>1, <3>2 DEF Written
  <2>7. QED
    BY <1>1, <2>1, <2>5, <2>6
<1>4. QED
  BY <1>2, <1>3

\* keyDup()
LEMMA KeyDupEffect ==
    ASSUME HeapInv, NoneAtLimit(heap), MaxRefs > 1, NEW source \in Keys, KeyDup(source)
    PROVE  \E k \in Keys : Whole(heap)' /\ OthersKept(k) /\ Born(k)
<1> DEFINE new == FreshKey(heap)
           e == keyNew(heap, Slash)
           g == keyCopy(e, new, source, Parts)
<1>1. /\ Whole(heap) /\ FreeKeys(heap) # {} /\ UNCHANGED locks /\ heap.key[source].live
      /\ Slash \in Vals("name") /\ MaxRefs > 0 /\ MaxRefs \in Nat
  BY HeapWhole, CowAssumption DEF KeyDup, Vals, Live
<1>2. heap' = g
  BY DEF KeyDup, keyDup, Parts
<1>3. new \in Keys /\ ~heap.key[new].live /\ new # source
  BY <1>1, FreshKeyIsFree
<1>4. heap.key[new].refs = 0 /\ heap.key[new] = NoKey
  <2>1. heap.key[new] = NoKey
    BY <1>3, KeyCounted
  <2>2. QED
    BY <2>1 DEF NoKey
<1>5. /\ Whole(e) /\ e.set = heap.set /\ e.array = heap.array
      /\ e.key[new].live /\ e.key[new].refs = heap.key[new].refs
      /\ \A l \in Keys \ {new} : e.key[l] = heap.key[l]
      /\ \A l \in Keys : Part(e, "name", l) = IF l = new THEN Slash ELSE Part(heap, "name", l)
      /\ \A l \in Keys : Part(e, "data", l) = Part(heap, "data", l)
      /\ e.data = heap.data
      /\ \A c \in Cells : e.name[c].refs <= heap.name[c].refs \/ e.name[c].refs = 1
  <2> HIDE DEF e, new
  <2> QED
    BY <1>1, KeyMade DEF e, new
<1> HIDE DEF e, new
<1>6. NoneAtLimit(e)
  <2>1. \A c \in Cells : /\ heap.name[c].refs < MaxRefs /\ heap.data[c].refs < MaxRefs
                         /\ heap.name[c].refs \in Nat /\ e.name[c].refs \in Nat
    <3>1. heap.name \in Memory(Vals("name")) /\ e.name \in Memory(Vals("name"))
      BY <1>1, <1>5 DEF Whole, IsHeap, Parts
    <3>2. \A c \in Cells : heap.name[c].refs \in Nat /\ e.name[c].refs \in Nat
      BY <1>1, <3>1 DEF Memory
    <3>3. \A c \in Cells : heap.name[c].refs < MaxRefs /\ heap.data[c].refs < MaxRefs
      BY DEF NoneAtLimit, Parts
    <3>4. QED
      BY <3>2, <3>3
  <2>2. \A c \in Cells : e.name[c].refs < MaxRefs /\ e.data[c].refs < MaxRefs
    BY <1>1, <1>5, <2>1
  <2>3. QED
    BY <2>2 DEF NoneAtLimit, Parts
<1>7. /\ Whole(g) /\ g.set = e.set /\ g.array = e.array
      /\ \A l \in Keys, fld \in KeyFields :
            g.key[l][fld] = e.key[IF l = new /\ fld \in Parts THEN source ELSE l][fld]
      /\ \A l \in Keys, kind \in Parts :
            Part(g, kind, l) = Part(e, kind, IF l = new /\ kind \in Parts THEN source ELSE l)
  <2>1. Parts \in SUBSET Parts
    OBVIOUS
  <2> HIDE DEF g
  <2>2. QED
    BY <1>3, <1>5, <1>6, <2>1, KeyCopied DEF g
<1> HIDE DEF g
<1>8. \A l \in Keys, fld \in {"live", "refs", "hasReadOnlyName"} : g.key[l][fld] = e.key[l][fld]
  BY <1>7 DEF Parts, KeyFields
<1>9. g.key[new].live /\ g.key[new].refs = 0
  <2>1. g.key[new]["live"] = e.key[new]["live"] /\ g.key[new]["refs"] = e.key[new]["refs"]
    BY <1>3, <1>8
  <2>2. QED
    BY <1>4, <1>5, <2>1
<1>10. \A l \in Keys \ {new} : g.key[l] = heap.key[l]
  <2> SUFFICES ASSUME NEW l \in Keys \ {new} PROVE g.key[l] = heap.key[l]
    OBVIOUS
  <2>1. \A fld \in KeyFields : g.key[l][fld] = heap.key[l][fld]
    BY <1>5, <1>7
  <2>2. g.key[l] \in KeyRecord /\ heap.key[l] \in KeyRecord
    BY <1>1, <1>7 DEF Whole, IsHeap
  <2>3. QED
    BY <2>1, <2>2 DEF KeyRecord, KeyFields
<1>11. \A l \in Keys \ {new}, kind \in Parts : Part(g, kind, l) = Part(heap, kind, l)
  BY <1>5, <1>7 DEF Parts
<1>12. OthersKept(new)
  BY <1>1, <1>2, <1>5, <1>7, <1>10, <1>11 DEF OthersKept
<1>13. Part(g, "name", new) \in Names
  <2>1. Part(g, "name", new) = Part(heap, "name", source)
    BY <1>3, <1>5, <1>7 DEF Parts
  <2>2. QED
    BY <1>1, <2>1 DEF HeapInv, KeysTidy
<1>14. Born(new)
  BY <1>2, <1>3, <1>9, <1>13 DEF Born
<1>15. QED
  BY <1>2, <1>3, <1>7, <1>12, <1>14

\* The counter of a key changes together with the locks on it.
LEMMA RefsEffect ==
    ASSUME HeapInv, NEW k \in Keys, heap.key[k].live, NEW n \in Nat, n <= MaxRefs,
           heap' = [heap EXCEPT !.key[k].refs = n],
           locks' \in [Keys -> Nat], \A l \in Keys \ {k} : locks'[l] = locks[l],
           n = locks'[k] + Cardinality(Containing(k))
    PROVE  HeapInv' /\ KeyView' = KeyView /\ SetView' = SetView
<1> DEFINE R == [heap.key[k] EXCEPT !.refs = n]
           K == [heap.key EXCEPT ![k] = R]
<1>1. Whole(heap)
  BY HeapWhole
<1>2. heap = [f \in Fields |-> heap[f]] /\ heap.key \in [Keys -> KeyRecord]
  BY <1>1 DEF Whole, IsHeap
<1>3. heap' = [heap EXCEPT !.key = K]
  BY <1>2 DEF Fields
<1>4. /\ R \in KeyRecord /\ R.refs = n
      /\ \A fld \in KeyFields \ {"refs"} : R[fld] = heap.key[k][fld]
  <2>1. heap.key[k] \in KeyRecord /\ n \in 0 .. MaxRefs
    BY <1>2, CowAssumption
  <2>2. QED
    BY <2>1 DEF KeyRecord, KeyFields
<1> HIDE DEF R
<1>5. K \in [Keys -> KeyRecord] /\ K[k] = R /\ \A l \in Keys \ {k} : K[l] = heap.key[l]
  BY <1>2, <1>4
<1> HIDE DEF K
<1>6. heap' = [f \in Fields |-> heap'[f]] /\ heap'.key = K /\ \A f \in Fields \ {"key"} : heap'[f] = heap[f]
  BY <1>2, <1>3 DEF Fields
<1>7. heap'.set = heap.set /\ heap'.array = heap.array /\ heap'.name = heap.name /\ heap'.data = heap.data
  BY <1>6 DEF Fields
<1>8. \A l \in Keys, fld \in KeyFields \ {"refs"} : K[l][fld] = heap.key[l][fld]
  BY <1>4, <1>5
<1>9. \A l \in Keys : /\ heap'.key[l].live = heap.key[l].live /\ heap'.key[l].name = heap.key[l].name
                      /\ heap'.key[l].data = heap.key[l].data
                      /\ heap'.key[l].hasReadOnlyName = heap.key[l].hasReadOnlyName
  <2>1. \A l \in Keys, fld \in {"live", "name", "data", "hasReadOnlyName"} :
           heap'.key[l][fld] = heap.key[l][fld]
    BY <1>6, <1>8 DEF KeyFields
  <2>2. QED
    BY <2>1
<1>10. Whole(heap)'
  <2>1. ASSUME NEW kind \in Parts PROVE heap'[kind] = heap[kind] /\ Pts(heap', kind) = Pts(heap, kind)
    <3>1. heap'[kind] = heap[kind]
      BY <1>6 DEF Fields, Parts
    <3>2. \A l \in Keys : heap'.key[l][kind] = heap.key[l][kind]
      BY <1>6, <1>8 DEF Parts, KeyFields
    <3>3. QED
      BY <3>1, <3>2 DEF Pts
  <2>2. QED
    BY <1>1, <1>5, <1>6, <2>1 DEF Whole, IsHeap
<1>11. \A l \in Keys : Part(heap', "name", l) = Part(heap, "name", l)
  BY <1>7, <1>9 DEF Part
<1>12. KeysTidy'
  <2>1. \A l \in Keys \ {k} : heap'.key[l] = heap.key[l]
    BY <1>5, <1>6
  <2>2. QED
    BY <1>9, <1>11, <2>1 DEF HeapInv, KeysTidy
<1>13. heap'.key[k].refs = n /\ \A l \in Keys \ {k} : heap'.key[l].refs = heap.key[l].refs
  BY <1>4, <1>5, <1>6
<1>14. ASSUME NEW l \in Keys
       PROVE  /\ Containing(l) # {} => /\ heap'.key[l].live /\ heap'.key[l].hasReadOnlyName
                                       /\ Part(heap', "name", l) = Part(heap, "name", l)
              /\ heap'.key[l].live => heap'.key[l].refs = locks'[l] + Cardinality(Containing(l))
              /\ locks'[l] > 0 => heap'.key[l].live
  BY <1>9, <1>11, <1>13, KeyCounted
<1>15. HeapInv'
  BY <1>7, <1>10, <1>12, <1>14, KeysChanged
<1>16. SetView' = SetView
  BY <1>7 DEF SetView, Array
<1>17. KeyView' = KeyView
  <2>1. \A l \in Keys : NameOf(heap', l) = NameOf(heap, l) /\ ValueOf(heap', l) = ValueOf(heap, l)
    BY <1>7, <1>9 DEF NameOf, ValueOf
  <2>2. QED
    BY <1>9, <2>1 DEF KeyView
<1>18. QED
  BY <1>15, <1>16, <1>17

\* No counter is at its limit.
Unlimited == NoneAtLimit(heap) /\ \A k \in Keys : heap.key[k].refs < MaxRefs

\* keyIncRef() by the application
LEMMA KeyIncRefEffect ==
    ASSUME HeapInv, Unlimited, NEW k \in Keys, KeyIncRef(k)
    PROVE  HeapInv' /\ Shared!Lock(k)
<1> DEFINE n == heap.key[k].refs + 1
<1>1. /\ heap.key[k].live /\ locks' = [locks EXCEPT ![k] = @ + 1] /\ heap' = keyIncRef(heap, k)
      /\ locks \in [Keys -> Nat] /\ heap.key[k].refs \in 0 .. MaxRefs /\ heap.key[k].refs < MaxRefs
  BY HeapWhole DEF KeyIncRef, Live, HeapInv, Typed, IsHeap, KeyRecord, Unlimited
<1>2. heap' = [heap EXCEPT !.key[k].refs = n] /\ n \in Nat /\ n <= MaxRefs
  BY <1>1, CowAssumption DEF keyIncRef
<1>3. /\ locks' \in [Keys -> Nat] /\ locks'[k] = locks[k] + 1
      /\ \A l \in Keys \ {k} : locks'[l] = locks[l]
  BY <1>1
<1>4. n = locks'[k] + Cardinality(Containing(k))
  BY <1>1, <1>3, KeyCounted
<1> HIDE DEF n
<1>5. HeapInv' /\ KeyView' = KeyView /\ SetView' = SetView
  BY <1>1, <1>2, <1>3, <1>4, RefsEffect
<1>6. KeyView[k] # Null
  BY <1>1, LiveSeen
<1>7. Shared!Lock(k)
  BY <1>1, <1>5, <1>6 DEF Shared!Lock
<1>8. QED
  BY <1>5, <1>7

\* keyDecRef() by the application
LEMMA KeyDecRefEffect ==
    ASSUME HeapInv, NEW k \in Keys, KeyDecRef(k)
    PROVE  HeapInv' /\ Shared!Unlock(k)
<1> DEFINE n == heap.key[k].refs - 1
<1>1. /\ locks[k] > 0 /\ locks' = [locks EXCEPT ![k] = @ - 1] /\ heap' = keyDecRef(heap, k)
      /\ locks \in [Keys -> Nat] /\ heap.key[k].refs \in 0 .. MaxRefs
  BY DEF KeyDecRef, HeapInv, Typed, IsHeap, KeyRecord
<1>2. /\ heap.key[k].live /\ heap.key[k].refs = locks[k] + Cardinality(Containing(k))
      /\ Cardinality(Containing(k)) \in Nat
  BY <1>1, KeyCounted
<1>3. heap' = [heap EXCEPT !.key[k].refs = n] /\ n \in Nat /\ n <= MaxRefs
  BY <1>1, <1>2, CowAssumption DEF keyDecRef
<1>4. /\ locks' \in [Keys -> Nat] /\ locks'[k] = locks[k] - 1
      /\ \A l \in Keys \ {k} : locks'[l] = locks[l]
  BY <1>1
<1>5. n = locks'[k] + Cardinality(Containing(k))
  BY <1>1, <1>2, <1>4
<1> HIDE DEF n
<1>6. HeapInv' /\ KeyView' = KeyView /\ SetView' = SetView
  BY <1>2, <1>3, <1>4, <1>5, RefsEffect
<1>7. Shared!Unlock(k)
  BY <1>1, <1>6 DEF Shared!Unlock
<1>8. QED
  BY <1>6, <1>7

-----------------------------------------------------------------------------
(* Nothing is counted, nothing is held and nothing is read at first. *)
THEOREM InitialHeap ==
    Init => HeapInv
<1> SUFFICES ASSUME Init PROVE HeapInv
  OBVIOUS
<1>1. /\ heap = [f \in Fields |-> heap[f]] /\ heap.key = [k \in Keys |-> NoKey]
      /\ heap.set = [s \in AllSets |-> NoSet] /\ heap.name = [c \in Cells |-> Freed]
      /\ heap.data = [c \in Cells |-> Freed] /\ heap.array = [a \in Arrays |-> Freed]
      /\ locks = [k \in Keys |-> 0]
  BY DEF Init, Fields
<1>2. NoKey \in KeyRecord /\ NoKey.live = FALSE
  BY CowAssumption DEF NoKey, KeyRecord, Pointers
<1>3. Freed.refs = 0 /\ Freed.val = Null /\ NoSet.data = Null /\ NoSet.live = FALSE
  BY DEF Freed, NoSet
<1>4. \A kind \in Parts : heap[kind] = [c \in Cells |-> Freed]
  BY <1>1 DEF Parts
<1>5. Typed
  <2>1. \A kind \in Parts : heap[kind] \in Memory(Vals(kind))
    BY <1>4, CowAssumption DEF Memory, Freed
  <2>2. \A s \in Sets : heap.set[s].data = Null
    BY <1>1, <1>3 DEF AllSets
  <2>3. IsHeap(heap)
    BY <1>1, <1>2, <2>1 DEF IsHeap
  <2>4. QED
    BY <1>1, <2>2, <2>3 DEF Typed
<1>6. Live = {} /\ Existing = {}
  BY <1>1, <1>2, <1>3 DEF Live, Existing, Exists, AllSets
<1>7. KeysTidy
  BY <1>1, <1>2 DEF KeysTidy
<1>8. \A a \in Arrays : heap.array[a].refs = 0 /\ ~Held(a)
  BY <1>1, <1>3 DEF Held
<1>9. Cardinality({}) = 0
  BY FS_EmptySet
<1>10. RefsExact
  <2>1. ASSUME NEW c \in Cells, NEW kind \in {"name", "data"}
        PROVE  LET users == {k \in Live : heap.key[k][kind] = c}
               IN /\ heap[kind][c].refs = Cardinality(users)
                  /\ heap[kind][c].val = Null <=> users = {}
    <3>1. heap[kind][c] = Freed
      BY <1>4 DEF Parts
    <3>2. {k \in Live : heap.key[k][kind] = c} = {}
      BY <1>6
    <3>3. QED
      BY <1>3, <1>9, <3>1, <3>2
  <2>2. ASSUME NEW a \in Arrays
        PROVE  LET users == {s \in AllSets : heap.set[s].data = a}
               IN heap.array[a].refs = Cardinality(users) /\ (Held(a) <=> users # {})
    <3>1. a # Null
      BY CowAssumption
    <3>2. {s \in AllSets : heap.set[s].data = a} = {}
      BY <1>1, <1>3, <3>1
    <3>3. QED
      BY <1>8, <1>9, <3>2
  <2>3. QED
    BY <1>6, <2>1, <2>2 DEF RefsExact
<1>11. NamesKept /\ Ordered
  BY <1>6, <1>8 DEF NamesKept, Ordered
<1>12. NoDangling
  BY <1>1, <1>6, <1>8 DEF NoDangling
<1>13. QED
  BY <1>5, <1>7, <1>10, <1>11, <1>12 DEF HeapInv

\* Nothing happens.
LEMMA HeapStutters ==
    ASSUME HeapInv, UNCHANGED vars
    PROVE  HeapInv' /\ UNCHANGED Shared!vars
<1>1. heap' = heap /\ locks' = locks
  BY DEF vars
<1>2. Whole(heap)' /\ KeysTidy' /\ locks' \in [Keys -> Nat]
  BY <1>1, HeapWhole DEF HeapInv, KeysTidy, Typed
<1>3. ASSUME NEW k \in Keys
      PROVE  /\ Containing(k) # {} => /\ heap'.key[k].live /\ heap'.key[k].hasReadOnlyName
                                      /\ Part(heap', "name", k) = Part(heap, "name", k)
             /\ heap'.key[k].live => heap'.key[k].refs = locks'[k] + Cardinality(Containing(k))
             /\ locks'[k] > 0 => heap'.key[k].live
  BY <1>1, KeyCounted
<1>4. HeapInv'
  BY <1>1, <1>2, <1>3, KeysChanged
<1>5. UNCHANGED Shared!vars
  BY <1>1 DEF Shared!vars, KeyView, SetView
<1>6. QED
  BY <1>4, <1>5

\* All calls on keys.
LEMMA KeyCallEffect ==
    ASSUME HeapInv, Unlimited, KeyCalls
    PROVE  HeapInv' /\ (Shared!Next \/ UNCHANGED vars)
<1>0. /\ MaxRefs > 0 /\ MaxRefs > 1 /\ NoneAtLimit(heap) /\ "name" \in Parts /\ "data" \in Parts
  BY CowAssumption DEF Unlimited, Parts
<1>1. ASSUME NEW k \in Keys, Whole(heap)', OthersKept(k), Written(k) \/ Born(k) \/ Died(k)
      PROVE  HeapInv' /\ Shared!Next
  <2>1. HeapInv'
    BY <1>1, OneKeyInv
  <2>2. Shared!Write(k) \/ Shared!NewKey(k) \/ Shared!Delete(k)
    BY <1>1, <2>1, OneKeySeen
  <2>3. QED
    BY <2>1, <2>2 DEF Shared!Next
<1>2. ASSUME UNCHANGED vars PROVE HeapInv'
  BY <1>2, HeapStutters
<1>3. ASSUME NEW n \in Names, KeyNew(n) PROVE HeapInv' /\ Shared!Next
  BY <1>0, <1>1, <1>3, KeyNewEffect
<1>4. ASSUME NEW k \in Keys, KeyDup(k) PROVE HeapInv' /\ Shared!Next
  BY <1>0, <1>1, <1>4, KeyDupEffect
<1>5. ASSUME NEW k \in Keys, KeyDel(k) PROVE HeapInv' /\ (Shared!Next \/ UNCHANGED vars)
  BY <1>1, <1>2, <1>5, KeyDelEffect
<1>6. ASSUME NEW k \in Keys, KeyIncRef(k) PROVE HeapInv' /\ Shared!Next
  <2>1. HeapInv' /\ Shared!Lock(k)
    BY <1>6, KeyIncRefEffect
  <2>2. QED
    BY <2>1 DEF Shared!Next
<1>7. ASSUME NEW k \in Keys, KeyDecRef(k) PROVE HeapInv' /\ Shared!Next
  <2>1. HeapInv' /\ Shared!Unlock(k)
    BY <1>7, KeyDecRefEffect
  <2>2. QED
    BY <2>1 DEF Shared!Next
<1>8. ASSUME NEW k \in Keys, NEW n \in Names, KeySetName(k, n) PROVE HeapInv' /\ Shared!Next
  <2>1. n \in Vals("name")
    BY DEF Vals
  <2>2. Whole(heap)' /\ OthersKept(k) /\ Written(k)
    BY <1>0, <1>8, <2>1, WriteEffect DEF KeySetName, Live
  <2>3. QED
    BY <1>1, <2>2
<1>9. ASSUME NEW k \in Keys, NEW v \in Values, KeySetRaw(k, v) PROVE HeapInv' /\ Shared!Next
  <2>1. v \in Vals("data")
    BY DEF Vals
  <2>2. Whole(heap)' /\ OthersKept(k) /\ Written(k)
    BY <1>0, <1>9, <2>1, WriteEffect DEF KeySetRaw, Live
  <2>3. QED
    BY <1>1, <2>2
<1>10. ASSUME NEW k \in Keys, NEW l \in Keys, NEW parts \in SUBSET Parts, KeyCopy(k, l, parts)
       PROVE  HeapInv' /\ (Shared!Next \/ UNCHANGED vars)
  BY <1>0, <1>1, <1>2, <1>10, KeyCopyEffect
<1>11. QED
  BY <1>3, <1>4, <1>5, <1>6, <1>7, <1>8, <1>9, <1>10 DEF KeyCalls, Parts

\* A client that makes calls on keys, and no counter is at its limit.
KeyClient == HeapInv /\ [][KeyCalls /\ Unlimited]_vars

\* The heap stays in order.
LEMMA HeapKept ==
    KeyClient => []HeapInv
<1>1. HeapInv /\ [KeyCalls /\ Unlimited]_vars => HeapInv'
  <2> SUFFICES ASSUME HeapInv, [KeyCalls /\ Unlimited]_vars PROVE HeapInv'
    OBVIOUS
  <2>1. CASE KeyCalls /\ Unlimited
    BY <2>1, KeyCallEffect
  <2>2. CASE UNCHANGED vars
    BY <2>2, HeapStutters
  <2>3. QED
    BY <2>1, <2>2
<1>2. QED
  BY <1>1, PTL DEF KeyClient

(* From any heap in order, with any keys and key sets in it, and through   *)
(* any sequence of keyNew(), keyDup(), keyCopy(), keyDel(), keyIncRef(),   *)
(* keyDecRef() and writes of names and values, as long as no counter is at *)
(* its limit: every counter says how many pointers there are, and what     *)
(* nobody points to is freed, ...                                          *)
THEOREM KeyCallsCountExactly ==
    KeyClient => []RefsExact
<1>1. HeapInv => RefsExact
  BY DEF HeapInv
<1>2. QED
  BY <1>1, HeapKept, PTL

(* ... no pointer leads to freed memory, though keyCopy() releases the     *)
(* destination's name and value before it takes the source's, ...          *)
THEOREM KeyCallsFreeNothingUsed ==
    KeyClient => []NoDangling
<1>1. HeapInv => NoDangling
  BY DEF HeapInv
<1>2. QED
  BY <1>1, HeapKept, PTL

(* ... and the arrays of all key sets stay ordered, since the name of a    *)
(* key in one of them is never written, not even through another key that  *)
(* shares it.                                                              *)
THEOREM KeyCallsKeepOrder ==
    KeyClient => []Ordered
<1>1. HeapInv => Ordered
  BY DEF HeapInv
<1>2. QED
  BY <1>1, HeapKept, PTL

(* The same calls, seen from outside, are calls on keys that share nothing *)
(* with one another: a copy-on-write is never visible in another key.      *)
THEOREM KeyCallsUnseen ==
    KeyClient => [][Shared!Next]_(Shared!vars)
<1>1. HeapInv /\ [KeyCalls /\ Unlimited]_vars => HeapInv' /\ [Shared!Next]_(Shared!vars)
  <2> SUFFICES ASSUME HeapInv, [KeyCalls /\ Unlimited]_vars PROVE HeapInv' /\ [Shared!Next]_(Shared!vars)
    OBVIOUS
  <2>1. UNCHANGED vars => HeapInv' /\ UNCHANGED Shared!vars
    BY HeapStutters
  <2>2. CASE KeyCalls /\ Unlimited
    BY <2>1, <2>2, KeyCallEffect
  <2>3. QED
    BY <2>1, <2>2
<1>2. QED
  BY <1>1, PTL DEF KeyClient
=============================================================================
