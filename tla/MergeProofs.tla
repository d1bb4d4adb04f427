---------------------------- MODULE MergeProofs -----------------------------
(***************************************************************************)
(* Proofs about Merge, for any finite set of keys and any values: what a   *)
(* merge results in, and that its conflicts are counted right although     *)
(* most of them are met two or three times.                                *)
(***************************************************************************)
EXTENDS MergeInv, FiniteSetTheorems, TLAPS

-----------------------------------------------------------------------------
(***************************************************************************)
(* One key in base, our and their key set.                                 *)
(***************************************************************************)

\* What is appended is a value of one of the three keys, and there are no other
\* counters.
LEMMA CheckKeyType ==
    ASSUME NEW checked \in Held, NEW first \in Held, NEW second \in Held,
           NEW dominant \in BOOLEAN, NEW baseIs \in {"checked", "first", "second"}
    PROVE  /\ CheckKey(checked, first, second, dominant, baseIs).append \in Held
           /\ CheckKey(checked, first, second, dominant, baseIs).counter
                \in Counters \union {"none"}
BY DEF CheckKey, AllExist, TwoAreEqual, TwoOfThreeExist, KeysAreEqual, Conflict, Nothing, Outcome,
       Held, Counters

\* The last of x, y and z that is there is the three-way merge of b, o and t.
MergesTo(b, o, t, s, x, y, z) ==
    (IF z # Absent THEN z ELSE IF y # Absent THEN y ELSE x)
      = IF o = b THEN t ELSE IF t = b THEN o ELSE IF s = "our" THEN o ELSE t

\* The three checks of a key together give its three-way merge.
LEMMA KeyExact ==
    ASSUME NEW b \in Held, NEW o \in Held, NEW t \in Held, NEW s \in Strategies,
           s # "abort" \/ o = b \/ t = b,
           NEW x, x = CheckKey(b, o, t, FALSE, "checked").append,
           NEW y, y = CheckKey(t, b, o, s = "their", "first").append,
           NEW z, z = CheckKey(o, t, b, s = "our", "second").append
    PROVE  MergesTo(b, o, t, s, x, y, z)
BY DEF MergesTo, CheckKey, AllExist, TwoAreEqual, TwoOfThreeExist, KeysAreEqual, Conflict, Nothing, Outcome,
       Held, Strategies

\* A key that one key set lacks and the others disagree about.
Lacks(absent, v, w) == absent = Absent /\ Absent \notin {v, w} /\ v # w

\* In which check which counter is increased: x, y and z are the counters of the
\* checks of base, their and our key set.
Verdicts(b, o, t, x, y, z) ==
    /\ x = "onlyBase" <=> b # Absent /\ o = Absent /\ t = Absent
    /\ y # "onlyBase" /\ z # "onlyBase"
    /\ x = "allExist" <=> Absent \notin {b, o, t} /\ o = t /\ o # b
    /\ y = "allExist" <=> x = "allExist"
    /\ z = "allExist" <=> x = "allExist"
    /\ x = "threeDifferent" <=> Absent \notin {b, o, t} /\ o # t /\ o # b /\ t # b
    /\ y = "threeDifferent" <=> x = "threeDifferent"
    /\ z = "threeDifferent" <=> x = "threeDifferent"
    /\ x # "baseEmpty"
    /\ y = "baseEmpty" <=> b = Absent /\ o = t /\ o # Absent
    /\ z = "baseEmpty" <=> y = "baseEmpty"
    /\ x = "oneEmpty" <=> Lacks(o, b, t) \/ Lacks(t, b, o)
    /\ y = "oneEmpty" <=> Lacks(b, o, t) \/ Lacks(o, b, t)
    /\ z = "oneEmpty" <=> Lacks(b, o, t) \/ Lacks(t, b, o)

LEMMA KeyCounters ==
    ASSUME NEW b \in Held, NEW o \in Held, NEW t \in Held, NEW s \in Strategies,
           NEW x, x = CheckKey(b, o, t, FALSE, "checked").counter,
           NEW y, y = CheckKey(t, b, o, s = "their", "first").counter,
           NEW z, z = CheckKey(o, t, b, s = "our", "second").counter
    PROVE  Verdicts(b, o, t, x, y, z)
<1>. USE DEF CheckKey, AllExist, TwoAreEqual, TwoOfThreeExist, KeysAreEqual, Conflict, Nothing,
             Outcome, Lacks, Held, Strategies
<1>1. x = "onlyBase" <=> b # Absent /\ o = Absent /\ t = Absent
  OBVIOUS
<1>2. y # "onlyBase" /\ z # "onlyBase"
  OBVIOUS
<1>3. x = "allExist" <=> Absent \notin {b, o, t} /\ o = t /\ o # b
  OBVIOUS
<1>4. y = "allExist" <=> Absent \notin {b, o, t} /\ o = t /\ o # b
  OBVIOUS
<1>5. z = "allExist" <=> Absent \notin {b, o, t} /\ o = t /\ o # b
  OBVIOUS
<1>6. x = "threeDifferent" <=> Absent \notin {b, o, t} /\ o # t /\ o # b /\ t # b
  OBVIOUS
<1>7. y = "threeDifferent" <=> Absent \notin {b, o, t} /\ o # t /\ o # b /\ t # b
  OBVIOUS
<1>8. z = "threeDifferent" <=> Absent \notin {b, o, t} /\ o # t /\ o # b /\ t # b
  OBVIOUS
<1>9. x # "baseEmpty"
  OBVIOUS
<1>10. y = "baseEmpty" <=> b = Absent /\ o = t /\ o # Absent
  OBVIOUS
<1>11. z = "baseEmpty" <=> b = Absent /\ o = t /\ o # Absent
  OBVIOUS
<1>12. x = "oneEmpty" <=> Lacks(o, b, t) \/ Lacks(t, b, o)
  OBVIOUS
<1>13. y = "oneEmpty" <=> Lacks(b, o, t) \/ Lacks(o, b, t)
  OBVIOUS
<1>14. z = "oneEmpty" <=> Lacks(b, o, t) \/ Lacks(t, b, o)
  OBVIOUS
<1>. HIDE DEF CheckKey, AllExist, TwoAreEqual, TwoOfThreeExist, KeysAreEqual, Conflict, Nothing,
              Outcome, Lacks, Held, Strategies
<1>. QED  BY <1>1, <1>2, <1>3, <1>4, <1>5, <1>6, <1>7, <1>8, <1>9, <1>10, <1>11, <1>12, <1>13, <1>14
         DEF Verdicts

-----------------------------------------------------------------------------
(***************************************************************************)
(* All keys: how often the conflicts are counted.                          *)
(***************************************************************************)

\* Cardinalities of disjoint sets add up.
LEMMA DisjointSum ==
    ASSUME NEW S, NEW T, IsFiniteSet(S), IsFiniteSet(T), S \cap T = {}
    PROVE  /\ IsFiniteSet(S \union T)
           /\ Cardinality(S) \in Nat /\ Cardinality(T) \in Nat
           /\ Cardinality(S \union T) = Cardinality(S) + Cardinality(T)
<1>1. Cardinality(S) \in Nat /\ Cardinality(T) \in Nat /\ Cardinality(S \cap T) = 0
  BY FS_CardinalityType, FS_EmptySet
<1>2. /\ IsFiniteSet(S \union T)
      /\ Cardinality(S \union T) = Cardinality(S) + Cardinality(T) - Cardinality(S \cap T)
  BY FS_Union
<1>. QED  BY <1>1, <1>2

\* The keys whose check increases a counter.
Marked(outcome, c) == {k \in Keys : outcome[k].counter = c}

\* The keys in conflict that one of the key sets does not have.
WithoutBase  == {k \in Keys : Lacks(base[k], our[k], their[k])}
WithoutOur   == {k \in Keys : Lacks(our[k], base[k], their[k])}
WithoutTheir == {k \in Keys : Lacks(their[k], base[k], our[k])}

\* The checks mark the same keys, but for oneEmpty, where each leaves out one kind;
\* the keys marked for the five counters are those in conflict.
LEMMA MarkedKeys ==
    ASSUME TypeOK
    PROVE  /\ Marked(CheckTheir, "onlyBase") = {} /\ Marked(CheckOur, "onlyBase") = {}
           /\ \A c \in {"allExist", "threeDifferent"} :
                 /\ Marked(CheckTheir, c) = Marked(CheckBase, c)
                 /\ Marked(CheckOur, c) = Marked(CheckBase, c)
           /\ Marked(CheckBase, "baseEmpty") = {}
           /\ Marked(CheckOur, "baseEmpty") = Marked(CheckTheir, "baseEmpty")
           /\ Marked(CheckBase, "oneEmpty") = WithoutOur \union WithoutTheir
           /\ Marked(CheckTheir, "oneEmpty") = WithoutBase \union WithoutOur
           /\ Marked(CheckOur, "oneEmpty") = WithoutBase \union WithoutTheir
           /\ BothChanged =
                (((((Marked(CheckBase, "onlyBase") \union Marked(CheckBase, "allExist"))
                  \union Marked(CheckBase, "threeDifferent"))
                  \union Marked(CheckTheir, "baseEmpty"))
                  \union WithoutBase) \union WithoutOur) \union WithoutTheir
           /\ Marked(CheckBase, "onlyBase") =
                {k \in Keys : base[k] # Absent /\ our[k] = Absent /\ their[k] = Absent}
           /\ Marked(CheckBase, "allExist") =
                {k \in Keys : Absent \notin {base[k], our[k], their[k]} /\ our[k] = their[k] /\ our[k] # base[k]}
           /\ Marked(CheckBase, "threeDifferent") =
                {k \in Keys : Absent \notin {base[k], our[k], their[k]} /\ our[k] # their[k]
                               /\ our[k] # base[k] /\ their[k] # base[k]}
           /\ Marked(CheckTheir, "baseEmpty") =
                {k \in Keys : base[k] = Absent /\ our[k] = their[k] /\ our[k] # Absent}
<1>1. ASSUME NEW k \in Keys
      PROVE  /\ base[k] \in Held /\ our[k] \in Held /\ their[k] \in Held /\ strategy \in Strategies
             /\ CheckBase[k]  = CheckKey(base[k], our[k], their[k], FALSE, "checked")
             /\ CheckTheir[k] = CheckKey(their[k], base[k], our[k], strategy = "their", "first")
             /\ CheckOur[k]   = CheckKey(our[k], their[k], base[k], strategy = "our", "second")
  BY DEF TypeOK, KeySets, CheckBase, CheckTheir, CheckOur
<1>2. ASSUME NEW k \in Keys
      PROVE  /\ CheckBase[k].counter = "onlyBase" <=> base[k] # Absent /\ our[k] = Absent /\ their[k] = Absent
             /\ CheckTheir[k].counter # "onlyBase" /\ CheckOur[k].counter # "onlyBase"
             /\ CheckBase[k].counter = "allExist"
                   <=> Absent \notin {base[k], our[k], their[k]} /\ our[k] = their[k] /\ our[k] # base[k]
             /\ CheckTheir[k].counter = "allExist" <=> CheckBase[k].counter = "allExist"
             /\ CheckOur[k].counter = "allExist" <=> CheckBase[k].counter = "allExist"
             /\ CheckBase[k].counter = "threeDifferent"
                   <=> Absent \notin {base[k], our[k], their[k]} /\ our[k] # their[k]
                       /\ our[k] # base[k] /\ their[k] # base[k]
             /\ CheckTheir[k].counter = "threeDifferent" <=> CheckBase[k].counter = "threeDifferent"
             /\ CheckOur[k].counter = "threeDifferent" <=> CheckBase[k].counter = "threeDifferent"
             /\ CheckBase[k].counter # "baseEmpty"
             /\ CheckTheir[k].counter = "baseEmpty"
                   <=> base[k] = Absent /\ our[k] = their[k] /\ our[k] # Absent
             /\ CheckOur[k].counter = "baseEmpty" <=> CheckTheir[k].counter = "baseEmpty"
             /\ CheckBase[k].counter = "oneEmpty"  <=> k \in WithoutOur \/ k \in WithoutTheir
             /\ CheckTheir[k].counter = "oneEmpty" <=> k \in WithoutBase \/ k \in WithoutOur
             /\ CheckOur[k].counter = "oneEmpty"   <=> k \in WithoutBase \/ k \in WithoutTheir
  <2>. DEFINE x == CheckBase[k].counter
              y == CheckTheir[k].counter
              z == CheckOur[k].counter
  <2>1. /\ x = CheckKey(base[k], our[k], their[k], FALSE, "checked").counter
        /\ y = CheckKey(their[k], base[k], our[k], strategy = "their", "first").counter
        /\ z = CheckKey(our[k], their[k], base[k], strategy = "our", "second").counter
        /\ base[k] \in Held /\ our[k] \in Held /\ their[k] \in Held /\ strategy \in Strategies
    BY <1>1
  <2>2. /\ k \in WithoutBase  <=> Lacks(base[k], our[k], their[k])
        /\ k \in WithoutOur   <=> Lacks(our[k], base[k], their[k])
        /\ k \in WithoutTheir <=> Lacks(their[k], base[k], our[k])
    BY DEF WithoutBase, WithoutOur, WithoutTheir
  <2>3. Verdicts(base[k], our[k], their[k], x, y, z)
    BY <2>1, KeyCounters
  <2>. QED  BY <2>2, <2>3 DEF Verdicts
<1>3. WithoutBase \subseteq Keys /\ WithoutOur \subseteq Keys /\ WithoutTheir \subseteq Keys
  BY DEF WithoutBase, WithoutOur, WithoutTheir
<1>4. /\ Marked(CheckTheir, "onlyBase") = {} /\ Marked(CheckOur, "onlyBase") = {}
      /\ Marked(CheckBase, "baseEmpty") = {}
      /\ Marked(CheckOur, "baseEmpty") = Marked(CheckTheir, "baseEmpty")
  BY <1>2 DEF Marked
<1>5. \A c \in {"allExist", "threeDifferent"} :
         /\ Marked(CheckTheir, c) = Marked(CheckBase, c)
         /\ Marked(CheckOur, c) = Marked(CheckBase, c)
  BY <1>2 DEF Marked
<1>6. Marked(CheckBase, "oneEmpty") = WithoutOur \union WithoutTheir
  BY <1>2, <1>3 DEF Marked
<1>7. Marked(CheckTheir, "oneEmpty") = WithoutBase \union WithoutOur
  BY <1>2, <1>3 DEF Marked
<1>8. Marked(CheckOur, "oneEmpty") = WithoutBase \union WithoutTheir
  BY <1>2, <1>3 DEF Marked
<1>9. /\ Marked(CheckBase, "onlyBase") =
           {k \in Keys : base[k] # Absent /\ our[k] = Absent /\ their[k] = Absent}
      /\ Marked(CheckBase, "allExist") =
           {k \in Keys : Absent \notin {base[k], our[k], their[k]} /\ our[k] = their[k] /\ our[k] # base[k]}
      /\ Marked(CheckBase, "threeDifferent") =
           {k \in Keys : Absent \notin {base[k], our[k], their[k]} /\ our[k] # their[k]
                          /\ our[k] # base[k] /\ their[k] # base[k]}
      /\ Marked(CheckTheir, "baseEmpty") =
           {k \in Keys : base[k] = Absent /\ our[k] = their[k] /\ our[k] # Absent}
  BY <1>2 DEF Marked
<1>10. BothChanged =
         (((((Marked(CheckBase, "onlyBase") \union Marked(CheckBase, "allExist"))
           \union Marked(CheckBase, "threeDifferent"))
           \union Marked(CheckTheir, "baseEmpty"))
           \union WithoutBase) \union WithoutOur) \union WithoutTheir
  BY <1>9 DEF BothChanged, WithoutBase, WithoutOur, WithoutTheir, Lacks
<1>. QED  BY <1>4, <1>5, <1>6, <1>7, <1>8, <1>9, <1>10

\* Counting over all keys, the three checks add up to multiples: one per key in
\* conflict.
LEMMA Counted ==
    ASSUME TypeOK
    PROVE  \E m \in [Counters -> Nat] :
             /\ Total(m) = Cardinality(BothChanged)
             /\ \A c \in Counters :
                  Found(CheckBase, c) + Found(CheckTheir, c) + Found(CheckOur, c) = Times[c] * m[c]
<1>. DEFINE A == Marked(CheckBase, "onlyBase")
            B == Marked(CheckBase, "allExist")
            C == Marked(CheckBase, "threeDifferent")
            D == Marked(CheckTheir, "baseEmpty")
            AB == A \union B
            ABC == AB \union C
            ABCD == ABC \union D
            ABCDb == ABCD \union WithoutBase
            ABCDbo == ABCDb \union WithoutOur
            OT == WithoutOur \union WithoutTheir
            BO == WithoutBase \union WithoutOur
            BT == WithoutBase \union WithoutTheir
<1>1. /\ IsFiniteSet(A) /\ IsFiniteSet(B) /\ IsFiniteSet(C) /\ IsFiniteSet(D)
      /\ IsFiniteSet(WithoutBase) /\ IsFiniteSet(WithoutOur) /\ IsFiniteSet(WithoutTheir)
  <2>1. /\ A \subseteq Keys /\ B \subseteq Keys /\ C \subseteq Keys /\ D \subseteq Keys
        /\ WithoutBase \subseteq Keys /\ WithoutOur \subseteq Keys /\ WithoutTheir \subseteq Keys
    BY DEF Marked, WithoutBase, WithoutOur, WithoutTheir
  <2>. QED  BY <2>1, MergeAssumption, FS_Subset
<1>2. /\ A = {k \in Keys : base[k] # Absent /\ our[k] = Absent /\ their[k] = Absent}
      /\ B = {k \in Keys : Absent \notin {base[k], our[k], their[k]} /\ our[k] = their[k] /\ our[k] # base[k]}
      /\ C = {k \in Keys : Absent \notin {base[k], our[k], their[k]} /\ our[k] # their[k]
                            /\ our[k] # base[k] /\ their[k] # base[k]}
      /\ D = {k \in Keys : base[k] = Absent /\ our[k] = their[k] /\ our[k] # Absent}
      /\ BothChanged = ABCDbo \union WithoutTheir
  BY MarkedKeys
<1>3. /\ A \cap B = {} /\ AB \cap C = {} /\ ABC \cap D = {} /\ ABCD \cap WithoutBase = {}
      /\ ABCDb \cap WithoutOur = {} /\ ABCDbo \cap WithoutTheir = {}
      /\ WithoutOur \cap WithoutTheir = {} /\ WithoutBase \cap WithoutOur = {}
      /\ WithoutBase \cap WithoutTheir = {}
  <2>. HIDE DEF A, B, C, D
  <2>1. A \cap B = {} /\ AB \cap C = {}
    BY <1>2
  <2>2. ABC \cap D = {}
    BY <1>2
  <2>3. /\ A \cap WithoutBase = {} /\ B \cap WithoutBase = {} /\ C \cap WithoutBase = {}
        /\ D \cap WithoutBase = {}
    BY <1>2 DEF WithoutBase, Lacks
  <2>4. /\ A \cap WithoutOur = {} /\ B \cap WithoutOur = {} /\ C \cap WithoutOur = {}
        /\ D \cap WithoutOur = {}
    BY <1>2 DEF WithoutOur, Lacks
  <2>5. /\ A \cap WithoutTheir = {} /\ B \cap WithoutTheir = {} /\ C \cap WithoutTheir = {}
        /\ D \cap WithoutTheir = {}
    BY <1>2 DEF WithoutTheir, Lacks
  <2>6. /\ WithoutOur \cap WithoutTheir = {} /\ WithoutBase \cap WithoutOur = {}
        /\ WithoutBase \cap WithoutTheir = {}
    BY DEF WithoutBase, WithoutOur, WithoutTheir, Lacks
  <2>. QED  BY <2>1, <2>2, <2>3, <2>4, <2>5, <2>6
<1>. DEFINE a == Cardinality(A)
            b == Cardinality(B)
            c3 == Cardinality(C)
            d == Cardinality(D)
            wb == Cardinality(WithoutBase)
            wo == Cardinality(WithoutOur)
            wt == Cardinality(WithoutTheir)
<1>4. a \in Nat /\ b \in Nat /\ c3 \in Nat /\ d \in Nat /\ wb \in Nat /\ wo \in Nat /\ wt \in Nat
  BY <1>1, FS_CardinalityType
<1>5. Cardinality(BothChanged) = a + b + c3 + d + wb + wo + wt
  <2>. HIDE DEF A, B, C, D
  <2>1. IsFiniteSet(AB) /\ Cardinality(AB) = a + b
    <3>. HIDE DEF AB, ABC, ABCD, ABCDb, ABCDbo
    <3>. QED  BY <1>1, <1>3, DisjointSum DEF AB
  <2>2. IsFiniteSet(ABC) /\ Cardinality(ABC) = a + b + c3
    <3>. HIDE DEF AB, ABC, ABCD, ABCDb, ABCDbo
    <3>. QED  BY <2>1, <1>1, <1>3, DisjointSum DEF ABC
  <2>3. IsFiniteSet(ABCD) /\ Cardinality(ABCD) = a + b + c3 + d
    <3>. HIDE DEF AB, ABC, ABCD, ABCDb, ABCDbo
    <3>. QED  BY <2>2, <1>1, <1>3, DisjointSum DEF ABCD
  <2>4. IsFiniteSet(ABCDb) /\ Cardinality(ABCDb) = a + b + c3 + d + wb
    <3>. HIDE DEF AB, ABC, ABCD, ABCDb, ABCDbo
    <3>. QED  BY <2>3, <1>1, <1>3, DisjointSum DEF ABCDb
  <2>5. IsFiniteSet(ABCDbo) /\ Cardinality(ABCDbo) = a + b + c3 + d + wb + wo
    <3>. HIDE DEF AB, ABC, ABCD, ABCDb, ABCDbo
    <3>. QED  BY <2>4, <1>1, <1>3, DisjointSum DEF ABCDbo
  <2>6. Cardinality(ABCDbo \union WithoutTheir) = Cardinality(ABCDbo) + wt
    <3>. HIDE DEF AB, ABC, ABCD, ABCDb, ABCDbo
    <3>. QED  BY <2>5, <1>1, <1>3, DisjointSum
  <2>. HIDE DEF ABCDbo, a, b, c3, d, wb, wo, wt
  <2>. QED  BY <2>5, <2>6, <1>2
<1>6. /\ Cardinality(OT) = wo + wt
      /\ Cardinality(BO) = wb + wo
      /\ Cardinality(BT) = wb + wt
  BY <1>1, <1>3, DisjointSum
<1>7. Cardinality({}) = 0
  BY FS_EmptySet
<1>8. /\ Found(CheckBase, "onlyBase") = a /\ Found(CheckTheir, "onlyBase") = 0 /\ Found(CheckOur, "onlyBase") = 0
      /\ Found(CheckBase, "allExist") = b /\ Found(CheckTheir, "allExist") = b /\ Found(CheckOur, "allExist") = b
      /\ Found(CheckBase, "threeDifferent") = c3 /\ Found(CheckTheir, "threeDifferent") = c3
      /\ Found(CheckOur, "threeDifferent") = c3
      /\ Found(CheckBase, "baseEmpty") = 0 /\ Found(CheckTheir, "baseEmpty") = d /\ Found(CheckOur, "baseEmpty") = d
      /\ Found(CheckBase, "oneEmpty") = wo + wt /\ Found(CheckTheir, "oneEmpty") = wb + wo
      /\ Found(CheckOur, "oneEmpty") = wb + wt
  <2>1. \A o, x : Found(o, x) = Cardinality(Marked(o, x))
    BY DEF Found, Marked
  <2>2. /\ Marked(CheckTheir, "onlyBase") = {} /\ Marked(CheckOur, "onlyBase") = {}
        /\ Marked(CheckTheir, "allExist") = B /\ Marked(CheckOur, "allExist") = B
        /\ Marked(CheckTheir, "threeDifferent") = C /\ Marked(CheckOur, "threeDifferent") = C
        /\ Marked(CheckBase, "baseEmpty") = {} /\ Marked(CheckOur, "baseEmpty") = D
        /\ Marked(CheckBase, "oneEmpty") = OT /\ Marked(CheckTheir, "oneEmpty") = BO
        /\ Marked(CheckOur, "oneEmpty") = BT
    BY MarkedKeys
  <2>. HIDE DEF OT, BO, BT
  <2>. QED  BY <2>1, <2>2, <1>6, <1>7
<1>. HIDE DEF a, b, c3, d, wb, wo, wt
<1>. DEFINE m == [c \in Counters |-> CASE c = "onlyBase" -> a
                                       [] c = "allExist" -> b
                                       [] c = "threeDifferent" -> c3
                                       [] c = "baseEmpty" -> d
                                       [] OTHER -> wb + wo + wt]
<1>9. /\ m \in [Counters -> Nat]
      /\ m["onlyBase"] = a /\ m["allExist"] = b /\ m["threeDifferent"] = c3 /\ m["baseEmpty"] = d
      /\ m["oneEmpty"] = wb + wo + wt
  BY <1>4 DEF Counters
<1>10. /\ Times["onlyBase"] = 1 /\ Times["allExist"] = 3 /\ Times["threeDifferent"] = 3
       /\ Times["baseEmpty"] = 2 /\ Times["oneEmpty"] = 2
  BY DEF Times, Counters
<1>. HIDE DEF m
<1>11. Total(m) = Cardinality(BothChanged)
  BY <1>4, <1>5, <1>9 DEF Total
<1>12. \A c \in Counters :
         Found(CheckBase, c) + Found(CheckTheir, c) + Found(CheckOur, c) = Times[c] * m[c]
  BY <1>4, <1>8, <1>9, <1>10 DEF Counters
<1>. QED  BY <1>9, <1>11, <1>12

\* A key is noted if and only if it is in conflict.
LEMMA NotedKeys ==
    ASSUME TypeOK
    PROVE  Noted(CheckBase) \union Noted(CheckTheir) \union Noted(CheckOur) = BothChanged
<1>1. ASSUME NEW k \in Keys
      PROVE  /\ CheckBase[k].counter \in Counters \union {"none"}
             /\ CheckTheir[k].counter \in Counters \union {"none"}
             /\ CheckOur[k].counter \in Counters \union {"none"}
  <2>1. base[k] \in Held /\ our[k] \in Held /\ their[k] \in Held
    BY DEF TypeOK, KeySets
  <2>. QED  BY <2>1, CheckKeyType DEF CheckBase, CheckTheir, CheckOur
<1>2. ASSUME NEW outcome, \A k \in Keys : outcome[k].counter \in Counters \union {"none"}
      PROVE  Noted(outcome) = Marked(outcome, "onlyBase") \union Marked(outcome, "allExist")
                                \union Marked(outcome, "threeDifferent")
                                \union Marked(outcome, "baseEmpty") \union Marked(outcome, "oneEmpty")
  BY <1>2 DEF Noted, Marked, Counters
<1>3. /\ Noted(CheckBase) = Marked(CheckBase, "onlyBase") \union Marked(CheckBase, "allExist")
                              \union Marked(CheckBase, "threeDifferent")
                              \union Marked(CheckBase, "baseEmpty") \union Marked(CheckBase, "oneEmpty")
      /\ Noted(CheckTheir) = Marked(CheckTheir, "onlyBase") \union Marked(CheckTheir, "allExist")
                              \union Marked(CheckTheir, "threeDifferent")
                              \union Marked(CheckTheir, "baseEmpty") \union Marked(CheckTheir, "oneEmpty")
      /\ Noted(CheckOur) = Marked(CheckOur, "onlyBase") \union Marked(CheckOur, "allExist")
                              \union Marked(CheckOur, "threeDifferent")
                              \union Marked(CheckOur, "baseEmpty") \union Marked(CheckOur, "oneEmpty")
  BY <1>1, <1>2
<1>4. /\ Marked(CheckTheir, "onlyBase") = {} /\ Marked(CheckOur, "onlyBase") = {}
      /\ Marked(CheckTheir, "allExist") = Marked(CheckBase, "allExist")
      /\ Marked(CheckOur, "allExist") = Marked(CheckBase, "allExist")
      /\ Marked(CheckTheir, "threeDifferent") = Marked(CheckBase, "threeDifferent")
      /\ Marked(CheckOur, "threeDifferent") = Marked(CheckBase, "threeDifferent")
      /\ Marked(CheckBase, "baseEmpty") = {}
      /\ Marked(CheckOur, "baseEmpty") = Marked(CheckTheir, "baseEmpty")
      /\ Marked(CheckBase, "oneEmpty") = WithoutOur \union WithoutTheir
      /\ Marked(CheckTheir, "oneEmpty") = WithoutBase \union WithoutOur
      /\ Marked(CheckOur, "oneEmpty") = WithoutBase \union WithoutTheir
      /\ BothChanged =
           (((((Marked(CheckBase, "onlyBase") \union Marked(CheckBase, "allExist"))
             \union Marked(CheckBase, "threeDifferent"))
             \union Marked(CheckTheir, "baseEmpty"))
             \union WithoutBase) \union WithoutOur) \union WithoutTheir
  BY MarkedKeys
<1>. QED  BY <1>3, <1>4

-----------------------------------------------------------------------------
(***************************************************************************)
(* The steps.                                                              *)
(***************************************************************************)

LEMMA TypeStep ==
    ASSUME TypeOK, [Next]_vars
    PROVE  TypeOK'
<1>. USE MergeAssumption
<1>1. CASE NewInformationKey
  BY <1>1 DEF NewInformationKey, TypeOK, input, NoConflicts
<1>2. CASE Refuse
  BY <1>2 DEF Refuse, TypeOK, input, info
<1>3. CASE Start
  <2>1. IsFiniteSet(BothChanged')
    BY FS_Subset DEF BothChanged
  <2>2. Cardinality(BothChanged') \in Nat
    BY <2>1, FS_CardinalityType
  <2>. QED  BY <1>3, <2>2 DEF Start, TypeOK, info, Empty, KeySets, Held
<1>4. CASE Check
  <2>1. PICK outcome \in {CheckBase, CheckTheir, CheckOur} : CheckSingleSet(outcome)
    BY <1>4 DEF Check
  <2>2. ASSUME NEW k \in Keys
        PROVE  outcome[k].append \in Held
    <3>1. base[k] \in Held /\ our[k] \in Held /\ their[k] \in Held
      BY DEF TypeOK, KeySets
    <3>2. /\ CheckBase[k].append \in Held
          /\ CheckTheir[k].append \in Held
          /\ CheckOur[k].append \in Held
      BY <3>1, CheckKeyType DEF CheckBase, CheckTheir, CheckOur
    <3>. QED  BY <2>1, <3>2
  <2>3. \A c : Found(outcome, c) \in Nat
    BY FS_Subset, FS_CardinalityType DEF Found
  <2>4. result' \in KeySets /\ conflicting' \subseteq Keys /\ counters' \in [Counters -> Nat]
    <3>1. result' \in KeySets
      BY <2>1, <2>2 DEF CheckSingleSet, Appended, TypeOK, KeySets
    <3>2. conflicting' \subseteq Keys
      BY <2>1 DEF CheckSingleSet, TypeOK
    <3>3. counters' = [c \in Counters |-> counters[c] + Found(outcome, c)]
      BY <2>1 DEF CheckSingleSet, Found
    <3>4. \A c \in Counters : counters[c] \in Nat
      BY DEF TypeOK
    <3>5. counters' \in [Counters -> Nat]
      BY <2>3, <3>3, <3>4
    <3>. QED  BY <3>1, <3>2, <3>5
  <2>5. pc' \in {"their", "our", "end"}
    BY <1>4 DEF Check
  <2>. QED  BY <2>1, <2>4, <2>5 DEF CheckSingleSet, TypeOK, input
<1>5. CASE End
  BY <1>5 DEF End, Free, TypeOK, info, Empty, KeySets, Held
<1>6. CASE UNCHANGED vars
  BY <1>6 DEF TypeOK, vars, input, info
<1>. QED  BY <1>1, <1>2, <1>3, <1>4, <1>5, <1>6 DEF Next

\* As long as the input stays, so does what the checks find in it.
LEMMA SameInput ==
    ASSUME UNCHANGED input
    PROVE  UNCHANGED <<CheckBase, CheckTheir, CheckOur, BothChanged>>
BY DEF input, CheckBase, CheckTheir, CheckOur, BothChanged

LEMMA ResultStep ==
    ASSUME TypeOK, ResultSoFar, [Next]_vars
    PROVE  ResultSoFar'
<1>1. CASE NewInformationKey \/ Refuse \/ End \/ Start
  BY <1>1 DEF NewInformationKey, Refuse, End, Free, Start, ResultSoFar
<1>2. CASE Check
  <2>1. UNCHANGED <<CheckBase, CheckTheir, CheckOur>>
    BY <1>2, SameInput DEF Check, CheckSingleSet
  <2>2. \A ks, outcome : Appended(ks, outcome)' = Appended(ks', outcome')
    BY DEF Appended
  <2>3. UNCHANGED Empty
    BY DEF Empty
  <2>. QED  BY <1>2, <2>1, <2>2, <2>3 DEF Check, CheckSingleSet, ResultSoFar
<1>3. CASE UNCHANGED vars
  <2>1. UNCHANGED <<CheckBase, CheckTheir, CheckOur, pc, result>>
    BY <1>3, SameInput DEF vars
  <2>. QED  BY <2>1 DEF ResultSoFar, Appended, Empty
<1>. QED  BY <1>1, <1>2, <1>3 DEF Next

\* Two multiples of the same numbers add up to one.
LEMMA Multiples ==
    ASSUME NEW n \in [Counters -> Nat], NEW m \in [Counters -> Nat]
    PROVE  \E s \in [Counters -> Nat] :
             /\ Total(s) = Total(n) + Total(m)
             /\ \A c \in Counters : Times[c] * s[c] = Times[c] * n[c] + Times[c] * m[c]
<1>. DEFINE s == [c \in Counters |-> n[c] + m[c]]
<1>1. s \in [Counters -> Nat] /\ \A c \in Counters : s[c] = n[c] + m[c]
  OBVIOUS
<1>2. \A c \in Counters : n[c] \in Nat /\ m[c] \in Nat
  OBVIOUS
<1>3. /\ Times["onlyBase"] = 1 /\ Times["allExist"] = 3 /\ Times["threeDifferent"] = 3
      /\ Times["baseEmpty"] = 2 /\ Times["oneEmpty"] = 2
  BY DEF Times, Counters
<1>. HIDE DEF s
<1>4. Total(s) = Total(n) + Total(m)
  BY <1>1, <1>2 DEF Total, Counters
<1>5. \A c \in Counters : Times[c] * s[c] = Times[c] * n[c] + Times[c] * m[c]
  BY <1>1, <1>2, <1>3 DEF Counters
<1>. QED  BY <1>1, <1>4, <1>5

LEMMA TimesType == \A c \in Counters : Times[c] \in Nat
BY DEF Times, Counters

LEMMA CountsStep ==
    ASSUME TypeOK, CountsSoFar, [Next]_vars
    PROVE  CountsSoFar'
<1>. USE MergeAssumption
<1>1. PICK n \in [Counters -> Nat] :
         /\ expected = Total(n) + Unfinished
         /\ \A c \in Counters : counters[c] = Times[c] * n[c] + FoundSoFar(c)
  BY DEF CountsSoFar
<1>2. Total(n) \in Nat /\ \A c \in Counters : Times[c] * n[c] \in Nat
  <2>1. \A c \in Counters : n[c] \in Nat
    OBVIOUS
  <2>. QED  BY <2>1, TimesType DEF Total, Counters
<1>3. \A S \in SUBSET Keys : Cardinality(S) \in Nat
  BY FS_Subset, FS_CardinalityType
<1>4. \A outcome, c : Found(outcome, c) \in Nat
  BY <1>3 DEF Found
<1>5. Times' = Times
  BY DEF Times, Counters
<1>6. \A f : Total(f)' = Total(f')
  BY DEF Total
<1>7. CASE NewInformationKey
  <2>. DEFINE z == [c \in Counters |-> 0]
  <2>1. z \in [Counters -> Nat] /\ Total(z) = 0
    BY DEF Total, Counters
  <2>2. Unfinished' = 0 /\ \A c \in Counters : FoundSoFar(c)' = 0
    BY <1>7 DEF NewInformationKey, Unfinished, FoundSoFar
  <2>3. expected' = Total(z) + Unfinished'
    BY <1>7, <2>1, <2>2 DEF NewInformationKey
  <2>4. \A c \in Counters : counters'[c] = Times'[c] * z[c] + FoundSoFar(c)'
    BY <1>7, <1>5, <2>2, TimesType DEF NewInformationKey, NoConflicts
  <2>. HIDE DEF z
  <2>. QED  BY <2>1, <2>3, <2>4 DEF CountsSoFar, Total, Counters
<1>8. CASE Start
  <2>1. BothChanged' \subseteq Keys
    BY DEF BothChanged
  <2>2. /\ Unfinished = 0 /\ Unfinished' = Cardinality(BothChanged')
        /\ \A c \in Counters : FoundSoFar(c) = 0 /\ FoundSoFar(c)' = 0
    BY <1>8 DEF Start, Unfinished, FoundSoFar
  <2>3. expected' = Total(n) + Unfinished'
    BY <1>8, <1>1, <1>2, <1>3, <2>1, <2>2 DEF Start
  <2>4. \A c \in Counters : counters'[c] = Times'[c] * n[c] + FoundSoFar(c)'
    BY <1>8, <1>1, <1>5, <2>2 DEF Start, info
  <2>. QED  BY <2>3, <2>4 DEF CountsSoFar, Total, Counters
<1>9. CASE Check
  <2>1. /\ UNCHANGED <<CheckBase, CheckTheir, CheckOur, BothChanged>>
        /\ UNCHANGED expected
    BY <1>9, SameInput DEF Check, CheckSingleSet
  <2>2. \A c \in Counters :
          /\ Found(CheckBase, c)' = Found(CheckBase, c)
          /\ Found(CheckTheir, c)' = Found(CheckTheir, c)
    BY <2>1 DEF Found
  <2>3. ASSUME NEW outcome, CheckSingleSet(outcome), NEW c \in Counters
        PROVE  counters'[c] = counters[c] + Found(outcome, c)
    BY <2>3 DEF CheckSingleSet, Found
  <2>4. CASE pc \in {"base", "their"}
    <3>1. Unfinished' = Unfinished
      BY <1>9, <2>1, <2>4 DEF Check, Unfinished
    <3>2. ASSUME NEW c \in Counters
          PROVE  counters'[c] = Times'[c] * n[c] + FoundSoFar(c)'
      <4>1. CASE pc = "base"
        <5>1. FoundSoFar(c) = 0 + 0 /\ FoundSoFar(c)' = Found(CheckBase, c) + 0
          BY <1>9, <2>2, <4>1 DEF Check, FoundSoFar
        <5>2. counters'[c] = counters[c] + Found(CheckBase, c)
          BY <1>9, <2>3, <4>1 DEF Check
        <5>. QED  BY <1>1, <1>2, <1>4, <1>5, <5>1, <5>2
      <4>2. CASE pc = "their"
        <5>1. /\ FoundSoFar(c) = Found(CheckBase, c) + 0
              /\ FoundSoFar(c)' = Found(CheckBase, c) + Found(CheckTheir, c)
          BY <1>9, <2>2, <4>2 DEF Check, FoundSoFar
        <5>2. counters'[c] = counters[c] + Found(CheckTheir, c)
          BY <1>9, <2>3, <4>2 DEF Check
        <5>. QED  BY <1>1, <1>2, <1>4, <1>5, <5>1, <5>2
      <4>. QED  BY <2>4, <4>1, <4>2
    <3>3. expected' = Total(n) + Unfinished'
      BY <1>1, <2>1, <3>1
    <3>. QED  BY <3>2, <3>3 DEF CountsSoFar, Total, Counters
  <2>5. CASE pc = "our"
    <3>1. PICK m \in [Counters -> Nat] :
             /\ Total(m) = Cardinality(BothChanged)
             /\ \A c \in Counters :
                  Found(CheckBase, c) + Found(CheckTheir, c) + Found(CheckOur, c) = Times[c] * m[c]
      BY Counted
    <3>2. PICK s \in [Counters -> Nat] :
             /\ Total(s) = Total(n) + Total(m)
             /\ \A c \in Counters : Times[c] * s[c] = Times[c] * n[c] + Times[c] * m[c]
      BY Multiples
    <3>3. Unfinished = Cardinality(BothChanged) /\ Unfinished' = 0
      BY <1>9, <2>5 DEF Check, Unfinished
    <3>4. Total(s) \in Nat /\ \A c \in Counters : Times[c] * s[c] \in Nat
      <4>1. \A c \in Counters : s[c] \in Nat
        OBVIOUS
      <4>. QED  BY <4>1, TimesType DEF Total, Counters
    <3>5. expected' = Total(s) + Unfinished'
      BY <1>1, <2>1, <3>1, <3>2, <3>3, <3>4
    <3>6. ASSUME NEW c \in Counters
          PROVE  counters'[c] = Times'[c] * s[c] + FoundSoFar(c)'
      <4>1. /\ FoundSoFar(c) = Found(CheckBase, c) + Found(CheckTheir, c)
            /\ FoundSoFar(c)' = 0
        BY <1>9, <2>5 DEF Check, FoundSoFar
      <4>2. counters'[c] = counters[c] + Found(CheckOur, c)
        BY <1>9, <2>3, <2>5 DEF Check
      <4>3. counters[c] = Times[c] * n[c] + FoundSoFar(c)
        BY <1>1
      <4>4. /\ Times[c] * s[c] = Times[c] * n[c] + Times[c] * m[c]
            /\ Found(CheckBase, c) + Found(CheckTheir, c) + Found(CheckOur, c) = Times[c] * m[c]
        BY <3>1, <3>2
      <4>. QED  BY <1>2, <1>4, <1>5, <3>4, <4>1, <4>2, <4>3, <4>4
    <3>. QED  BY <3>5, <3>6 DEF CountsSoFar, Total, Counters
  <2>. QED  BY <1>9, <2>4, <2>5 DEF Check
<1>10. CASE Refuse \/ End \/ UNCHANGED vars
  <2>1. UNCHANGED <<counters, expected>>
    BY <1>10 DEF Refuse, End, Free, vars, info
  <2>2. Unfinished' = Unfinished /\ \A c \in Counters : FoundSoFar(c)' = FoundSoFar(c)
    <3>1. CASE UNCHANGED vars
      <4>1. UNCHANGED <<CheckBase, CheckTheir, CheckOur, BothChanged, pc>>
        BY <3>1, SameInput DEF vars
      <4>. QED  BY <4>1 DEF Unfinished, FoundSoFar, Found
    <3>2. CASE Refuse \/ End
      BY <3>2 DEF Refuse, End, Free, Unfinished, FoundSoFar
    <3>. QED  BY <1>10, <3>1, <3>2
  <2>. QED  BY <1>1, <1>5, <2>1, <2>2 DEF CountsSoFar, Total, Counters
<1>. QED  BY <1>7, <1>8, <1>9, <1>10 DEF Next

LEMMA NamesStep ==
    ASSUME TypeOK, NamesSoFar, [Next]_vars
    PROVE  NamesSoFar'
<1>. USE MergeAssumption
<1>1. CASE NewInformationKey
  BY <1>1 DEF NewInformationKey, NamesSoFar
<1>2. CASE Start
  <2>1. NotedSoFar' = {}
    BY <1>2 DEF Start, NotedSoFar
  <2>. QED  BY <1>2, <2>1 DEF Start, NamesSoFar, info, TypeOK
<1>3. CASE Check
  <2>1. UNCHANGED <<CheckBase, CheckTheir, CheckOur, merges>>
    BY <1>3, SameInput DEF Check, CheckSingleSet
  <2>2. \A outcome : CheckSingleSet(outcome) => conflicting' = conflicting \union Noted(outcome)
    BY DEF CheckSingleSet, Noted
  <2>3. /\ Noted(CheckBase)' = Noted(CheckBase) /\ Noted(CheckTheir)' = Noted(CheckTheir)
        /\ Noted(CheckOur)' = Noted(CheckOur)
    BY <2>1 DEF Noted
  <2>4. PICK outcome : /\ NotedSoFar' = NotedSoFar \union Noted(outcome)
                       /\ conflicting' = conflicting \union Noted(outcome)
                       /\ pc # "idle"
    BY <1>3, <2>2, <2>3 DEF Check, NotedSoFar
  <2>. QED  BY <2>1, <2>4 DEF NamesSoFar
<1>4. CASE Refuse \/ End
  BY <1>4 DEF Refuse, End, Free, NamesSoFar, info
<1>5. CASE UNCHANGED vars
  <2>1. UNCHANGED <<CheckBase, CheckTheir, CheckOur, pc, merges, conflicting>>
    BY <1>5, SameInput DEF vars, info
  <2>2. NotedSoFar' = NotedSoFar
    BY <2>1 DEF NotedSoFar, Noted
  <2>. QED  BY <2>1, <2>2 DEF NamesSoFar
<1>. QED  BY <1>1, <1>2, <1>3, <1>4, <1>5 DEF Next

-----------------------------------------------------------------------------
(***************************************************************************)
(* The theorems.                                                           *)
(***************************************************************************)

LEMMA InitInvariant ==
    ASSUME Init
    PROVE  MergeInvariant
<1>1. TypeOK
  BY MergeAssumption DEF Init, TypeOK, Empty, KeySets, Held, Strategies, NoConflicts
<1>2. ResultSoFar
  BY DEF Init, ResultSoFar
<1>3. CountsSoFar
  <2>. DEFINE z == [c \in Counters |-> 0]
  <2>1. z \in [Counters -> Nat] /\ Total(z) = 0
    BY DEF Total, Counters
  <2>2. Unfinished = 0 /\ \A c \in Counters : FoundSoFar(c) = 0
    BY DEF Init, Unfinished, FoundSoFar
  <2>3. \A c \in Counters : counters[c] = Times[c] * z[c] + FoundSoFar(c)
    BY <2>2, TimesType DEF Init, NoConflicts
  <2>. HIDE DEF z
  <2>. QED  BY <2>1, <2>2, <2>3 DEF CountsSoFar, Init
<1>4. NamesSoFar
  BY DEF Init, NamesSoFar
<1>. QED  BY <1>1, <1>2, <1>3, <1>4 DEF MergeInvariant

\* The invariant holds in every state.
THEOREM Invariant == Spec => []MergeInvariant
<1>1. MergeInvariant /\ [Next]_vars => MergeInvariant'
  BY TypeStep, ResultStep, CountsStep, NamesStep DEF MergeInvariant
<1>. QED  BY InitInvariant, <1>1, PTL DEF Spec

\* Type correctness of elektraMerge's state.
THEOREM TypeCorrect == Spec => []TypeOK
<1>1. MergeInvariant => TypeOK
  BY DEF MergeInvariant
<1>. QED  BY Invariant, <1>1, PTL

\* The three calls of checkSingleSet in elektraMerge give the three-way merge of
\* every key, whatever the keys and values are.
THEOREM MergeIsThreeWay == Spec => []MergeExact
<1>1. MergeInvariant => MergeExact
  <2>. SUFFICES ASSUME MergeInvariant, pc = "end", strategy # "abort" \/ BothChanged = {}
                PROVE  result = [k \in Keys |-> ThreeWay(k, strategy)]
    BY DEF MergeExact
  <2>1. result = Appended(Appended(Appended(Empty, CheckBase), CheckTheir), CheckOur)
    BY DEF MergeInvariant, ResultSoFar
  <2>2. ASSUME NEW k \in Keys
        PROVE  result[k] = ThreeWay(k, strategy)
    <3>. DEFINE x == CheckBase[k].append
                y == CheckTheir[k].append
                z == CheckOur[k].append
    <3>1. result[k] = IF z # Absent THEN z ELSE IF y # Absent THEN y ELSE x
      BY <2>1 DEF Appended, Empty
    <3>2. base[k] \in Held /\ our[k] \in Held /\ their[k] \in Held /\ strategy \in Strategies
      BY DEF MergeInvariant, TypeOK, KeySets
    <3>3. /\ x = CheckKey(base[k], our[k], their[k], FALSE, "checked").append
          /\ y = CheckKey(their[k], base[k], our[k], strategy = "their", "first").append
          /\ z = CheckKey(our[k], their[k], base[k], strategy = "our", "second").append
      BY DEF CheckBase, CheckTheir, CheckOur
    <3>4. strategy # "abort" \/ our[k] = base[k] \/ their[k] = base[k]
      BY DEF BothChanged
    <3>. HIDE DEF x, y, z
    <3>5. MergesTo(base[k], our[k], their[k], strategy, x, y, z)
      BY <3>2, <3>3, <3>4, KeyExact
    <3>. QED  BY <3>1, <3>5 DEF ThreeWay, MergesTo
  <2>3. result \in [Keys -> Held]
    BY DEF MergeInvariant, TypeOK, KeySets
  <2>. QED  BY <2>2, <2>3
<1>. QED  BY Invariant, <1>1, PTL

\* Without a merge under way the counters are multiples.
LEMMA CountersExact ==
    ASSUME MergeInvariant, pc \in {"idle", "end"}
    PROVE  GetConflicts = expected
<1>1. PICK n \in [Counters -> Nat] :
         /\ expected = Total(n) + Unfinished
         /\ \A c \in Counters : counters[c] = Times[c] * n[c] + FoundSoFar(c)
  BY DEF MergeInvariant, CountsSoFar
<1>2. Unfinished = 0 /\ \A c \in Counters : FoundSoFar(c) = 0
  BY DEF Unfinished, FoundSoFar
<1>3. \A c \in Counters : n[c] \in Nat
  OBVIOUS
<1>4. /\ Times["onlyBase"] = 1 /\ Times["allExist"] = 3 /\ Times["threeDifferent"] = 3
      /\ Times["baseEmpty"] = 2 /\ Times["oneEmpty"] = 2
  BY DEF Times, Counters
<1>5. /\ counters["onlyBase"] = n["onlyBase"]
      /\ counters["allExist"] = 3 * n["allExist"]
      /\ counters["threeDifferent"] = 3 * n["threeDifferent"]
      /\ counters["baseEmpty"] = 2 * n["baseEmpty"]
      /\ counters["oneEmpty"] = 2 * n["oneEmpty"]
  BY <1>1, <1>2, <1>3, <1>4 DEF Counters
<1>6. \A x \in Nat : (3 * x) \div 3 = x /\ (2 * x) \div 2 = x
  OBVIOUS
<1>. QED  BY <1>1, <1>2, <1>3, <1>5, <1>6 DEF GetConflicts, Total, Counters

\* elektraMergeGetConflicts is exact for any number of keys and merges.
THEOREM ConflictsCountedRight == Spec => []ConflictsCounted
<1>1. MergeInvariant => ConflictsCounted
  BY CountersExact DEF ConflictsCounted
<1>. QED  BY Invariant, <1>1, PTL

\* elektraMergeGetConflictingKeys names the keys in conflict.
THEOREM ConflictsNamedRight == Spec => []ConflictsNamed
<1>1. MergeInvariant => ConflictsNamed
  <2>. SUFFICES ASSUME MergeInvariant, pc = "end"
                PROVE  /\ BothChanged \subseteq conflicting
                       /\ merges = 1 => conflicting = BothChanged
    BY DEF ConflictsNamed
  <2>1. NotedSoFar = BothChanged
    BY NotedKeys DEF MergeInvariant, NotedSoFar
  <2>. QED  BY <2>1 DEF MergeInvariant, NamesSoFar
<1>. QED  BY Invariant, <1>1, PTL
=============================================================================
