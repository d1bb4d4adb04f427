-------------------------------- MODULE Cow --------------------------------
(***************************************************************************)
(* Keys and key sets as libelektra-core stores them: a Key points to a     *)
(* KeyName and a KeyData, a KeySet to a KeySetData whose array points to   *)
(* keys.  All three are shared between copies, counted, and detached from  *)
(* the other copies before a write (copy-on-write); keys are counted too,  *)
(* and deleted once no array and no lock of the application counts.        *)
(*                                                                         *)
(* The heap is one record, and every function of the library an operator   *)
(* from heap to heap that makes its calls in the order of the code, with   *)
(* the states in between (a counter that drops to zero for a moment, an    *)
(* object freed before it is read) visible in the result.  Left out:       *)
(* metadata (a key set the key owns), the flags of memory-mapped objects,  *)
(* the reference counter of key sets, the hash map, cascading names.       *)
(***************************************************************************)
EXTENDS Integers, FiniteSets, Sequences, SequencesExt, FiniteSetsExt, Functions

CONSTANTS Sets,       \* the key set variables of the application
          MaxKeys,    \* bound: key objects alive at a time
          NameOrder,  \* all names, each a sequence of parts, in keyCmp() order
          Values,     \* values of keys
          MaxRefs,    \* the largest count, UINT16_MAX - 1 in the code
          MaxLocks,   \* bound: locks of the application at a time
          Null        \* the NULL pointer

VARIABLES heap,       \* all objects
          locks       \* history: keyIncRef() calls of the application per key

vars == <<heap, locks>>

Names == ToSet(NameOrder)
Rank(n) == CHOOSE i \in DOMAIN NameOrder : NameOrder[i] = n
Slash == <<>>         \* the name "/" of a key that has not got its name yet

Keys == 1..MaxKeys
Cells == 1..(MaxKeys + 1)
Arrays == 1..(Cardinality(Sets) + 2)
Temp == Null          \* ksRename()'s own key set
AllSets == Sets \union {Temp}

ASSUME CowAssumption ==
    /\ MaxKeys \in Nat /\ MaxRefs \in Nat /\ MaxRefs > 1 /\ MaxLocks \in Nat
    /\ IsFiniteSet(Sets)
    /\ Null \notin Cells /\ Null \notin Arrays /\ Null \notin Sets
    /\ Null \notin Names /\ Null \notin Values /\ Null # Slash
    /\ Null \notin [name : Names, value : Values \union {Null}]

Freed == [refs |-> 0, val |-> Null]
NoKey == [live |-> FALSE, refs |-> 0, name |-> Null, data |-> Null,
          hasReadOnlyName |-> FALSE]
NoSet == [live |-> FALSE, data |-> Null]

Init ==
    /\ heap = [key   |-> [k \in Keys |-> NoKey],
               set   |-> [s \in AllSets |-> NoSet],
               name  |-> [c \in Cells |-> Freed],
               data  |-> [c \in Cells |-> Freed],
               array |-> [a \in Arrays |-> Freed]]
    /\ locks = [k \in Keys |-> 0]

-----------------------------------------------------------------------------
(* Shared objects: kind is "name", "data" or "array". *)

(* Memory that is free: the object of this number if it is, else any.      *)
Fresh(h, kind, k) ==
    LET free == {o \in DOMAIN h[kind] : h[kind][o].val = Null}
    IN IF k \in free THEN k ELSE Min(free)

RefInc(h, kind, o) ==
    IF o = Null \/ h[kind][o].refs = MaxRefs THEN h
    ELSE [h EXCEPT ![kind][o].refs = @ + 1]

RefDec(h, kind, o) ==
    IF o = Null \/ h[kind][o].refs = 0 THEN h
    ELSE [h EXCEPT ![kind][o].refs = @ - 1]

(* keyNameRefDecAndDel(), keyDataRefDecAndDel() *)
RefDecAndDel(h, kind, o) ==
    LET d == RefDec(h, kind, o)
    IN IF o = Null \/ d[kind][o].refs > 0 THEN d
       ELSE [d EXCEPT ![kind][o] = Freed]

-----------------------------------------------------------------------------
(* Keys. *)

FreeKeys(h) == {k \in Keys : ~h.key[k].live}
FreshKey(h) == Min(FreeKeys(h))

NameOf(h, k) == h.name[h.key[k].name].val
ValueOf(h, k) == LET d == h.key[k].data
                 IN IF d = Null THEN Null ELSE h.data[d].val

keyIncRef(h, k) ==
    IF h.key[k].refs = MaxRefs THEN h ELSE [h EXCEPT !.key[k].refs = @ + 1]

keyDecRef(h, k) ==
    IF h.key[k].refs = 0 THEN h ELSE [h EXCEPT !.key[k].refs = @ - 1]

(* Mutated form of keyDel: the key is deleted whoever counts on it. *)
keyDelAlways(h, k) ==
    LET n == RefDecAndDel(h, "name", h.key[k].name)
    IN [RefDecAndDel(n, "data", h.key[k].data) EXCEPT !.key[k] = NoKey]

keyDel(h, k) ==
    LET n == RefDecAndDel(h, "name", h.key[k].name)
        d == RefDecAndDel(n, "data", h.key[k].data)
    IN IF h.key[k].refs > 0 THEN h ELSE [d EXCEPT !.key[k] = NoKey]

(* The write of a name or a value: detach what is shared, then change it. *)
Overwrite(h, kind, k, v) ==
    LET o == h.key[k][kind]
        d == RefDecAndDel(h, kind, o)
        new == Fresh(d, kind, k)
    IN IF o # Null /\ h[kind][o].refs <= 1
       THEN [h EXCEPT ![kind][o].val = v]
       ELSE [d EXCEPT ![kind][new] = [refs |-> 1, val |-> v],
                      !.key[k][kind] = new]

keyNew(h, n) ==
    Overwrite([h EXCEPT !.key[FreshKey(h)].live = TRUE],
              "name", FreshKey(h), n)

(* Release the part the destination has, then share the source's. *)
CopyPart(h, kind, dest, source) ==
    LET d == RefDecAndDel(h, kind, h.key[dest][kind])
        s == h.key[source][kind]
    IN RefInc([d EXCEPT !.key[dest][kind] = s], kind, s)

keyCopy(h, dest, source, parts) ==
    LET orig == h.key[dest]
        kept == RefInc(RefInc(h, "name", orig.name), "data", orig.data)
        n == IF "name" \in parts THEN CopyPart(kept, "name", dest, source)
                                 ELSE kept
        d == IF "data" \in parts THEN CopyPart(n, "data", dest, source) ELSE n
    IN IF source = dest THEN h
       ELSE RefDecAndDel(RefDecAndDel(d, "name", orig.name),
                         "data", orig.data)

keyDup(h, source) ==
    keyCopy(keyNew(h, Slash), FreshKey(h), source, {"name", "data"})

-----------------------------------------------------------------------------
(* Key sets. *)

Exists(h) == {s \in Sets : h.set[s].live}

Array(h, s) == LET a == h.set[s].data
               IN IF a = Null THEN <<>> ELSE h.array[a].val

keySetDataRefDecAndDel(h, a) ==
    LET d == RefDec(h, "array", a)
        Drop(g, k) == keyDel(keyDecRef(g, k), k)
    IN IF a = Null \/ d.array[a].refs > 0 THEN d
       ELSE [FoldLeft(Drop, d, d.array[a].val) EXCEPT !.array[a] = Freed]

NewData(h, s, keys) ==
    LET a == Fresh(h, "array", 1)
    IN [h EXCEPT !.array[a] = [refs |-> 1, val |-> keys], !.set[s].data = a]

(* Mutated form of keySetDetachData: an array that is shared is kept. *)
keySetDetachDataShared(h, s) ==
    IF h.set[s].data = Null THEN NewData(h, s, <<>>) ELSE h

keySetDetachData(h, s) ==
    LET a == h.set[s].data
        counted == FoldLeft(keyIncRef, h, h.array[a].val)
        copied == Fresh(h, "array", 1)
        released == keySetDataRefDecAndDel(
                       [counted EXCEPT !.array[copied] =
                           [refs |-> 1, val |-> h.array[a].val]], a)
    IN CASE a = Null -> NewData(h, s, <<>>)
         [] a # Null /\ h.array[a].refs > 1 ->
              [released EXCEPT !.set[s].data = copied]
         [] OTHER -> h

ksNew(h, s) == [h EXCEPT !.set[s] = [live |-> TRUE, data |-> Null]]

ksClose(h, s) ==
    [keySetDataRefDecAndDel(h, h.set[s].data) EXCEPT !.set[s].data = Null]

ksDel(h, s) == [ksClose(h, s) EXCEPT !.set[s] = NoSet]

ksClear(h, s) == NewData(ksClose(h, s), s, <<>>)

ksDup(h, d, s) ==
    LET a == h.set[s].data
    IN RefInc([h EXCEPT !.set[d] = [live |-> TRUE, data |-> a]], "array", a)

ksCopy(h, d, s) ==
    LET r == keySetDataRefDecAndDel(h, h.set[d].data)
        a == r.set[s].data
    IN RefInc([r EXCEPT !.set[d].data = a], "array", a)

(* The position of the key with this name, 0 when there is none. *)
Search(h, s, n) == SelectInSeq(Array(h, s), LAMBDA k : NameOf(h, k) = n)

(* Mutated form of InsertPos: new keys go to the end. *)
InsertPosEnd(h, s, n) == 1 + Len(Array(h, s))

InsertPos(h, s, n) ==
    1 + Cardinality({i \in DOMAIN Array(h, s) :
                        Rank(NameOf(h, Array(h, s)[i])) < Rank(n)})

ksAppendKey(h0, s, k) ==
    LET h == [keySetDetachData(h0, s) EXCEPT !.key[k].hasReadOnlyName = TRUE]
        a == h.set[s].data
        n == NameOf(h, k)
        i == Search(h, s, n)
        old == Array(h, s)[i]
        dropped == keyDel(keyDecRef(h, old), old)
    IN CASE i > 0 /\ old = k -> h
         [] i > 0 /\ old # k ->
              [keyIncRef(dropped, k) EXCEPT !.array[a].val[i] = k]
         [] i = 0 ->
              [keyIncRef(h, k) EXCEPT
                  !.array[a].val = InsertAt(@, InsertPos(h, s, n), k)]

ksAppend(h, s, t) ==
    LET Add(g, k) == ksAppendKey(g, s, k)
        d == keySetDetachData(h, s)
    IN FoldLeft(Add, d, Array(d, t))

(* elektraKsPopAtCursor() and, for the last position, ksPop() *)
PopAt(h, s, i) ==
    LET d == keySetDetachData(h, s)
    IN keyDecRef([d EXCEPT !.array[d.set[s].data].val = RemoveAt(@, i)],
                 Array(h, s)[i])

Under(h, root, k) == IsPrefix(root, NameOf(h, k))
Subtree(h, s, root) ==
    SelectSeq(Array(h, s), LAMBDA k : Under(h, root, k))

(* Mutated form of ksBelow: the keys are not counted for the new array. *)
ksBelowUncounted(h, d, s, root) ==
    LET below == Subtree(h, s, root)
    IN IF below = <<>> THEN ksNew(h, d) ELSE NewData(ksNew(h, d), d, below)

ksBelow(h, d, s, root) ==
    LET below == Subtree(h, s, root)
    IN IF below = <<>> THEN ksNew(h, d)
       ELSE NewData(FoldLeft(keyIncRef, ksNew(h, d), below), d, below)

ksCut(h0, d, s, root) ==
    LET h == IF h0.set[s].data = Null THEN h0 ELSE keySetDetachData(h0, s)
        cut == Subtree(h, s, root)
        rest == SelectSeq(Array(h, s), LAMBDA k : ~Under(h, root, k))
    IN IF cut = <<>> THEN ksNew(h, d)
       ELSE NewData([ksNew(h, d) EXCEPT !.array[h.set[s].data].val = rest],
                    d, cut)

ksSubtract(h, s, t) ==
    LET Take(g, n) ==
          LET i == Search(g, s, n)
              k == Array(g, s)[i]
          IN IF i = 0 THEN g ELSE keyDel(PopAt(g, s, i), k)
        names == [i \in DOMAIN Array(h, t) |-> NameOf(h, Array(h, t)[i])]
    IN FoldLeft(Take, h, names)

NewName(n, root, newRoot) == newRoot \o SubSeq(n, Len(root) + 1, Len(n))

(* One key of the loop: in place when only this array counts, else a copy. *)
RenameAt(h, s, i, root, newRoot) ==
    LET a == h.set[s].data
        k == Array(h, s)[i]
        dup == FreshKey(h)
        copied == [keyDecRef(keyDup(h, k), k) EXCEPT
                      !.key[dup].refs = 1, !.array[a].val[i] = dup]
        n == NewName(NameOf(h, k), root, newRoot)
    IN IF h.key[k].refs = 1
       THEN Overwrite(h, "name", k, n)
       ELSE [Overwrite(copied, "name", dup, n) EXCEPT
                !.key[dup].hasReadOnlyName = TRUE]

ksRenameInternal(h, s, root, newRoot) ==
    LET Step(g, i) == IF Under(g, root, Array(h, s)[i])
                      THEN RenameAt(g, s, i, root, newRoot) ELSE g
    IN FoldLeftDomain(Step, h, Array(h, s))

Sort(h, s) ==
    LET Before(k, l) == Rank(NameOf(h, k)) < Rank(NameOf(h, l))
    IN [h EXCEPT !.array[h.set[s].data].val = SortSeq(@, Before)]

First(h, s, root) ==
    SelectInSeq(Array(h, s), LAMBDA k : Under(h, root, k))

ksRename(h0, s, root, newRoot) ==
    LET h == keySetDetachData(h0, s)
        start == First(h, s, root)
        newStart == First(h, s, newRoot)
        cut == ksRenameInternal(ksCut(h, Temp, s, root), Temp, root, newRoot)
    IN CASE start = 0 \/ root = newRoot -> h
         [] start > 0 /\ root # newRoot /\ newStart = start ->
              ksRenameInternal(h, s, root, newRoot)
         [] start > 0 /\ root # newRoot /\ newStart \notin {0, start} ->
              ksDel(ksAppend(cut, s, Temp), Temp)
         [] start > 0 /\ root # newRoot /\ newStart = 0 ->
              Sort(ksRenameInternal(h, s, root, newRoot), s)

-----------------------------------------------------------------------------
(* The calls of the application. *)

Live == {k \in Keys : heap.key[k].live}
Existing == Exists(heap)

KeyNew(n) ==
    /\ FreeKeys(heap) # {}
    /\ heap' = keyNew(heap, n) /\ UNCHANGED locks

KeySetName(k, n) ==
    /\ k \in Live /\ ~heap.key[k].hasReadOnlyName
    /\ heap' = Overwrite(heap, "name", k, n) /\ UNCHANGED locks

KeySetRaw(k, v) ==
    k \in Live /\ heap' = Overwrite(heap, "data", k, v) /\ UNCHANGED locks

KeyCopy(dest, source, parts) ==
    /\ {dest, source} \subseteq Live
    /\ "name" \in parts => ~heap.key[dest].hasReadOnlyName
    /\ heap' = keyCopy(heap, dest, source, parts) /\ UNCHANGED locks

KeyDup(source) ==
    /\ source \in Live /\ FreeKeys(heap) # {}
    /\ heap' = keyDup(heap, source) /\ UNCHANGED locks

KeyDel(k) == k \in Live /\ heap' = keyDel(heap, k) /\ UNCHANGED locks

KeyIncRef(k) ==
    /\ k \in Live /\ SumFunction(locks) < MaxLocks
    /\ heap' = keyIncRef(heap, k)
    /\ locks' = [locks EXCEPT ![k] = @ + 1]

KeyDecRef(k) ==
    /\ locks[k] > 0
    /\ heap' = keyDecRef(heap, k)
    /\ locks' = [locks EXCEPT ![k] = @ - 1]

KsNew(s) == s \notin Existing /\ heap' = ksNew(heap, s) /\ UNCHANGED locks
KsDel(s) == s \in Existing /\ heap' = ksDel(heap, s) /\ UNCHANGED locks
KsClear(s) == s \in Existing /\ heap' = ksClear(heap, s) /\ UNCHANGED locks

KsDup(d, s) ==
    /\ d \notin Existing /\ s \in Existing
    /\ heap' = ksDup(heap, d, s) /\ UNCHANGED locks

KsCopy(d, s) ==
    /\ {d, s} \subseteq Existing /\ d # s
    /\ heap' = ksCopy(heap, d, s) /\ UNCHANGED locks

KsAppendKey(s, k) ==
    /\ s \in Existing /\ k \in Live
    /\ heap' = ksAppendKey(heap, s, k) /\ UNCHANGED locks

KsAppend(s, t) ==
    /\ {s, t} \subseteq Existing
    /\ heap' = ksAppend(heap, s, t) /\ UNCHANGED locks

KsPop(s) ==
    /\ s \in Existing /\ Array(heap, s) # <<>>
    /\ heap' = PopAt(heap, s, Len(Array(heap, s))) /\ UNCHANGED locks

KsBelow(d, s, root) ==
    /\ d \notin Existing /\ s \in Existing
    /\ heap' = ksBelow(heap, d, s, root) /\ UNCHANGED locks

KsCut(d, s, root) ==
    /\ d \notin Existing /\ s \in Existing
    /\ heap' = ksCut(heap, d, s, root) /\ UNCHANGED locks

KsSubtract(s, t) ==
    /\ {s, t} \subseteq Existing /\ s # t
    /\ heap' = ksSubtract(heap, s, t) /\ UNCHANGED locks

\* The bounds: the new names are names of the model, and there are key
\* objects left for the copies of the keys that others hold too.
KsRename(s, root, newRoot) ==
    LET detached == keySetDetachData(heap, s)
        sub == ToSet(Subtree(heap, s, root))
    IN /\ s \in Existing
       /\ \A k \in sub : NewName(NameOf(heap, k), root, newRoot) \in Names
       /\ Cardinality({k \in sub : detached.key[k].refs > 1})
            <= Cardinality(FreeKeys(heap))
       /\ heap' = ksRename(heap, s, root, newRoot) /\ UNCHANGED locks

KeyCalls ==
    \/ \E n \in Names : KeyNew(n)
    \/ \E k \in Keys : KeyDup(k) \/ KeyDel(k) \/ KeyIncRef(k) \/ KeyDecRef(k)
    \/ \E k \in Keys, n \in Names : KeySetName(k, n)
    \/ \E k \in Keys, v \in Values : KeySetRaw(k, v)
    \/ \E k, l \in Keys, parts \in (SUBSET {"name", "data"}) \ {{}} :
          KeyCopy(k, l, parts)

SetCalls ==
    \/ \E s \in Sets : KsNew(s) \/ KsDel(s) \/ KsClear(s) \/ KsPop(s)
    \/ \E s \in Sets, k \in Keys : KsAppendKey(s, k)
    \/ \E s, t \in Sets : \/ KsDup(s, t) \/ KsCopy(s, t)
                          \/ KsAppend(s, t) \/ KsSubtract(s, t)
    \/ \E d, s \in Sets, root \in Names : \/ KsBelow(d, s, root)
                                          \/ KsCut(d, s, root)
    \/ \E s \in Sets, root, newRoot \in Names : KsRename(s, root, newRoot)

Next == KeyCalls \/ SetCalls

Spec == Init /\ [][Next]_vars

-----------------------------------------------------------------------------
(* Properties. *)

Cell(vals) == [refs : 0..MaxRefs, val : vals \union {Null}]

TypeOK ==
    /\ heap.key \in [Keys -> [live : BOOLEAN, refs : 0..MaxRefs,
                              name : Cells \union {Null},
                              data : Cells \union {Null},
                              hasReadOnlyName : BOOLEAN]]
    /\ heap.set \in [AllSets -> [live : BOOLEAN,
                                 data : Arrays \union {Null}]]
    /\ heap.name \in [Cells -> Cell(Names)]
    /\ heap.data \in [Cells -> Cell(Values)]
    /\ DOMAIN heap.array = Arrays
    /\ \A a \in Arrays : /\ heap.array[a].refs \in 0..MaxRefs
                         /\ heap.array[a].val # Null =>
                              ToSet(heap.array[a].val) \subseteq Keys
    /\ locks \in [Keys -> 0..MaxLocks]
    /\ heap.set[Temp] = NoSet

Held(a) == heap.array[a].val # Null

(* Between two calls every counter says exactly how many pointers there    *)
(* are: to a name or a value from keys, to an array from key sets, to a    *)
(* key from arrays and locks; what nobody points to is freed.              *)
RefsExact ==
    /\ \A c \in Cells, kind \in {"name", "data"} :
          LET users == {k \in Live : heap.key[k][kind] = c}
          IN /\ heap[kind][c].refs = Cardinality(users)
             /\ heap[kind][c].val = Null <=> users = {}
    /\ \A a \in Arrays :
          LET users == {s \in AllSets : heap.set[s].data = a}
          IN /\ heap.array[a].refs = Cardinality(users)
             /\ Held(a) <=> users # {}
    /\ \A k \in Live :
          heap.key[k].refs =
             locks[k] + Cardinality({a \in Arrays : /\ Held(a)
                                       /\ k \in ToSet(heap.array[a].val)})

(* No pointer leads to freed memory: not from a live key to its name or    *)
(* value, not from a key set to its array, not from an array or a lock of  *)
(* the application to a key.                                               *)
NoDangling ==
    /\ \A k \in Live : /\ heap.name[heap.key[k].name].val # Null
                       /\ heap.key[k].data # Null =>
                            heap.data[heap.key[k].data].val # Null
    /\ \A s \in Existing : heap.set[s].data # Null => Held(heap.set[s].data)
    /\ \A a \in Arrays : Held(a) => ToSet(heap.array[a].val) \subseteq Live
    /\ \A k \in Keys : locks[k] > 0 => k \in Live

(* The array of every key set is strictly ordered by the names of its      *)
(* keys, which the binary search relies on, though keys are shared between *)
(* key sets and the names of keys can be written and shared.               *)
Ordered ==
    \A s \in Existing : \A i, j \in DOMAIN Array(heap, s) :
        i < j => Rank(NameOf(heap, Array(heap, s)[i]))
                   < Rank(NameOf(heap, Array(heap, s)[j]))

(* What the application sees of a heap. *)
KeyView ==
    [k \in Keys |-> IF heap.key[k].live
                    THEN [name |-> NameOf(heap, k), value |-> ValueOf(heap, k)]
                    ELSE Null]
SetView ==
    [s \in Sets |-> IF heap.set[s].live THEN ToSet(Array(heap, s)) ELSE Null]

(***************************************************************************)
(* The heap implements keys and key sets without any sharing of names,     *)
(* values and arrays: nobody sees a write to somebody else's copy, and     *)
(* keys live exactly as long as without copy-on-write.                     *)
(***************************************************************************)
Shared == INSTANCE SharedKeys WITH key <- KeyView, elems <- SetView

SharingUnseen == Shared!Spec
=============================================================================
