-------------------------------- MODULE Diff --------------------------------
(***************************************************************************)
(* ElektraDiff of src/libs/elektra/diff.c.                                 *)
(*                                                                         *)
(* A key set is a function from Keys to what the key holds, Absent for     *)
(* keys it does not have; a value stands for the value and the metadata of *)
(* a key, which the code compares together.  A diff is seen from each key: *)
(* its entry says what the key is in each of the four key sets addedKeys,  *)
(* removedKeys, modifiedKeys (the old keys) and modifiedNewKeys.  A parent *)
(* key stands for the set of keys that are same or below.                  *)
(***************************************************************************)
CONSTANTS Keys, Values, Absent

ASSUME AbsentAssumption == Absent \notin Values

Held    == Values \union {Absent}
KeySets == [Keys -> Held]
Empty   == [k \in Keys |-> Absent]

Entries == [added : Held, removed : Held, old : Held, new : Held]
Diffs   == [Keys -> Entries]

Entry(a, r, o, n) == [added |-> a, removed |-> r, old |-> o, new |-> n]
NoEntry   == Entry(Absent, Absent, Absent, Absent)
EmptyDiff == [k \in Keys |-> NoEntry]

-----------------------------------------------------------------------------
\* findDifferences, for one key that was `old' and is now `new'.
EntryOf(new, old) ==
    Entry(IF old = Absent THEN new ELSE Absent,
          IF new = Absent THEN old ELSE Absent,
          IF Absent \notin {old, new} /\ old # new THEN old ELSE Absent,
          IF Absent \notin {old, new} /\ old # new THEN new ELSE Absent)

\* elektraDiffCalculate
DiffCalculate(new, old, below) ==
    [k \in Keys |-> IF k \in below THEN EntryOf(new[k], old[k]) ELSE NoEntry]

-----------------------------------------------------------------------------
(***************************************************************************)
(* elektraDiffAppend: one loop over each of addedKeys, modifiedNewKeys and *)
(* removedKeys of the source; e is the target's entry for the key, v what  *)
(* the loop's key set has for it.  An entry that stays as it is although v *)
(* is not Absent is a warning in the code.                                 *)
(***************************************************************************)

\* The key is found in removedKeys but left there.
AppendAddedNoPop(e, v) ==
    IF v = Absent \/ e.added # Absent THEN e
    ELSE IF e.removed = v      THEN [e EXCEPT !.removed = Absent]
    ELSE IF e.removed # Absent THEN [e EXCEPT !.old = e.removed, !.new = v]
    ELSE IF e.old = Absent     THEN [e EXCEPT !.added = v]
    ELSE e

\* A removed key is back, as it was or modified; or the key is new.
AppendAdded(e, v) ==
    IF v = Absent \/ e.added # Absent THEN e
    ELSE IF e.removed = v      THEN [e EXCEPT !.removed = Absent]
    ELSE IF e.removed # Absent THEN [e EXCEPT !.removed = Absent, !.old = e.removed, !.new = v]
    ELSE IF e.old = Absent     THEN [e EXCEPT !.added = v]
    ELSE e

\* An added key stays added, a modified key keeps the older of its old values or
\* is back to it.  `before' is the key in the source's modifiedKeys.
AppendModified(e, v, before) ==
    IF v = Absent THEN e
    ELSE IF e.added # Absent   THEN [e EXCEPT !.added = v]
    ELSE IF e.old = v          THEN [e EXCEPT !.old = Absent, !.new = Absent]
    ELSE IF e.old # Absent     THEN [e EXCEPT !.new = v]
    ELSE IF e.removed = Absent THEN [e EXCEPT !.old = before, !.new = v]
    ELSE e

\* removedKeys gets the value the key had last.
AppendRemovedLast(e, v) ==
    IF v = Absent THEN e
    ELSE IF e.added # Absent   THEN [e EXCEPT !.added = Absent]
    ELSE IF e.old # Absent     THEN [e EXCEPT !.removed = v, !.old = Absent, !.new = Absent]
    ELSE IF e.removed = Absent THEN [e EXCEPT !.removed = v]
    ELSE e

\* An added key is forgotten, a modified key is removed with its old value.
AppendRemoved(e, v) ==
    IF v = Absent THEN e
    ELSE IF e.added # Absent   THEN [e EXCEPT !.added = Absent]
    ELSE IF e.old # Absent     THEN [e EXCEPT !.removed = e.old, !.old = Absent, !.new = Absent]
    ELSE IF e.removed = Absent THEN [e EXCEPT !.removed = v]
    ELSE e

AppendEntry(e, s) ==
    AppendRemoved(AppendModified(AppendAdded(e, s.added), s.new, s.old), s.removed)

DiffAppend(target, source) == [k \in Keys |-> AppendEntry(target[k], source[k])]

-----------------------------------------------------------------------------
\* elektraDiffCut: the part of d that is same or below, and (also
\* elektraDiffRemoveSameOrBelow, elektraDiffRemoveKey) what is left of it.
DiffCut(d, below)    == [k \in Keys |-> IF k \in below THEN d[k] ELSE NoEntry]

DiffRemove(d, below) == [k \in Keys |-> IF k \in below THEN NoEntry ELSE d[k]]

\* elektraDiffIsEmpty
DiffIsEmpty(d) == \A k \in Keys : d[k].added = Absent /\ d[k].removed = Absent /\ d[k].old = Absent

UndoEntryForgetsRemoved(e, v) ==
    IF e.old # Absent THEN e.old ELSE IF e.added # Absent THEN Absent ELSE v

\* elektraDiffUndo: subtract the added keys, append the modified keys, then the
\* removed keys; what is appended last wins.
UndoEntry(e, v) ==
    IF e.removed # Absent    THEN e.removed
    ELSE IF e.old # Absent   THEN e.old
    ELSE IF e.added # Absent THEN Absent
    ELSE v

DiffUndo(d, ks) == [k \in Keys |-> UndoEntry(d[k], ks[k])]

-----------------------------------------------------------------------------
(***************************************************************************)
(* What makes a diff a diff.                                               *)
(***************************************************************************)

\* Both key sets of modified keys have the same keys, with different values, and
\* a key is in one only of the added, removed and modified keys.
WellFormedEntry(e) ==
    /\ e.old = Absent <=> e.new = Absent
    /\ e.old # Absent => e.old # e.new
    /\ e.added # Absent   => e.removed = Absent /\ e.old = Absent
    /\ e.removed # Absent => e.old = Absent

WellFormed(d) == \A k \in Keys : WellFormedEntry(d[k])
=============================================================================
