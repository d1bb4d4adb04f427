----------------------------- MODULE DiffProofs -----------------------------
(***************************************************************************)
(* The algebra of diffs, for any keys and values: undoing, composing and   *)
(* accumulating diffs.  Everything is pointwise, so each fact is proved    *)
(* for the entry of one key first.                                         *)
(***************************************************************************)
EXTENDS Diff, TLAPS

LEMMA EntryFields ==
    ASSUME NEW a, NEW r, NEW o, NEW n
    PROVE  /\ Entry(a, r, o, n).added = a /\ Entry(a, r, o, n).removed = r
           /\ Entry(a, r, o, n).old = o /\ Entry(a, r, o, n).new = n
  BY DEF Entry

\* Two entries are equal if their fields are.
LEMMA EntryEqual ==
    ASSUME NEW e \in Entries, NEW f \in Entries,
           e.added = f.added, e.removed = f.removed, e.old = f.old, e.new = f.new
    PROVE  e = f
  BY DEF Entries

LEMMA NoEntryType == NoEntry \in Entries /\ WellFormedEntry(NoEntry)
  BY DEF NoEntry, Entry, Entries, Held, WellFormedEntry

\* findDifferences yields an entry.
LEMMA EntryOfType ==
    ASSUME NEW a \in Held, NEW b \in Held
    PROVE  EntryOf(b, a) \in Entries /\ WellFormedEntry(EntryOf(b, a))
  BY AbsentAssumption DEF EntryOf, Entry, Entries, Held, WellFormedEntry

-----------------------------------------------------------------------------
(***************************************************************************)
(* Each loop of elektraDiffAppend keeps an entry well-formed.              *)
(***************************************************************************)

LEMMA AppendAddedType ==
    ASSUME NEW e \in Entries, WellFormedEntry(e), NEW v \in Held
    PROVE  AppendAdded(e, v) \in Entries /\ WellFormedEntry(AppendAdded(e, v))
  BY DEF AppendAdded, Entries, Held, WellFormedEntry

LEMMA AppendModifiedType ==
    ASSUME NEW e \in Entries, WellFormedEntry(e), NEW v \in Held, NEW w \in Held,
           v = Absent <=> w = Absent, v # Absent => v # w
    PROVE  AppendModified(e, v, w) \in Entries /\ WellFormedEntry(AppendModified(e, v, w))
  BY DEF AppendModified, Entries, Held, WellFormedEntry

LEMMA AppendRemovedType ==
    ASSUME NEW e \in Entries, WellFormedEntry(e), NEW v \in Held
    PROVE  AppendRemoved(e, v) \in Entries /\ WellFormedEntry(AppendRemoved(e, v))
  BY DEF AppendRemoved, Entries, Held, WellFormedEntry

\* Appending a diff keeps what elektraDiffAppend takes for granted.
LEMMA AppendEntryType ==
    ASSUME NEW e \in Entries, WellFormedEntry(e), NEW s \in Entries, WellFormedEntry(s)
    PROVE  AppendEntry(e, s) \in Entries /\ WellFormedEntry(AppendEntry(e, s))
  <1> DEFINE e1 == AppendAdded(e, s.added)
             e2 == AppendModified(e1, s.new, s.old)
  <1>1. /\ s.added \in Held /\ s.removed \in Held /\ s.old \in Held /\ s.new \in Held
        /\ s.new = Absent <=> s.old = Absent
        /\ s.new # Absent => s.new # s.old
    BY DEF Entries, WellFormedEntry
  <1>2. e1 \in Entries /\ WellFormedEntry(e1)
    BY <1>1, AppendAddedType
  <1>3. e2 \in Entries /\ WellFormedEntry(e2)
    BY <1>1, <1>2, AppendModifiedType
  <1>4. AppendRemoved(e2, s.removed) \in Entries /\ WellFormedEntry(AppendRemoved(e2, s.removed))
    BY <1>1, <1>3, AppendRemovedType
  <1> QED
    BY <1>4 DEF AppendEntry

-----------------------------------------------------------------------------
(***************************************************************************)
(* What appending the change of one key amounts to.                        *)
(***************************************************************************)

LEMMA AppendNothing ==
    ASSUME NEW e \in Entries
    PROVE  AppendEntry(e, NoEntry) = e
  BY DEF AppendEntry, AppendAdded, AppendModified, AppendRemoved, NoEntry, Entry

\* Only one of the three loops does anything for a key.
LEMMA AppendChange ==
    ASSUME NEW e \in Entries, NEW a \in Held, NEW b \in Held
    PROVE  AppendEntry(e, EntryOf(b, a)) =
             IF a = b THEN e
             ELSE IF a = Absent THEN AppendAdded(e, b)
             ELSE IF b = Absent THEN AppendRemoved(e, a)
             ELSE AppendModified(e, b, a)
  <1> DEFINE s == EntryOf(b, a)
  <1>1. s.added = IF a = Absent THEN b ELSE Absent
    BY EntryFields DEF EntryOf
  <1>2. s.removed = IF b = Absent THEN a ELSE Absent
    BY EntryFields DEF EntryOf
  <1>3. /\ s.old = IF Absent \notin {a, b} /\ a # b THEN a ELSE Absent
        /\ s.new = IF Absent \notin {a, b} /\ a # b THEN b ELSE Absent
    BY EntryFields DEF EntryOf
  <1>4. \A f : AppendAdded(f, Absent) = f
    BY DEF AppendAdded
  <1>5. \A f, w : AppendModified(f, Absent, w) = f
    BY DEF AppendModified
  <1>6. \A f : AppendRemoved(f, Absent) = f
    BY DEF AppendRemoved
  <1>7. CASE a = b
    BY <1>1, <1>2, <1>3, <1>4, <1>5, <1>6, <1>7 DEF AppendEntry
  <1>8. CASE a # b /\ a = Absent
    BY <1>1, <1>2, <1>3, <1>4, <1>5, <1>6, <1>8 DEF AppendEntry
  <1>9. CASE a # b /\ a # Absent /\ b = Absent
    BY <1>1, <1>2, <1>3, <1>4, <1>5, <1>6, <1>9 DEF AppendEntry
  <1>10. CASE a # b /\ a # Absent /\ b # Absent
    BY <1>1, <1>2, <1>3, <1>4, <1>5, <1>6, <1>10 DEF AppendEntry
  <1> QED
    BY <1>7, <1>8, <1>9, <1>10

\* Undoing an entry after one more change gives what undoing it before gave,
\* whatever the entry says about the value the change started from.
LEMMA UndoAppendEntry ==
    ASSUME NEW e \in Entries, WellFormedEntry(e), NEW a \in Held, NEW b \in Held
    PROVE  UndoEntry(AppendEntry(e, EntryOf(b, a)), b) = UndoEntry(e, a)
  <1>1. CASE a = b
    BY <1>1, AppendChange
  <1>2. CASE a # b /\ a = Absent
    <2>1. UndoEntry(AppendAdded(e, b), b) = UndoEntry(e, a)
      BY <1>2 DEF AppendAdded, UndoEntry, WellFormedEntry, Entries, Held
    <2> QED BY <1>2, <2>1, AppendChange
  <1>3. CASE a # b /\ a # Absent /\ b = Absent
    <2>1. UndoEntry(AppendRemoved(e, a), b) = UndoEntry(e, a)
      BY <1>3 DEF AppendRemoved, UndoEntry, WellFormedEntry, Entries, Held
    <2> QED BY <1>3, <2>1, AppendChange
  <1>4. CASE a # b /\ a # Absent /\ b # Absent
    <2>1. UndoEntry(AppendModified(e, b, a), b) = UndoEntry(e, a)
      BY <1>4 DEF AppendModified, UndoEntry, WellFormedEntry, Entries, Held
    <2> QED BY <1>4, <2>1, AppendChange
  <1> QED
    BY <1>1, <1>2, <1>3, <1>4

\* The change from a to b followed by the one from b to c is the one from a to c.
LEMMA ComposeEntries ==
    ASSUME NEW a \in Held, NEW b \in Held, NEW c \in Held
    PROVE  AppendEntry(EntryOf(b, a), EntryOf(c, b)) = EntryOf(c, a)
  <1> DEFINE e == EntryOf(b, a)
             f == EntryOf(c, a)
  <1>0. e \in Entries /\ f \in Entries
    BY EntryOfType
  <1>1. /\ e.added = IF a = Absent THEN b ELSE Absent
        /\ e.removed = IF b = Absent THEN a ELSE Absent
        /\ e.old = IF a # Absent /\ b # Absent /\ a # b THEN a ELSE Absent
        /\ e.new = IF a # Absent /\ b # Absent /\ a # b THEN b ELSE Absent
    BY EntryFields DEF EntryOf
  <1>2. /\ f.added = IF a = Absent THEN c ELSE Absent
        /\ f.removed = IF c = Absent THEN a ELSE Absent
        /\ f.old = IF a # Absent /\ c # Absent /\ a # c THEN a ELSE Absent
        /\ f.new = IF a # Absent /\ c # Absent /\ a # c THEN c ELSE Absent
    BY EntryFields DEF EntryOf
  <1>3. CASE b = c
    BY <1>0, <1>3, AppendChange
  <1>4. CASE b # c /\ b = Absent
    <2>1. AppendAdded(e, c) \in Entries
      BY <1>0, EntryOfType, AppendAddedType
    <2>2. /\ AppendAdded(e, c).added = f.added /\ AppendAdded(e, c).removed = f.removed
          /\ AppendAdded(e, c).old = f.old /\ AppendAdded(e, c).new = f.new
      BY <1>0, <1>1, <1>2, <1>4 DEF AppendAdded, Entries
    <2>3. AppendAdded(e, c) = f
      BY <1>0, <2>1, <2>2, EntryEqual
    <2> QED BY <1>0, <1>4, <2>3, AppendChange
  <1>5. CASE b # c /\ b # Absent /\ c = Absent
    <2>1. AppendRemoved(e, b) \in Entries
      BY <1>0, EntryOfType, AppendRemovedType
    <2>2. /\ AppendRemoved(e, b).added = f.added /\ AppendRemoved(e, b).removed = f.removed
          /\ AppendRemoved(e, b).old = f.old /\ AppendRemoved(e, b).new = f.new
      BY <1>0, <1>1, <1>2, <1>5 DEF AppendRemoved, Entries
    <2>3. AppendRemoved(e, b) = f
      BY <1>0, <2>1, <2>2, EntryEqual
    <2> QED BY <1>0, <1>5, <2>3, AppendChange
  <1>6. CASE b # c /\ b # Absent /\ c # Absent
    <2>1. AppendModified(e, c, b) \in Entries
      BY <1>0, <1>6, EntryOfType, AppendModifiedType
    <2>2. /\ AppendModified(e, c, b).added = f.added /\ AppendModified(e, c, b).removed = f.removed
          /\ AppendModified(e, c, b).old = f.old /\ AppendModified(e, c, b).new = f.new
      BY <1>0, <1>1, <1>2, <1>6 DEF AppendModified, Entries
    <2>3. AppendModified(e, c, b) = f
      BY <1>0, <2>1, <2>2, EntryEqual
    <2> QED BY <1>0, <1>6, <2>3, AppendChange
  <1> QED
    BY <1>3, <1>4, <1>5, <1>6

-----------------------------------------------------------------------------
(***************************************************************************)
(* The same for whole diffs.                                               *)
(***************************************************************************)

LEMMA CalculateType ==
    ASSUME NEW a \in KeySets, NEW b \in KeySets, NEW below
    PROVE  DiffCalculate(b, a, below) \in Diffs /\ WellFormed(DiffCalculate(b, a, below))
  BY EntryOfType, NoEntryType DEF DiffCalculate, Diffs, KeySets, WellFormed

\* Appending a diff to a diff gives a diff whose key sets of modified keys have the
\* same keys: the comment in elektraDiffAppend ("both keysets must contain the
\* exact same keys") is right.
THEOREM AppendWellFormed ==
    ASSUME NEW d \in Diffs, WellFormed(d), NEW s \in Diffs, WellFormed(s)
    PROVE  DiffAppend(d, s) \in Diffs /\ WellFormed(DiffAppend(d, s))
  BY AppendEntryType DEF DiffAppend, Diffs, WellFormed

\* Undoing the difference between two key sets gives the older one back.
THEOREM UndoCalculate ==
    ASSUME NEW a \in KeySets, NEW b \in KeySets
    PROVE  DiffUndo(DiffCalculate(b, a, Keys), b) = a
  <1>1. \A x, y \in Held : UndoEntry(EntryOf(y, x), y) = x
    BY EntryFields DEF UndoEntry, EntryOf
  <1>2. ASSUME NEW k \in Keys PROVE DiffUndo(DiffCalculate(b, a, Keys), b)[k] = a[k]
    BY <1>1 DEF DiffUndo, DiffCalculate, KeySets
  <1> QED
    BY <1>2 DEF DiffUndo, KeySets

\* Appending the part diff of one kdbSet() to the part diff of the one before gives
\* the diff of both.
THEOREM AppendCalculate ==
    ASSUME NEW a \in KeySets, NEW b \in KeySets, NEW c \in KeySets, NEW below \in SUBSET Keys
    PROVE  DiffAppend(DiffCalculate(b, a, below), DiffCalculate(c, b, below))
             = DiffCalculate(c, a, below)
  <1>1. ASSUME NEW k \in Keys
        PROVE  AppendEntry(DiffCalculate(b, a, below)[k], DiffCalculate(c, b, below)[k])
                 = DiffCalculate(c, a, below)[k]
    BY ComposeEntries, NoEntryType, AppendNothing DEF DiffCalculate, KeySets
  <1> QED
    BY <1>1 DEF DiffAppend, DiffCalculate

\* A session diff to which the changes from a to b are appended undoes b to what it
\* undid a to, even if it did not describe how a came about.
THEOREM UndoAppend ==
    ASSUME NEW d \in Diffs, WellFormed(d), NEW a \in KeySets, NEW b \in KeySets
    PROVE  DiffUndo(DiffAppend(d, DiffCalculate(b, a, Keys)), b) = DiffUndo(d, a)
  <1>1. ASSUME NEW k \in Keys
        PROVE  UndoEntry(AppendEntry(d[k], EntryOf(b[k], a[k])), b[k]) = UndoEntry(d[k], a[k])
    BY UndoAppendEntry DEF Diffs, KeySets, WellFormed
  <1> QED
    BY <1>1 DEF DiffUndo, DiffAppend, DiffCalculate
=============================================================================
