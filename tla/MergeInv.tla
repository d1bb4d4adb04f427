------------------------------ MODULE MergeInv ------------------------------
(***************************************************************************)
(* Why a merge is exact and its conflicts are counted right: what each of  *)
(* the checks leaves for the next one.                                     *)
(***************************************************************************)
EXTENDS Merge

\* The result after the checks that were made.
ResultSoFar ==
    /\ pc = "base"  => result = Empty
    /\ pc = "their" => result = Appended(Empty, CheckBase)
    /\ pc = "our"   => result = Appended(Appended(Empty, CheckBase), CheckTheir)
    /\ pc = "end"   => result = Appended(Appended(Appended(Empty, CheckBase), CheckTheir), CheckOur)

\* In how many of the checks a conflict is met.
Times == [c \in Counters |-> CASE c = "onlyBase" -> 1
                               [] c \in {"allExist", "threeDifferent"} -> 3
                               [] OTHER -> 2]

Found(outcome, c) == Cardinality({k \in Keys : outcome[k].counter = c})

\* What the checks of this merge have added to a counter so far.
FoundSoFar(c) ==
    (IF pc \in {"their", "our"} THEN Found(CheckBase, c) ELSE 0)
      + (IF pc = "our" THEN Found(CheckTheir, c) ELSE 0)

Total(n) ==
    n["onlyBase"] + n["allExist"] + n["threeDifferent"] + n["baseEmpty"] + n["oneEmpty"]

\* The counters are multiples, but for the merge under way.
Unfinished == IF pc \in {"base", "their", "our"} THEN Cardinality(BothChanged) ELSE 0

CountsSoFar ==
    \E n \in [Counters -> Nat] :
        /\ expected = Total(n) + Unfinished
        /\ \A c \in Counters : counters[c] = Times[c] * n[c] + FoundSoFar(c)

\* The keys that the checks of this merge have noted so far.
Noted(outcome) == {k \in Keys : outcome[k].counter # "none"}
NotedSoFar ==
    (IF pc \in {"their", "our", "end"} THEN Noted(CheckBase) ELSE {})
      \union (IF pc \in {"our", "end"} THEN Noted(CheckTheir) ELSE {})
      \union (IF pc = "end" THEN Noted(CheckOur) ELSE {})

NamesSoFar ==
    /\ merges = 0 => pc = "idle" /\ conflicting = {}
    /\ pc # "idle" => /\ NotedSoFar \subseteq conflicting
                      /\ merges = 1 => conflicting = NotedSoFar

MergeInvariant ==
    /\ TypeOK
    /\ ResultSoFar
    /\ CountsSoFar
    /\ NamesSoFar
=============================================================================
