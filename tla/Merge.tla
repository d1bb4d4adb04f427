------------------------------- MODULE Merge --------------------------------
(***************************************************************************)
(* elektraMerge of src/libs/merge/kdbmerge.c: the three-way merge of key   *)
(* sets, in the build without libgit2.                                     *)
(*                                                                         *)
(* A key set is a function from the names of keys, without their root, to  *)
(* values; metadata is not compared by the code and left out.  The three   *)
(* calls of checkSingleSet are steps, because each adds to the result and  *)
(* to the statistics that the earlier ones left.  The statistics are kept  *)
(* in the metadata of the information key, which the caller may use for    *)
(* several merges.                                                         *)
(***************************************************************************)
EXTENDS Integers, FiniteSets

CONSTANTS
    Keys,
    Values,
    Absent,
    Null,          \* what elektraMerge returns on an error
    MaxMerges      \* bound on the merges with one information key

ASSUME MergeAssumption ==
    /\ Absent \notin Values /\ Null \notin [Keys -> Values \union {Absent}]
    /\ IsFiniteSet(Keys) /\ MaxMerges \in Nat

Held    == Values \union {Absent}
KeySets == [Keys -> Held]
Empty   == [k \in Keys |-> Absent]

Strategies == {"our", "their", "abort"}

\* The statistics: conflicts in keys that only base has, that all have (our and
\* their alike or not), that base does not have, and that one does not have.
Counters == {"onlyBase", "allExist", "threeDifferent", "baseEmpty", "oneEmpty"}

VARIABLES
    pc,
    base, our, their,  \* the key sets without their roots
    strategy,
    result,            \* the key set the result is collected in
    counters,          \* the statistics in the information key
    conflicting,       \* the keys below meta:/elektra/merge/conflict of it
    returned,          \* what the last call returned
    merges,            \* merges with this information key
    expected           \* history: the conflicts they had

input == <<base, our, their, strategy>>
info  == <<counters, conflicting>>
vars  == <<pc, input, result, info, returned, merges, expected>>

TypeOK ==
    /\ pc \in {"idle", "base", "their", "our", "end"}
    /\ {base, our, their, result} \subseteq KeySets
    /\ strategy \in Strategies
    /\ counters \in [Counters -> Nat] /\ conflicting \subseteq Keys
    /\ returned \in KeySets \union {Null}
    /\ merges \in 0 .. MaxMerges /\ expected \in Nat

-----------------------------------------------------------------------------
(***************************************************************************)
(* One key of a key set that is checked against two others: what is        *)
(* appended to the result (Absent if nothing is), and the counter of the   *)
(* conflict that is found ("none" if none is).  baseIs says which of the   *)
(* three key sets is base: the checked, the first or the second one.       *)
(***************************************************************************)
Outcome(append, counter) == [append |-> append, counter |-> counter]
Nothing                  == Outcome(Absent, "none")
Conflict(v, dominant, counter) == Outcome(IF dominant THEN v ELSE Absent, counter)

KeysAreEqual(a, b) == Absent \notin {a, b} /\ a = b

\* Our and their key are the same, which is taken for no conflict.
TwoOfThreeExistAgree(checked, first, second, dominant, baseIs) ==
    IF ~KeysAreEqual(checked, IF first # Absent THEN first ELSE second)
      THEN Conflict(checked, dominant, "oneEmpty")
    ELSE Nothing

\* twoOfThreeExistHelper: the key is in the checked and in one other key set.
TwoOfThreeExist(checked, first, second, dominant, baseIs) ==
    IF ~KeysAreEqual(checked, IF first # Absent THEN first ELSE second)
      THEN Conflict(checked, dominant, "oneEmpty")
    ELSE IF \/ KeysAreEqual(checked, first)  /\ baseIs = "second"
            \/ KeysAreEqual(checked, second) /\ baseIs = "first"
      THEN Conflict(checked, dominant, "baseEmpty")
    ELSE Nothing

\* twoOfThoseKeysAreEqual: the key is in all of them and two values are equal.
TwoAreEqual(checked, first, second, dominant, baseIs) ==
    CASE KeysAreEqual(first, second) ->
           IF baseIs = "checked" THEN Conflict(checked, dominant, "allExist") ELSE Nothing
      [] KeysAreEqual(checked, first) ->
           IF baseIs = "checked"     THEN Outcome(second, "none")
           ELSE IF baseIs = "second" THEN Conflict(checked, dominant, "allExist")
           ELSE Nothing
      [] KeysAreEqual(checked, second) ->
           IF baseIs = "checked"    THEN Outcome(first, "none")
           ELSE IF baseIs = "first" THEN Conflict(checked, dominant, "allExist")
           ELSE Nothing

\* allExistHelper
AllExist(checked, first, second, dominant, baseIs) ==
    IF KeysAreEqual(checked, first) /\ KeysAreEqual(checked, second)
      THEN Outcome(checked, "none")
    ELSE IF \/ KeysAreEqual(first, second)
            \/ KeysAreEqual(checked, first)
            \/ KeysAreEqual(checked, second)
      THEN TwoAreEqual(checked, first, second, dominant, baseIs)
    ELSE Conflict(checked, dominant, "threeDifferent")

\* The body of the loop in checkSingleSet.
CheckKey(checked, first, second, dominant, baseIs) ==
    CASE checked = Absent -> Nothing
      [] checked # Absent /\ Absent \notin {first, second} ->
           AllExist(checked, first, second, dominant, baseIs)
      [] checked # Absent /\ {first, second} = {Absent} ->
           IF baseIs = "checked" THEN Outcome(Absent, "onlyBase") ELSE Outcome(checked, "none")
      [] OTHER -> TwoOfThreeExist(checked, first, second, dominant, baseIs)

CheckTheirDominant == [k \in Keys |-> CheckKey(their[k], base[k], our[k], TRUE, "first")]

CheckBase  == [k \in Keys |-> CheckKey(base[k], our[k], their[k], FALSE, "checked")]
CheckTheir == [k \in Keys |-> CheckKey(their[k], base[k], our[k], strategy = "their", "first")]
CheckOur   == [k \in Keys |-> CheckKey(our[k], their[k], base[k], strategy = "our", "second")]

\* ksAppendKey to the result: what is appended last wins.
Appended(ks, outcome) ==
    [k \in Keys |-> IF outcome[k].append # Absent THEN outcome[k].append ELSE ks[k]]

-----------------------------------------------------------------------------
\* elektraMergeGetConflicts: most conflicts are found in several of the checks.
GetConflicts ==
    counters["onlyBase"] + counters["allExist"] \div 3 + counters["threeDifferent"] \div 3
      + counters["baseEmpty"] \div 2 + counters["oneEmpty"] \div 2

\* What the merge is for: a key that one side has changed, or removed, is taken
\* from that side; if both have, it is a conflict, also if they agree.
BothChanged   == {k \in Keys : our[k] # base[k] /\ their[k] # base[k]}
ThreeWay(k, s) ==
    CASE our[k] = base[k] -> their[k]
      [] our[k] # base[k] /\ their[k] = base[k] -> our[k]
      [] OTHER -> IF s = "our" THEN our[k] ELSE their[k]

-----------------------------------------------------------------------------
NoConflicts == [c \in Counters |-> 0]

Init ==
    /\ pc = "idle"
    /\ base = Empty /\ our = Empty /\ their = Empty /\ result = Empty
    /\ strategy = "abort" /\ returned = Null
    /\ counters = NoConflicts /\ conflicting = {}
    /\ merges = 0 /\ expected = 0

\* The caller takes a new information key.
NewInformationKey ==
    /\ pc = "idle"
    /\ counters' = NoConflicts /\ conflicting' = {}
    /\ merges' = 0 /\ expected' = 0
    /\ UNCHANGED <<pc, input, result, returned>>

\* An unknown strategy, or a key that is not same or below the root of its key
\* set, which removeRoot refuses.
Refuse ==
    /\ pc = "idle"
    /\ returned' = Null
    /\ UNCHANGED <<pc, input, result, info, merges, expected>>

\* elektraMerge up to the checks.
Start ==
    /\ pc = "idle" /\ merges < MaxMerges
    /\ base' \in KeySets /\ our' \in KeySets /\ their' \in KeySets
    /\ strategy' \in Strategies
    /\ result' = Empty /\ returned' = Null
    /\ merges' = merges + 1
    /\ expected' = expected + Cardinality(BothChanged')
    /\ pc' = "base"
    /\ UNCHANGED info

\* The keys of earlier conflicts are forgotten.
CheckSingleSetNamesLast(outcome) ==
    /\ result' = Appended(result, outcome)
    /\ counters' = [c \in Counters |->
                      counters[c] + Cardinality({k \in Keys : outcome[k].counter = c})]
    /\ conflicting' = {k \in Keys : outcome[k].counter # "none"}
    /\ UNCHANGED <<input, returned, merges, expected>>

\* checkSingleSet with addConflictingKeys.
CheckSingleSet(outcome) ==
    /\ result' = Appended(result, outcome)
    /\ counters' = [c \in Counters |->
                      counters[c] + Cardinality({k \in Keys : outcome[k].counter = c})]
    /\ conflicting' = conflicting \union {k \in Keys : outcome[k].counter # "none"}
    /\ UNCHANGED <<input, returned, merges, expected>>

Check ==
    \/ pc = "base"  /\ CheckSingleSet(CheckBase)  /\ pc' = "their"
    \/ pc = "their" /\ CheckSingleSet(CheckTheir) /\ pc' = "our"
    \/ pc = "our"   /\ CheckSingleSet(CheckOur)   /\ pc' = "end"

\* The key sets without their roots are freed.
Free ==
    /\ pc = "end" /\ pc' = "idle"
    /\ base' = Empty /\ our' = Empty /\ their' = Empty /\ result' = Empty
    /\ UNCHANGED <<strategy, info, merges, expected>>

\* The abort strategy gives no result if the information key has conflicts.
End ==
    /\ Free
    /\ returned' = IF GetConflicts > 0 /\ strategy = "abort" THEN Null ELSE result

Next == NewInformationKey \/ Refuse \/ Start \/ Check \/ End

Spec == Init /\ [][Next]_vars

-----------------------------------------------------------------------------
(***************************************************************************)
(* Properties.                                                             *)
(***************************************************************************)

\* The three checks of elektraMerge together take every key from the side that
\* changed it, or from the one that the strategy prefers.
MergeExact ==
    pc = "end" /\ (strategy # "abort" \/ BothChanged = {}) =>
        result = [k \in Keys |-> ThreeWay(k, strategy)]

\* Dividing the counters by how often a conflict is met gives the number of
\* conflicts of the merges with this information key: none is counted in one of
\* the checks and missed in another.
ConflictsCounted == pc \in {"idle", "end"} => GetConflicts = expected

\* elektraMergeGetConflictingKeys: the keys of this merge's conflicts are noted,
\* and no others if the information key is new.
ConflictsNamed ==
    pc = "end" => /\ BothChanged \subseteq conflicting
                  /\ merges = 1 => conflicting = BothChanged
=============================================================================
