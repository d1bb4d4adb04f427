----------------------------- MODULE MCRecorder -----------------------------
(***************************************************************************)
(* Recorder with two backends next to each other, one key in each, or with *)
(* both keys in one backend.                                               *)
(***************************************************************************)
EXTENDS RecorderInv, TLC

CONSTANTS k1, k2

TwoBackends == {1, 2}
OneEach     == [k \in Keys |-> IF k = k1 THEN 1 ELSE 2]
OwnKeys     == [b \in {1, 2} |-> {k \in Keys : OneEach[k] = b}]
Mountpoints == {{1}, {2}}
Cascading   == {{1, 2}}

OneBackend  == {1}
BothInOne   == [k \in Keys |-> 1]
AllKeys     == [b \in {1} |-> Keys]
OnlyParent  == {{1}}

Symmetry == Permutations(Procs) \union Permutations(Values)

WholeSession == {Keys}
PartSession  == {Keys, {k1}}
=============================================================================
