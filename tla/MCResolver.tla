----------------------------- MODULE MCResolver -----------------------------
(***************************************************************************)
(* Resolver with every client in a process of its own (Procs = Clients).   *)
(***************************************************************************)
EXTENDS ResolverInv, TLC

OwnProcess == [c \in Clients |-> c]

\* Processes are interchangeable.
Symmetry == Permutations(Clients)
=============================================================================
