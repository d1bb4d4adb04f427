----------------------------- MODULE MCThreads ------------------------------
(***************************************************************************)
(* Resolver with several threads in one process: the client `other' is     *)
(* alone in the process procQ, all others are threads of the process procP. *)
(***************************************************************************)
EXTENDS Resolver

CONSTANTS other, procP, procQ

Threads == [c \in Clients |-> IF c = other THEN procQ ELSE procP]
=============================================================================
