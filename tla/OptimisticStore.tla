--------------------------- MODULE OptimisticStore --------------------------
(***************************************************************************)
(* What kdbGet() and kdbSet() promise about one configuration file to      *)
(* applications that share it: a register that is loaded as a whole and    *)
(* replaced as a whole, and only by a client whose last load or store is   *)
(* what it replaces.  Everybody else gets a conflict and changes nothing.  *)
(***************************************************************************)
CONSTANTS Clients, Configs, Nothing

VARIABLES
    current,   \* the configuration in the file
    base       \* what each client loaded or stored last

vars == <<current, base>>

Init ==
    /\ current \in Configs
    /\ base = [c \in Clients |-> Nothing]

\* kdbGet() delivers the configuration of the file.
Get(c) ==
    /\ base' = [base EXCEPT ![c] = current]
    /\ UNCHANGED current

\* kdbSet() replaces the configuration the client knows by a new one.
Set(c) ==
    /\ base[c] = current
    /\ current' \in Configs \ {current}
    /\ base' = [base EXCEPT ![c] = current']

\* Handles are closed, or lost with their process.
Forget(cs) ==
    /\ base' = [c \in Clients |-> IF c \in cs THEN Nothing ELSE base[c]]
    /\ UNCHANGED current

Next ==
    \/ \E c \in Clients : Get(c) \/ Set(c)
    \/ \E cs \in SUBSET Clients : Forget(cs)

Spec == Init /\ [][Next]_vars
=============================================================================
