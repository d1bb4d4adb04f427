---------------------------- MODULE MCHighLevel -----------------------------
EXTENDS HighLevel

CONSTANTS c1, c2, p1, p2

\* The clients are threads of one process, or have a process each.
ThreadsOrProcesses == {[c \in Clients |-> p1],
                       [c \in Clients |-> IF c = c1 THEN p1 ELSE p2]}
=============================================================================
