------------------------------ MODULE HighLevel -----------------------------
(***************************************************************************)
(* The high-level API: an Elektra instance keeps the configuration of the  *)
(* application in memory, and every elektraSet...() stores one key with a  *)
(* loop of kdbSet() and, after a conflict, kdbGet() until kdbSet()         *)
(* succeeds or fails for another reason.  Several applications work on     *)
(* the same configuration file.                                            *)
(*                                                                         *)
(* kdbGet() and kdbSet() are as coarse as the loop can tell: kdbSet()      *)
(* returns at once when nothing differs from what the handle got or set    *)
(* last, takes the locks and compares versions in one step, and stores or  *)
(* gives up in another.  The mutex of the process and the time stamp       *)
(* report a conflict, on which the loop tries again; the lock of the file  *)
(* reports an error, with which it ends.  That they follow the promise of  *)
(* OptimisticStore, which Resolver is shown to keep, is a property of this *)
(* module.                                                                 *)
(*                                                                         *)
(* The applications are threads of one process, or processes with a client *)
(* each: these are the deployments in which mutex and lock exclude every   *)
(* other client.  (With two threads and another process they do not: a     *)
(* thread that loses the mutex closes the file, and the kernel drops the   *)
(* lock of its process.)                                                   *)
(***************************************************************************)
EXTENDS Integers, Sequences, FiniteSets

CONSTANTS Clients,    \* threads of applications, one Elektra instance each
          Procs,      \* the processes of the applications
          Deployments,\* which process each client may be in
          Keys, Values,
          Bad,        \* values the validation of kdbSet() refuses
          Absent,     \* the value of a key that is not there
          NoClient,
          MaxSaves,   \* bound: elektraSet...() calls altogether
          MaxFaults   \* bound: crashes and failing calls altogether

ASSUME HighLevelAssumption ==
    /\ NoClient \notin Clients
    /\ Deployments \subseteq [Clients -> Procs]
    /\ \A d \in Deployments :
          \/ \A a, b \in Clients : d[a] = d[b]
          \/ \A a, b \in Clients : a # b => d[a] # d[b]
    /\ Keys # {} /\ Values # {}
    /\ MaxSaves \in Nat /\ MaxFaults \in Nat

VARIABLES procOf,     \* the process of each client; it never changes
          versions,   \* contents of the file, the current one last
          lock,       \* who is between the phases of kdbSet()
          config,     \* elektra->config
          seen,       \* version whose stamp the resolver has, 0 without handle
          base,       \* version in handle->allKeys, 0 without handle
          pc,         \* where each client is
          arg,        \* the key it saves, with its value
          result,     \* how its last save ended
          asked,      \* history: what each client has asked to save since it was opened
          begun,      \* history: version it knew, and current one, when its save began
          saves, faults

vars == <<procOf, versions, lock, config, seen, base, pc, arg, result, asked, begun, saves,
          faults>>

Contents == [Keys -> Values \union {Absent}]
Empty == [k \in Keys |-> Absent]
Current == Len(versions)
Arguments == Keys \X Values
NoArgument == CHOOSE a \in Arguments : TRUE

Size(v) == Cardinality({k \in Keys : v[k] # Absent})

\* Differs from what the handle loaded or stored last, handle->allKeys.
Changed(c) == config[c] # versions[base[c]]

\* When a load has failed after its storage phase, backendData->getSize is that of
\* the version it did not bring, and the size alone may make kdbSet() store.
MayBeChanged(c) == Changed(c) \/ Size(config[c]) # Size(versions[seen[c]])

Init ==
    /\ procOf \in Deployments
    /\ versions = <<Empty>>
    /\ lock = NoClient
    /\ config = [c \in Clients |-> Empty]
    /\ seen = [c \in Clients |-> 0]
    /\ base = [c \in Clients |-> 0]
    /\ pc = [c \in Clients |-> "closed"]
    /\ arg = [c \in Clients |-> NoArgument]
    /\ result = [c \in Clients |-> "none"]
    /\ asked = [c \in Clients |-> {}]
    /\ begun = [c \in Clients |-> <<0, 0>>]
    /\ saves = 0 /\ faults = 0

Goto(c, label) == pc' = [pc EXCEPT ![c] = label]

Return(c, r) ==
    /\ Goto(c, "idle")
    /\ result' = [result EXCEPT ![c] = r]

\* kdbGet() brings the file's contents when the resolver finds another stamp than
\* the one it has.
Refresh(c) ==
    IF seen[c] = Current
    THEN UNCHANGED <<seen, base, config>>
    ELSE /\ seen' = [seen EXCEPT ![c] = Current]
         /\ base' = [base EXCEPT ![c] = Current]
         /\ config' = [config EXCEPT ![c] = versions[Current]]

Open(c) ==
    /\ pc[c] = "closed"
    /\ Refresh(c)
    /\ Goto(c, "idle")
    /\ UNCHANGED <<procOf, versions, lock, arg, result, asked, begun, saves, faults>>

\* elektraSetRawString(): the key, with name and value, for the loop.
Save(c, a) ==
    /\ pc[c] = "idle" /\ saves < MaxSaves
    /\ arg' = [arg EXCEPT ![c] = a]
    /\ asked' = [asked EXCEPT ![c] = @ \union {a}]
    /\ begun' = [begun EXCEPT ![c] = <<base[c], Current>>]
    /\ saves' = saves + 1
    /\ result' = [result EXCEPT ![c] = "none"]
    /\ Goto(c, "append")
    /\ UNCHANGED <<procOf, versions, lock, config, seen, base, faults>>

AppendKey(c) ==
    /\ pc[c] = "append"
    /\ config' = [config EXCEPT ![c][arg[c][1]] = arg[c][2]]
    /\ Goto(c, "set")
    /\ UNCHANGED <<procOf, versions, lock, seen, base, arg, result, asked, begun,
                   saves, faults>>

-----------------------------------------------------------------------------
(* kdbSet() *)

\* No backend has changes: kdbSet() returns 0 without a look at the file.
SetNothing(c) ==
    /\ pc[c] = "set" /\ ~Changed(c)
    /\ Return(c, "ok")
    /\ UNCHANGED <<procOf, versions, lock, config, seen, base, arg, asked, begun,
                   saves, faults>>

\* The lock of the file; between threads the mutex excludes already.
FileBusy(c) == lock # NoClient /\ procOf[lock] # procOf[c]

\* Mutated form of MayResolve: the file's version is not compared.
MayResolveUnchecked(c) == lock = NoClient

MayResolve(c) == lock = NoClient /\ seen[c] = Current

SetResolve(c) ==
    /\ pc[c] = "set" /\ MayBeChanged(c) /\ MayResolve(c)
    /\ lock' = c
    /\ Goto(c, "store")
    /\ UNCHANGED <<procOf, versions, config, seen, base, arg, result, asked, begun,
                   saves, faults>>

\* Another thread is in kdbSet(), or somebody has been since the kdbGet().
SetConflict(c) ==
    /\ pc[c] = "set" /\ MayBeChanged(c) /\ ~MayResolve(c) /\ ~FileBusy(c)
    /\ Goto(c, "get")
    /\ UNCHANGED <<procOf, versions, lock, config, seen, base, arg, result, asked,
                   begun, saves, faults>>

\* Another process is in kdbSet(): not a conflict to the loop, but an error.
SetBusy(c) ==
    /\ pc[c] = "set" /\ MayBeChanged(c) /\ FileBusy(c)
    /\ Return(c, "error")
    /\ UNCHANGED <<procOf, versions, lock, config, seen, base, arg, asked, begun,
                   saves, faults>>

Refused(c) == \E k \in Keys : config[c][k] \in Bad

SetStore(c) ==
    /\ pc[c] = "store" /\ ~Refused(c)
    /\ versions' = Append(versions, config[c])
    /\ seen' = [seen EXCEPT ![c] = Current + 1]
    /\ base' = [base EXCEPT ![c] = Current + 1]
    /\ lock' = NoClient
    /\ Return(c, "ok")
    /\ UNCHANGED <<procOf, config, arg, asked, begun, saves, faults>>

\* Any error but a conflict: rollback, and the loop ends with the key in
\* elektra->config.
SetFails(c) ==
    /\ pc[c] = "store"
    /\ \/ Refused(c) /\ UNCHANGED faults
       \/ faults < MaxFaults /\ faults' = faults + 1
    /\ lock' = NoClient
    /\ Return(c, "error")
    /\ UNCHANGED <<procOf, versions, config, seen, base, arg, asked, begun, saves>>

-----------------------------------------------------------------------------
(* kdbGet() after a conflict, whose result the loop does not look at. *)

\* Mutated form of Get: the loop goes on with kdbSet(), the key is not
\* appended again.
GetAndSet(c) ==
    /\ pc[c] = "get"
    /\ Refresh(c)
    /\ Goto(c, "set")
    /\ UNCHANGED <<procOf, versions, lock, arg, result, asked, begun, saves, faults>>

\* Mutated form of Get: elektra->config keeps what it had.
GetKeepsConfig(c) ==
    /\ pc[c] = "get"
    /\ seen' = [seen EXCEPT ![c] = Current]
    /\ base' = [base EXCEPT ![c] = Current]
    /\ Goto(c, "append")
    /\ UNCHANGED <<procOf, versions, lock, config, arg, result, asked, begun,
                   saves, faults>>

\* Mutated form of Get: the handle does not remember the version it got.
GetKeepsVersion(c) ==
    /\ pc[c] = "get"
    /\ config' = [config EXCEPT ![c] = versions[Current]]
    /\ base' = [base EXCEPT ![c] = Current]
    /\ Goto(c, "append")
    /\ UNCHANGED <<procOf, versions, lock, seen, arg, result, asked, begun, saves,
                   faults>>

Get(c) ==
    /\ pc[c] = "get"
    /\ Refresh(c)
    /\ Goto(c, "append")
    /\ UNCHANGED <<procOf, versions, lock, arg, result, asked, begun, saves, faults>>

\* In the resolver phase nothing has happened yet.  In a later phase the resolver
\* has already taken the stamp of the file, whose contents do not come, and neither
\* do they with the next kdbGet().
GetFails(c) ==
    /\ pc[c] = "get" /\ faults < MaxFaults
    /\ faults' = faults + 1
    /\ seen' \in {seen, [seen EXCEPT ![c] = Current]}
    /\ Goto(c, "append")
    /\ UNCHANGED <<procOf, versions, lock, config, base, arg, result, asked, begun, saves>>

-----------------------------------------------------------------------------
Forget(cs) ==
    /\ config' = [c \in Clients |-> IF c \in cs THEN Empty ELSE config[c]]
    /\ seen' = [c \in Clients |-> IF c \in cs THEN 0 ELSE seen[c]]
    /\ base' = [c \in Clients |-> IF c \in cs THEN 0 ELSE base[c]]
    /\ result' = [c \in Clients |-> IF c \in cs THEN "none" ELSE result[c]]
    /\ pc' = [c \in Clients |-> IF c \in cs THEN "closed" ELSE pc[c]]
    /\ arg' = [c \in Clients |-> IF c \in cs THEN NoArgument ELSE arg[c]]
    /\ asked' = [c \in Clients |-> IF c \in cs THEN {} ELSE asked[c]]
    /\ begun' = [c \in Clients |-> IF c \in cs THEN <<0, 0>> ELSE begun[c]]

Close(c) ==
    /\ pc[c] = "idle"
    /\ Forget({c})
    /\ UNCHANGED <<procOf, versions, lock, saves, faults>>

\* The kernel drops the locks of a process that ends.
LockAfterCrash(p) ==
    IF lock # NoClient /\ procOf[lock] = p THEN NoClient ELSE lock

Crash(p) ==
    /\ faults < MaxFaults
    /\ faults' = faults + 1
    /\ lock' = LockAfterCrash(p)
    /\ Forget({c \in Clients : procOf[c] = p})
    /\ UNCHANGED <<procOf, versions, saves>>

\* One step of the loop.
Step(c) ==
    \/ AppendKey(c) \/ Get(c)
    \/ SetNothing(c) \/ SetResolve(c) \/ SetConflict(c) \/ SetBusy(c)
    \/ SetStore(c) \/ SetFails(c)

Next ==
    \/ \E c \in Clients : Open(c) \/ Close(c) \/ Step(c) \/ GetFails(c)
    \/ \E c \in Clients, a \in Arguments : Save(c, a)
    \/ \E p \in Procs : Crash(p)

Spec == Init /\ [][Next]_vars /\ \A c \in Clients : WF_vars(Step(c))

-----------------------------------------------------------------------------
(* Properties. *)

TypeOK ==
    /\ procOf \in Deployments
    /\ versions \in Seq(Contents)
    /\ lock \in Clients \union {NoClient}
    /\ config \in [Clients -> Contents]
    /\ seen \in [Clients -> 0..Current] /\ base \in [Clients -> 0..Current]
    /\ pc \in [Clients -> {"closed", "idle", "append", "set", "store", "get"}]
    /\ \A c \in Clients : pc[c] = "store" <=> lock = c
    /\ arg \in [Clients -> Arguments]
    /\ result \in [Clients -> {"none", "ok", "error"}]
    /\ asked \in [Clients -> SUBSET Arguments]
    /\ begun \in [Clients -> (0..Current) \X (0..Current)]
    /\ saves \in 0..MaxSaves /\ faults \in 0..MaxFaults

(* A save that reports success has its value in a version that was the     *)
(* file's while the save ran, or in the one the application knew when it   *)
(* began: kdbSet() does not look at the file when nothing differs from     *)
(* that.  So it is after any number of conflicts, failed loads and updates *)
(* of others.                                                              *)
SavedIsStored ==
    \A c \in Clients :
        result[c] = "ok" =>
            \E i \in {begun[c][1]} \union (begun[c][2]..Current) :
                versions[i][arg[c][1]] = arg[c][2]

\* The version an application works on when it stores.  A load that fails after its
\* resolver phase leaves it with older contents that kdbSet() takes for current.
Replaced(c) == IF base[c] = seen[c] THEN Current ELSE base[c]

(* What an application stores differs from the version it replaces only in *)
(* keys and values it was asked to save: no update of another application  *)
(* is undone by a retry, unless the kdbGet() of the loop has failed once   *)
(* it had the stamp: then the updates of others since the last load are    *)
(* undone.  (Asked at any time since it was opened: a key whose save has   *)
(* failed stays in elektra->config, and the next save stores it too.)      *)
OthersKept ==
    [][\A c \in Clients :
          lock = c /\ Len(versions') > Current =>
             \A k \in Keys : versions'[Current + 1][k] # versions[Replaced(c)][k]
                => <<k, versions'[Current + 1][k]>> \in asked[c]]_vars

(* Every save ends: with success, an error, or its process.                *)
EverySaveReturns ==
    \A c \in Clients : pc[c] \in {"append", "set", "get", "store"}
                          ~> pc[c] \in {"idle", "closed"}

(* The loop treats the file as OptimisticStore says, with stamps for       *)
(* configurations: it replaces only the version whose stamp it has.  (A    *)
(* load that fails after its resolver phase counts as one that has brought *)
(* its version.)                                                           *)
Store == INSTANCE OptimisticStore WITH
    Configs <- Nat \ {0},
    Nothing <- 0,
    current <- Current,
    base <- seen

ImplementsStore == Store!Spec
=============================================================================
