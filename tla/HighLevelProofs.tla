-------------------------- MODULE HighLevelProofs ---------------------------
(***************************************************************************)
(* Proofs about HighLevel: a save that reports success is stored, a retry  *)
(* undoes nothing, and the loop keeps to the promise of OptimisticStore.   *)
(***************************************************************************)
EXTENDS HighLevel, SequenceTheorems, TLAPS

(***************************************************************************)
(* The inductive invariant.                                                *)
(***************************************************************************)

\* Clients with a handle know a version of the file, and only they return results.
HandleHasVersion ==
    /\ Current # 0
    /\ \A c \in Clients : /\ pc[c] = "closed" <=> seen[c] = 0
                          /\ pc[c] = "closed" <=> base[c] = 0
                          /\ result[c] = "ok" => pc[c] = "idle"

\* kdbSet() is called with the key to save, in the place it is to be saved in.
KeyInConfig == \A c \in Clients : pc[c] \in {"set", "store"} => config[c][arg[c][1]] = arg[c][2]

\* Nobody stores between the comparison of versions and the commit.
VersionHeld == \A c \in Clients : pc[c] = "store" => seen[c] = Current

Saving == {"append", "set", "store", "get"}

\* elektra->config is the version loaded or stored last, but for what was to be saved.
OwnChangesOf(c) ==
    /\ pc[c] # "closed" => \A k \in Keys : config[c][k] # versions[base[c]][k]
                                             => <<k, config[c][k]>> \in asked[c]
    /\ pc[c] \in Saving => arg[c] \in asked[c]

OwnChanges == \A c \in Clients : OwnChangesOf(c)

\* What a save works on is what it began with, or has been loaded since.
SinceBegun(c) == {begun[c][1]} \union (begun[c][2]..Current)

LoadedSinceOf(c) ==
    /\ pc[c] \in Saving \/ result[c] = "ok" => SinceBegun(c) \subseteq 1..Current
    /\ pc[c] \in Saving => base[c] \in SinceBegun(c)

LoadedSince == \A c \in Clients : LoadedSinceOf(c)

SavedOf(c) ==
    result[c] = "ok" => \E i \in SinceBegun(c) : versions[i][arg[c][1]] = arg[c][2]

HighLevelInvariant ==
    /\ TypeOK
    /\ HandleHasVersion
    /\ KeyInConfig
    /\ VersionHeld
    /\ OwnChanges
    /\ LoadedSince
    /\ SavedIsStored

-----------------------------------------------------------------------------
\* The steps of client c, one disjunct per action.
NextOf(c) ==
    \/ Open(c) \/ Close(c)
    \/ AppendKey(c)
    \/ Get(c)
    \/ SetNothing(c)
    \/ SetResolve(c)
    \/ SetConflict(c)
    \/ SetBusy(c)
    \/ SetStore(c)
    \/ SetFails(c)
    \/ GetFails(c)
    \/ \E a \in Arguments : Save(c, a)

LEMMA NextSplit == Next => (\E c \in Clients : NextOf(c)) \/ \E p \in Procs : Crash(p)
  BY DEF Next, Step, NextOf

LEMMA ArgumentType ==
    /\ NoArgument \in Arguments
    /\ \A a \in Arguments : a[1] \in Keys /\ a[2] \in Values /\ a = <<a[1], a[2]>>
    /\ Empty \in Contents
  <1>1. PICK k \in Keys, v \in Values : TRUE
    BY HighLevelAssumption
  <1>2. <<k, v>> \in Arguments
    BY DEF Arguments
  <1>3. NoArgument \in Arguments
    BY <1>2 DEF NoArgument
  <1> QED
    BY <1>3 DEF Arguments, Empty, Contents

\* What another version does to the ones before.
LEMMA VersionAdded ==
    ASSUME TypeOK, NEW v \in Contents, versions' = Append(versions, v)
    PROVE  /\ versions' \in Seq(Contents) /\ Current' = Current + 1 /\ Current \in Nat
           /\ \A i \in 1..Current : versions'[i] = versions[i]
           /\ versions'[Current + 1] = v
  BY AppendProperties DEF TypeOK, Current

LEMMA VersionsType ==
    ASSUME TypeOK
    PROVE  Current \in Nat /\ \A i \in 1..Current : versions[i] \in Contents
  BY LenProperties, ElementOfSeq DEF TypeOK, Current

-----------------------------------------------------------------------------
LEMMA TypeInit == Init => TypeOK
  <1> SUFFICES ASSUME Init PROVE TypeOK
    OBVIOUS
  <1>1. versions \in Seq(Contents) /\ Current = 1
    BY ArgumentType DEF Init, Current
  <1> QED
    BY <1>1, ArgumentType, HighLevelAssumption DEF Init, TypeOK

\* What the variables of kdbGet() may become.
LEMMA RefreshType ==
    ASSUME TypeOK, Current # 0, NEW c \in Clients, Refresh(c)
    PROVE  /\ seen' \in [Clients -> 0..Current] /\ base' \in [Clients -> 0..Current]
           /\ config' \in [Clients -> Contents]
  <1>1. Current \in 0..Current /\ versions[Current] \in Contents
    BY VersionsType
  <1>2. CASE seen[c] = Current
    BY <1>2 DEF Refresh, TypeOK
  <1>3. CASE seen[c] # Current
    BY <1>1, <1>3 DEF Refresh, TypeOK
  <1> QED
    BY <1>2, <1>3

LEMMA ForgetType ==
    ASSUME TypeOK, NEW cs \in SUBSET Clients, Forget(cs)
    PROVE  /\ seen' \in [Clients -> 0..Current] /\ base' \in [Clients -> 0..Current]
           /\ config' \in [Clients -> Contents]
           /\ pc' \in [Clients -> {"closed", "idle", "append", "set", "store", "get"}]
           /\ arg' \in [Clients -> Arguments]
           /\ result' \in [Clients -> {"none", "ok", "error"}]
           /\ asked' \in [Clients -> SUBSET Arguments]
           /\ begun' \in [Clients -> (0..Current) \X (0..Current)]
  <1>1. 0 \in 0..Current
    BY VersionsType
  <1> QED
    BY <1>1, ArgumentType DEF Forget, TypeOK

LEMMA TypeStep == TypeOK /\ HandleHasVersion /\ [Next]_vars => TypeOK'
  <1> SUFFICES ASSUME TypeOK, HandleHasVersion, Next PROVE TypeOK'
    BY DEF vars, TypeOK, Current
  <1>1. CASE \E c \in Clients : NextOf(c)
    <2> PICK c \in Clients : NextOf(c)
      BY <1>1
    <2>1. CASE Open(c)
      <3>1. Refresh(c) /\ Current # 0
        BY <2>1 DEF Open, HandleHasVersion
      <3> QED
        BY <2>1, <3>1, RefreshType DEF Open, Goto, TypeOK, Current
    <2>2. CASE Close(c)
      <3>1. \A d \in Clients : pc'[d] = "store" <=> lock' = d
        BY <2>2 DEF Close, Forget, TypeOK
      <3> QED
        BY <2>2, <3>1, ForgetType DEF Close, TypeOK, Current
    <2>3. CASE AppendKey(c)
      <3>1. arg[c][1] \in Keys /\ arg[c][2] \in Values
        BY ArgumentType DEF TypeOK
      <3>2. [config[c] EXCEPT ![arg[c][1]] = arg[c][2]] \in Contents
        BY <3>1 DEF TypeOK, Contents
      <3>3. config' \in [Clients -> Contents]
        BY <2>3, <3>2 DEF AppendKey, TypeOK
      <3> QED
        BY <2>3, <3>3 DEF AppendKey, Goto, TypeOK, Current
    <2>4. CASE Get(c)
      <3>1. Refresh(c) /\ Current # 0
        BY <2>4 DEF Get, HandleHasVersion
      <3> QED
        BY <2>4, <3>1, RefreshType DEF Get, Goto, TypeOK, Current
    <2>5. CASE SetNothing(c)
      BY <2>5, ArgumentType, VersionsType, HighLevelAssumption DEF SetNothing, Return, Goto,
         TypeOK, Current, TypeOK
    <2>6. CASE SetResolve(c)
      BY <2>6, ArgumentType, VersionsType, HighLevelAssumption DEF SetResolve, MayResolve, Goto,
         TypeOK, Current, TypeOK
    <2>7. CASE SetConflict(c)
      BY <2>7, ArgumentType, VersionsType, HighLevelAssumption DEF SetConflict, Goto, TypeOK,
         Current, TypeOK
    <2>8. CASE SetBusy(c)
      BY <2>8, ArgumentType, VersionsType, HighLevelAssumption DEF SetBusy, Return, Goto, TypeOK,
         Current, TypeOK
    <2>9. CASE SetStore(c)
      <3>1. config[c] \in Contents
        BY DEF TypeOK
      <3>2. versions' \in Seq(Contents) /\ Current' = Current + 1 /\ Current \in Nat
        BY <2>9, <3>1, VersionAdded DEF SetStore
      <3>3. 0..Current \subseteq 0..Current' /\ Current + 1 \in 0..Current'
        BY <3>2
      <3>4. seen' \in [Clients -> 0..Current'] /\ base' \in [Clients -> 0..Current']
        BY <2>9, <3>3 DEF SetStore, TypeOK
      <3>5. begun' \in [Clients -> (0..Current') \X (0..Current')]
        <4>1. \A d \in Clients : begun[d] \in (0..Current') \X (0..Current')
          BY <3>3 DEF TypeOK
        <4> QED
          BY <2>9, <4>1 DEF SetStore, TypeOK
      <3>6. \A d \in Clients : pc'[d] = "store" <=> lock' = d
        BY <2>9, HighLevelAssumption DEF SetStore, Return, Goto, TypeOK
      <3> QED
        BY <2>9, <3>2, <3>4, <3>5, <3>6 DEF SetStore, Return, Goto, TypeOK
    <2>10. CASE SetFails(c)
      <3>1. \A d \in Clients : pc'[d] = "store" <=> lock' = d
        BY <2>10, HighLevelAssumption DEF SetFails, Return, Goto, TypeOK
      <3>2. faults' \in 0..MaxFaults
        BY <2>10, HighLevelAssumption DEF SetFails, TypeOK
      <3> QED
        BY <2>10, <3>1, <3>2 DEF SetFails, Return, Goto, TypeOK, Current
    <2>11. CASE GetFails(c)
      <3>1. seen' \in [Clients -> 0..Current]
        <4>1. Current \in 0..Current /\ seen \in [Clients -> 0..Current]
          BY VersionsType DEF TypeOK
        <4>2. [seen EXCEPT ![c] = Current] \in [Clients -> 0..Current]
          BY <4>1
        <4> QED
          BY <2>11, <4>1, <4>2 DEF GetFails
      <3>2. faults' \in 0..MaxFaults
        BY <2>11, HighLevelAssumption DEF GetFails, TypeOK
      <3> QED
        BY <2>11, <3>1, <3>2 DEF GetFails, Goto, TypeOK, Current
    <2>12. CASE \E a \in Arguments : Save(c, a)
      <3> PICK a \in Arguments : Save(c, a)
        BY <2>12
      <3>1. begun' \in [Clients -> (0..Current) \X (0..Current)]
        <4>1. <<base[c], Current>> \in (0..Current) \X (0..Current)
          BY VersionsType DEF TypeOK
        <4> QED
          BY <4>1 DEF Save, TypeOK
      <3>2. saves' \in 0..MaxSaves
        BY HighLevelAssumption DEF Save, TypeOK
      <3> QED
        BY <3>1, <3>2 DEF Save, Goto, TypeOK, Current
    <2> QED
      BY <2>1, <2>2, <2>3, <2>4, <2>5, <2>6, <2>7, <2>8, <2>9, <2>10, <2>11, <2>12 DEF NextOf
  <1>2. CASE \E p \in Procs : Crash(p)
    <2> PICK p \in Procs : Crash(p)
      BY <1>2
    <2> DEFINE cs == {c \in Clients : procOf[c] = p}
    <2>1. Forget(cs) /\ cs \in SUBSET Clients
      BY DEF Crash
    <2>2. \A d \in Clients : pc'[d] = "store" <=> lock' = d
      BY HighLevelAssumption DEF Crash, Forget, LockAfterCrash, TypeOK
    <2>3. faults' \in 0..MaxFaults
      BY HighLevelAssumption DEF Crash, TypeOK
    <2>4. UNCHANGED <<procOf, versions, saves>> /\ lock' \in Clients \union {NoClient}
      BY DEF Crash, LockAfterCrash, TypeOK
    <2> HIDE DEF cs
    <2> QED
      BY <2>1, <2>2, <2>3, <2>4, ForgetType DEF TypeOK, Current
  <1> QED
    BY <1>1, <1>2, NextSplit

LEMMA HandleStep == TypeOK /\ HandleHasVersion /\ [Next]_vars => HandleHasVersion'
  <1> SUFFICES ASSUME TypeOK, HandleHasVersion, Next PROVE HandleHasVersion'
    BY DEF vars, HandleHasVersion, Current
  <1>1. CASE \E c \in Clients : NextOf(c)
    <2> PICK c \in Clients : NextOf(c)
      BY <1>1
    <2>1. CASE Open(c)
      <3>1. seen[c] = 0 /\ Current # 0
        BY <2>1 DEF Open, HandleHasVersion
      <3> QED
        BY <2>1, <3>1 DEF Open, Goto, Refresh, HandleHasVersion, Current, TypeOK
    <2>2. CASE Close(c)
      BY <2>2, VersionsType DEF Close, Forget, HandleHasVersion, Current, TypeOK
    <2>3. CASE AppendKey(c)
      BY <2>3, VersionsType DEF AppendKey, Goto, HandleHasVersion, Current, TypeOK
    <2>4. CASE Get(c)
      BY <2>4, VersionsType DEF Get, Goto, Refresh, HandleHasVersion, Current, TypeOK
    <2>5. CASE SetNothing(c)
      BY <2>5, VersionsType DEF SetNothing, Return, Goto, HandleHasVersion, Current, TypeOK
    <2>6. CASE SetResolve(c)
      BY <2>6, VersionsType DEF SetResolve, MayResolve, Goto, HandleHasVersion, Current, TypeOK
    <2>7. CASE SetConflict(c)
      BY <2>7, VersionsType DEF SetConflict, Goto, HandleHasVersion, Current, TypeOK
    <2>8. CASE SetBusy(c)
      BY <2>8, VersionsType DEF SetBusy, Return, Goto, HandleHasVersion, Current, TypeOK
    <2>9. CASE SetStore(c)
      <3>1. Current' = Current + 1 /\ Current \in Nat
        BY <2>9, VersionAdded DEF SetStore, TypeOK
      <3> QED
        BY <2>9, <3>1 DEF SetStore, Return, Goto, HandleHasVersion, TypeOK
    <2>10. CASE SetFails(c)
      BY <2>10, VersionsType DEF SetFails, Return, Goto, HandleHasVersion, Current, TypeOK
    <2>11. CASE GetFails(c)
      BY <2>11, VersionsType DEF GetFails, Goto, HandleHasVersion, Current, TypeOK
    <2>12. CASE \E a \in Arguments : Save(c, a)
      BY <2>12, VersionsType DEF Save, Goto, HandleHasVersion, Current, TypeOK
    <2> QED
      BY <2>1, <2>2, <2>3, <2>4, <2>5, <2>6, <2>7, <2>8, <2>9, <2>10, <2>11, <2>12 DEF NextOf
  <1>2. CASE \E p \in Procs : Crash(p)
    BY <1>2, VersionsType DEF Crash, Forget, LockAfterCrash, HandleHasVersion, Current, TypeOK
  <1> QED
    BY <1>1, <1>2, NextSplit

LEMMA KeyInConfigStep == TypeOK /\ KeyInConfig /\ [Next]_vars => KeyInConfig'
  <1> SUFFICES ASSUME TypeOK, KeyInConfig, Next PROVE KeyInConfig'
    BY DEF vars, KeyInConfig
  <1>1. CASE \E c \in Clients : NextOf(c)
    <2> PICK c \in Clients : NextOf(c)
      BY <1>1
    <2>1. CASE Open(c)
      <3>1. \A d \in Clients \ {c} : config'[d] = config[d] /\ pc'[d] = pc[d]
        BY <2>1 DEF Open, Refresh, Goto, TypeOK
      <3>2. pc'[c] = "idle" /\ UNCHANGED arg
        BY <2>1 DEF Open, Goto, TypeOK
      <3> QED
        BY <3>1, <3>2 DEF KeyInConfig
    <2>2. CASE Close(c)
      BY <2>2 DEF Close, Forget, KeyInConfig, TypeOK
    <2>3. CASE AppendKey(c)
      <3>1. arg[c][1] \in Keys /\ config[c] \in [Keys -> Values \union {Absent}]
        BY ArgumentType DEF TypeOK, Contents
      <3>2. config'[c] = [config[c] EXCEPT ![arg[c][1]] = arg[c][2]]
        BY <2>3 DEF AppendKey, TypeOK
      <3>3. config'[c][arg[c][1]] = arg[c][2]
        BY <3>1, <3>2
      <3>4. \A d \in Clients \ {c} : config'[d] = config[d] /\ pc'[d] = pc[d]
        BY <2>3 DEF AppendKey, Goto, TypeOK
      <3> QED
        BY <2>3, <3>3, <3>4 DEF AppendKey, KeyInConfig
    <2>4. CASE Get(c)
      <3>1. \A d \in Clients \ {c} : config'[d] = config[d] /\ pc'[d] = pc[d]
        BY <2>4 DEF Get, Refresh, Goto, TypeOK
      <3>2. pc'[c] = "append" /\ UNCHANGED arg
        BY <2>4 DEF Get, Goto, TypeOK
      <3> QED
        BY <3>1, <3>2 DEF KeyInConfig
    <2>5. CASE SetNothing(c)
      BY <2>5 DEF SetNothing, Return, Goto, KeyInConfig, TypeOK
    <2>6. CASE SetResolve(c)
      BY <2>6 DEF SetResolve, MayResolve, Goto, KeyInConfig, TypeOK
    <2>7. CASE SetConflict(c)
      BY <2>7 DEF SetConflict, Goto, KeyInConfig, TypeOK
    <2>8. CASE SetBusy(c)
      BY <2>8 DEF SetBusy, Return, Goto, KeyInConfig, TypeOK
    <2>9. CASE SetStore(c)
      BY <2>9 DEF SetStore, Return, Goto, KeyInConfig, TypeOK
    <2>10. CASE SetFails(c)
      BY <2>10 DEF SetFails, Return, Goto, KeyInConfig, TypeOK
    <2>11. CASE GetFails(c)
      BY <2>11 DEF GetFails, Goto, KeyInConfig, TypeOK
    <2>12. CASE \E a \in Arguments : Save(c, a)
      BY <2>12 DEF Save, Goto, KeyInConfig, TypeOK
    <2> QED
      BY <2>1, <2>2, <2>3, <2>4, <2>5, <2>6, <2>7, <2>8, <2>9, <2>10, <2>11, <2>12 DEF NextOf
  <1>2. CASE \E p \in Procs : Crash(p)
    BY <1>2 DEF Crash, Forget, LockAfterCrash, KeyInConfig, TypeOK
  <1> QED
    BY <1>1, <1>2, NextSplit

LEMMA VersionHeldStep == TypeOK /\ VersionHeld /\ [Next]_vars => VersionHeld'
  <1> SUFFICES ASSUME TypeOK, VersionHeld, Next PROVE VersionHeld'
    BY DEF vars, VersionHeld, Current
  <1>1. CASE \E c \in Clients : NextOf(c)
    <2> PICK c \in Clients : NextOf(c)
      BY <1>1
    <2>1. CASE Open(c)
      BY <2>1 DEF Open, Goto, Refresh, VersionHeld, Current, TypeOK
    <2>2. CASE Close(c)
      BY <2>2 DEF Close, Forget, VersionHeld, Current, TypeOK
    <2>3. CASE AppendKey(c)
      BY <2>3 DEF AppendKey, Goto, VersionHeld, Current, TypeOK
    <2>4. CASE Get(c)
      BY <2>4 DEF Get, Goto, Refresh, VersionHeld, Current, TypeOK
    <2>5. CASE SetNothing(c)
      BY <2>5 DEF SetNothing, Return, Goto, VersionHeld, Current, TypeOK
    <2>6. CASE SetResolve(c)
      BY <2>6 DEF SetResolve, MayResolve, Goto, VersionHeld, Current, TypeOK
    <2>7. CASE SetConflict(c)
      BY <2>7 DEF SetConflict, Goto, VersionHeld, Current, TypeOK
    <2>8. CASE SetBusy(c)
      BY <2>8 DEF SetBusy, Return, Goto, VersionHeld, Current, TypeOK
    <2>9. CASE SetStore(c)
      <3>1. \A d \in Clients : pc'[d] # "store"
        BY <2>9 DEF SetStore, Return, Goto, TypeOK
      <3> QED
        BY <3>1 DEF VersionHeld
    <2>10. CASE SetFails(c)
      BY <2>10 DEF SetFails, Return, Goto, VersionHeld, Current, TypeOK
    <2>11. CASE GetFails(c)
      BY <2>11 DEF GetFails, Goto, VersionHeld, Current, TypeOK
    <2>12. CASE \E a \in Arguments : Save(c, a)
      BY <2>12 DEF Save, Goto, VersionHeld, Current, TypeOK
    <2> QED
      BY <2>1, <2>2, <2>3, <2>4, <2>5, <2>6, <2>7, <2>8, <2>9, <2>10, <2>11, <2>12 DEF NextOf
  <1>2. CASE \E p \in Procs : Crash(p)
    BY <1>2 DEF Crash, Forget, LockAfterCrash, VersionHeld, Current, TypeOK
  <1> QED
    BY <1>1, <1>2, NextSplit

\* A step of one client is none of the others, and no version is ever changed.
LEMMA OthersUntouched ==
    ASSUME TypeOK, NEW c \in Clients, NextOf(c), NEW d \in Clients, d # c
    PROVE  /\ config'[d] = config[d] /\ seen'[d] = seen[d] /\ base'[d] = base[d]
           /\ pc'[d] = pc[d] /\ arg'[d] = arg[d] /\ result'[d] = result[d]
           /\ asked'[d] = asked[d] /\ begun'[d] = begun[d]
  <1>1. CASE Open(c)
    BY <1>1 DEF Open, Goto, Refresh, TypeOK
  <1>2. CASE Close(c)
    BY <1>2 DEF Close, Forget, TypeOK
  <1>3. CASE AppendKey(c)
    BY <1>3 DEF AppendKey, Goto, TypeOK
  <1>4. CASE Get(c)
    BY <1>4 DEF Get, Goto, Refresh, TypeOK
  <1>5. CASE SetNothing(c)
    BY <1>5 DEF SetNothing, Return, Goto, TypeOK
  <1>6. CASE SetResolve(c)
    BY <1>6 DEF SetResolve, MayResolve, Goto, TypeOK
  <1>7. CASE SetConflict(c)
    BY <1>7 DEF SetConflict, Goto, TypeOK
  <1>8. CASE SetBusy(c)
    BY <1>8 DEF SetBusy, Return, Goto, TypeOK
  <1>9. CASE SetStore(c)
    BY <1>9 DEF SetStore, Return, Goto, TypeOK
  <1>10. CASE SetFails(c)
    BY <1>10 DEF SetFails, Return, Goto, TypeOK
  <1>11. CASE GetFails(c)
    BY <1>11 DEF GetFails, Goto, TypeOK
  <1>12. CASE \E a \in Arguments : Save(c, a)
    BY <1>12 DEF Save, Goto, TypeOK
  <1> QED
    BY <1>1, <1>2, <1>3, <1>4, <1>5, <1>6, <1>7, <1>8, <1>9, <1>10, <1>11, <1>12 DEF NextOf

LEMMA VersionsKept ==
    ASSUME TypeOK, Next, NEW i \in 1..Current
    PROVE  versions'[i] = versions[i]
  <1>1. CASE \E c \in Clients : SetStore(c)
    BY <1>1, VersionAdded DEF SetStore, TypeOK
  <1>2. CASE ~\E c \in Clients : SetStore(c)
    <2>1. UNCHANGED versions
      BY <1>2 DEF Next, Step, Open, Close, Get, GetFails, Save, Crash, AppendKey, SetNothing,
         SetResolve, SetConflict, SetBusy, SetFails
    <2> QED
      BY <2>1
  <1> QED
    BY <1>1, <1>2

\* A client the step does not touch keeps what it has in versions that do not change.
LEMMA UntouchedStep ==
    ASSUME HighLevelInvariant, Next, NEW d \in Clients,
           UNCHANGED <<config[d], base[d], pc[d], arg[d], result[d], asked[d], begun[d]>>
    PROVE  (OwnChangesOf(d) /\ LoadedSinceOf(d) /\ SavedOf(d))'
  <1> USE DEF HighLevelInvariant
  <1>1. Current' \in Nat /\ Current \in Nat /\ Current <= Current'
    <2>1. CASE \E c \in Clients : SetStore(c)
      <3>1. PICK v \in Contents : versions' = Append(versions, v)
        BY <2>1 DEF SetStore, TypeOK
      <3> QED
        BY <3>1, VersionAdded
    <2>2. CASE ~\E c \in Clients : SetStore(c)
      <3>1. UNCHANGED versions
        BY <2>2 DEF Next, Step, Open, Close, Get, GetFails, Save, Crash, AppendKey, SetNothing,
           SetResolve, SetConflict, SetBusy, SetFails
      <3> QED
        BY <3>1, VersionsType DEF Current
    <2> QED
      BY <2>1, <2>2
  <1>2. OwnChangesOf(d) /\ LoadedSinceOf(d) /\ SavedOf(d)
    BY DEF OwnChanges, LoadedSince, SavedIsStored, SavedOf, SinceBegun
  <1>3. begun[d][1] \in Nat /\ begun[d][2] \in Nat
    BY VersionsType DEF TypeOK
  <1>4. SinceBegun(d) \subseteq SinceBegun(d)'
    BY <1>1, <1>3 DEF SinceBegun
  <1>5. OwnChangesOf(d)'
    <2>1. ASSUME pc[d] # "closed" PROVE versions'[base[d]] = versions[base[d]]
      <3>1. base[d] \in 1..Current
        BY <2>1, VersionsType DEF HandleHasVersion, TypeOK
      <3> QED
        BY <3>1, VersionsKept
    <2> QED
      BY <1>2, <2>1 DEF OwnChangesOf
  <1>6. LoadedSinceOf(d)'
    <2>1. ASSUME SinceBegun(d) \subseteq 1..Current PROVE SinceBegun(d)' \subseteq 1..Current'
      BY <1>1, <1>3, <2>1 DEF SinceBegun
    <2> QED
      BY <1>2, <1>4, <2>1 DEF LoadedSinceOf
  <1>7. SavedOf(d)'
    <2> SUFFICES ASSUME result[d] = "ok"
                 PROVE  \E i \in SinceBegun(d)' : versions'[i][arg[d][1]] = arg[d][2]
      BY DEF SavedOf
    <2>1. PICK i \in SinceBegun(d) : versions[i][arg[d][1]] = arg[d][2]
      BY <1>2 DEF SavedOf
    <2>2. versions'[i] = versions[i]
      BY <1>2, <2>1, VersionsKept DEF LoadedSinceOf
    <2> QED
      BY <1>4, <2>1, <2>2
  <1> QED
    BY <1>5, <1>6, <1>7

\* Only SetStore changes the file, and only the client's own step its view of it.
LEMMA OwnStep ==
    HighLevelInvariant /\ [Next]_vars => (OwnChanges /\ LoadedSince /\ SavedIsStored)'
  <1> SUFFICES ASSUME HighLevelInvariant, Next
               PROVE  (OwnChanges /\ LoadedSince /\ SavedIsStored)'
    BY DEF HighLevelInvariant, vars, OwnChanges, OwnChangesOf, LoadedSince, LoadedSinceOf,
       SinceBegun, SavedIsStored, Current
  <1> DEFINE Kept(d) == OwnChangesOf(d) /\ LoadedSinceOf(d) /\ SavedOf(d)
  <1> USE DEF HighLevelInvariant
  <1>1. ASSUME NEW c \in Clients, NextOf(c) PROVE Kept(c)'
    <2> USE DEF OwnChangesOf, LoadedSinceOf, SavedOf
    <2>0. /\ Kept(c)
          /\ result[c] = "ok" => pc[c] = "idle"
          /\ begun[c][1] \in Nat /\ begun[c][2] \in 0..Current /\ Current \in Nat
      BY VersionsType DEF OwnChanges, LoadedSince, SavedIsStored, SinceBegun, HandleHasVersion,
         TypeOK
    <2>1. CASE Open(c)
      <3>1. seen[c] # Current /\ Current \in 1..Current
        BY <2>1, VersionsType DEF Open, HandleHasVersion
      <3>2. /\ config'[c] = versions[Current] /\ base'[c] = Current /\ pc'[c] = "idle"
            /\ result'[c] # "ok" /\ UNCHANGED versions
        BY <2>0, <2>1, <3>1 DEF Open, Refresh, Goto, TypeOK
      <3> QED
        BY <3>2 DEF Saving
    <2>2. CASE Close(c)
      BY <2>2 DEF Close, Forget, Saving
    <2>3. CASE AppendKey(c)
      <3>1. arg[c][1] \in Keys /\ arg[c] = <<arg[c][1], arg[c][2]>> /\ arg[c] \in asked[c]
        BY <2>0, <2>3, ArgumentType DEF AppendKey, TypeOK, Saving
      <3>2. \A k \in Keys : config'[c][k] = IF k = arg[c][1] THEN arg[c][2] ELSE config[c][k]
        BY <2>3 DEF AppendKey, TypeOK, Contents
      <3>3. /\ pc[c] = "append" /\ pc'[c] = "set"
            /\ UNCHANGED <<versions, base, arg, result, asked, begun>>
        BY <2>3 DEF AppendKey, Goto, TypeOK
      <3> QED
        BY <2>0, <3>1, <3>2, <3>3 DEF Saving, SinceBegun, Current
    <2>4. CASE Get(c)
      <3>1. pc[c] = "get" /\ pc'[c] = "append" /\ UNCHANGED <<versions, arg, result, asked, begun>>
        BY <2>4 DEF Get, Goto, TypeOK
      <3>2. \/ config'[c] = config[c] /\ base'[c] = base[c]
            \/ config'[c] = versions[Current] /\ base'[c] = Current
        BY <2>4 DEF Get, Refresh, TypeOK
      <3>3. Current \in SinceBegun(c)
        BY <2>0 DEF SinceBegun
      <3> QED
        BY <2>0, <3>1, <3>2, <3>3 DEF Saving, SinceBegun, Current
    <2>5. CASE SetNothing(c)
      <3>1. /\ pc[c] = "set" /\ config[c] = versions[base[c]] /\ pc'[c] = "idle"
            /\ UNCHANGED <<versions, config, base, arg, asked, begun>>
        BY <2>5 DEF SetNothing, Changed, Return, Goto, TypeOK
      <3>2. config[c][arg[c][1]] = arg[c][2]
        BY <3>1 DEF KeyInConfig
      <3> QED
        BY <2>0, <3>1, <3>2 DEF Saving, SinceBegun, Current
    <2>6. CASE SetResolve(c)
      BY <2>0, <2>6 DEF SetResolve, Goto, TypeOK, Saving, SinceBegun, Current
    <2>7. CASE SetConflict(c)
      BY <2>0, <2>7 DEF SetConflict, Goto, TypeOK, Saving, SinceBegun, Current
    <2>8. CASE SetBusy(c)
      BY <2>0, <2>8 DEF SetBusy, Return, Goto, TypeOK, Saving, SinceBegun, Current
    <2>9. CASE SetStore(c)
      <3>1. /\ pc[c] = "store" /\ pc'[c] = "idle" /\ base'[c] = Current + 1
            /\ UNCHANGED <<config, arg, asked, begun>>
        BY <2>9 DEF SetStore, Return, Goto, TypeOK
      <3>2. versions'[Current + 1] = config[c] /\ Current' = Current + 1
        BY <2>9, <3>1, VersionAdded DEF SetStore, TypeOK
      <3>3. config[c][arg[c][1]] = arg[c][2]
        BY <3>1 DEF KeyInConfig
      <3>4. SinceBegun(c) \subseteq 1..Current
        BY <2>0, <3>1 DEF Saving
      <3>5. SinceBegun(c)' = SinceBegun(c) \union {Current + 1}
        BY <2>0, <3>1, <3>2 DEF SinceBegun
      <3>6. SinceBegun(c)' \subseteq 1..Current'
        BY <2>0, <3>2, <3>4, <3>5
      <3> QED
        BY <3>1, <3>2, <3>3, <3>5, <3>6 DEF Saving
    <2>10. CASE SetFails(c)
      BY <2>0, <2>10 DEF SetFails, Return, Goto, TypeOK, Saving, SinceBegun, Current
    <2>11. CASE GetFails(c)
      BY <2>0, <2>11 DEF GetFails, Goto, TypeOK, Saving, SinceBegun, Current
    <2>12. CASE \E a \in Arguments : Save(c, a)
      <3> PICK a \in Arguments : Save(c, a)
        BY <2>12
      <3>1. /\ pc[c] = "idle" /\ pc'[c] = "append" /\ arg'[c] = a /\ result'[c] = "none"
            /\ asked'[c] = asked[c] \union {a} /\ begun'[c] = <<base[c], Current>>
            /\ UNCHANGED <<versions, config, base>>
        BY DEF Save, Goto, TypeOK
      <3>2. base[c] \in 1..Current
        BY <2>0, <3>1 DEF HandleHasVersion, TypeOK
      <3>3. SinceBegun(c)' = {base[c], Current}
        BY <2>0, <3>1 DEF SinceBegun, Current
      <3> QED
        BY <2>0, <3>1, <3>2, <3>3 DEF Current
    <2> QED
      BY <1>1, <2>1, <2>2, <2>3, <2>4, <2>5, <2>6, <2>7, <2>8, <2>9, <2>10, <2>11, <2>12 DEF NextOf
  <1>2. \A d \in Clients : Kept(d)'
    <2>1. CASE \E c \in Clients : NextOf(c)
      BY <1>1, <2>1, OthersUntouched, UntouchedStep
    <2>2. CASE \E p \in Procs : Crash(p)
      <3> PICK p \in Procs : Crash(p)
        BY <2>2
      <3> SUFFICES ASSUME NEW d \in Clients PROVE Kept(d)'
        OBVIOUS
      <3>1. CASE procOf[d] = p
        BY <3>1 DEF Crash, Forget, OwnChangesOf, LoadedSinceOf, SavedOf, Saving
      <3>2. CASE procOf[d] # p
        BY <3>2, UntouchedStep DEF Crash, Forget
      <3> QED
        BY <3>1, <3>2
    <2> QED
      BY <2>1, <2>2, NextSplit
  <1> QED
    BY <1>2 DEF OwnChanges, LoadedSince, SavedIsStored, SavedOf, SinceBegun

LEMMA InvariantInit == Init => HighLevelInvariant
  <1> SUFFICES ASSUME Init PROVE HighLevelInvariant
    OBVIOUS
  <1>1. TypeOK /\ Current = 1
    BY TypeInit DEF Init, Current
  <1> QED
    BY <1>1 DEF Init, HighLevelInvariant, HandleHasVersion, KeyInConfig, VersionHeld, OwnChanges,
       OwnChangesOf, LoadedSince, LoadedSinceOf, Saving, SavedIsStored

LEMMA InvariantStep == HighLevelInvariant /\ [Next]_vars => HighLevelInvariant'
  BY TypeStep, HandleStep, KeyInConfigStep, VersionHeldStep, OwnStep DEF HighLevelInvariant

-----------------------------------------------------------------------------
\* Every variable keeps to its type, and kdbSet() is under way for the client that
\* has the locks.
THEOREM TypeCorrect == Spec => []TypeOK
  <1>1. HighLevelInvariant => TypeOK
    BY DEF HighLevelInvariant
  <1> QED
    BY <1>1, InvariantInit, InvariantStep, PTL DEF Spec

\* A save that reports success has its value in a version that was the file's while
\* it ran, or in the one the application knew before, after any number of conflicts
\* and failed loads.
THEOREM SuccessIsStored == Spec => []SavedIsStored
  <1>1. HighLevelInvariant => SavedIsStored
    BY DEF HighLevelInvariant
  <1> QED
    BY <1>1, InvariantInit, InvariantStep, PTL DEF Spec

\* The loop of kdbSet() and kdbGet() undoes nothing another application stored: a
\* version differs from the one before only in what its writer was asked to save, or,
\* when a load of the loop has failed after its resolver phase, from the one its
\* writer had loaded last.
THEOREM RetryUndoesNothing == Spec => OthersKept
  <1>1. HighLevelInvariant /\ [Next]_vars =>
          [\A c \in Clients :
             lock = c /\ Len(versions') > Current =>
                \A k \in Keys : versions'[Current + 1][k] # versions[Replaced(c)][k]
                   => <<k, versions'[Current + 1][k]>> \in asked[c]]_vars
    <2> SUFFICES ASSUME HighLevelInvariant, Next, NEW c \in Clients, lock = c,
                        Len(versions') > Current, NEW k \in Keys,
                        versions'[Current + 1][k] # versions[Replaced(c)][k]
                 PROVE  <<k, versions'[Current + 1][k]>> \in asked[c]
      OBVIOUS
    <2> USE DEF HighLevelInvariant
    <2>1. PICK d \in Clients : SetStore(d)
      <3>1. versions' # versions
        BY VersionsType DEF Current
      <3> QED
        BY <3>1 DEF Next, Step, Open, Close, Get, GetFails, Save, Crash, AppendKey, SetNothing,
           SetResolve, SetConflict, SetBusy, SetFails
    <2>2. d = c /\ pc[c] = "store"
      BY <2>1 DEF SetStore, TypeOK
    <2>3. versions'[Current + 1] = config[c] /\ seen[c] = Current
      BY <2>1, <2>2, VersionAdded DEF SetStore, TypeOK, VersionHeld
    <2>4. Replaced(c) = base[c]
      BY <2>3 DEF Replaced
    <2> QED
      BY <2>2, <2>3, <2>4 DEF OwnChanges, OwnChangesOf
  <1> QED
    BY <1>1, InvariantInit, InvariantStep, PTL DEF Spec, OthersKept

\* The loop treats the file as OptimisticStore says: kdbGet() brings the current
\* version, kdbSet() replaces the version the client knows and no other.
THEOREM LoopImplementsStore == Spec => ImplementsStore
  <1>1. Init => Store!Init
    <2> SUFFICES ASSUME Init PROVE Store!Init
      OBVIOUS
    <2>1. Current = 1
      BY DEF Init, Current
    <2> QED
      BY <2>1 DEF Init, Store!Init
  <1>2. HighLevelInvariant /\ [Next]_vars => [Store!Next]_(Store!vars)
    <2> SUFFICES ASSUME HighLevelInvariant, Next PROVE Store!Next \/ UNCHANGED <<Current, seen>>
      BY DEF Store!vars, vars, Current
    <2> USE DEF HighLevelInvariant
    <2>1. ASSUME NEW c \in Clients, Open(c) \/ Get(c) PROVE Store!Next
      <3>1. seen' = [seen EXCEPT ![c] = Current] /\ UNCHANGED Current
        BY <2>1 DEF Open, Get, Refresh, Current, TypeOK
      <3> QED
        BY <3>1 DEF Store!Next, Store!Get
    <2>2. ASSUME NEW c \in Clients, SetStore(c) PROVE Store!Next
      <3>1. Current' = Current + 1 /\ Current \in Nat
        BY <2>2, VersionAdded DEF SetStore, TypeOK
      <3>2. seen[c] = Current /\ seen' = [seen EXCEPT ![c] = Current + 1]
        BY <2>2 DEF SetStore, VersionHeld
      <3>3. Current' \in (Nat \ {0}) \ {Current} /\ seen' = [seen EXCEPT ![c] = Current']
        BY <3>1, <3>2
      <3>4. Store!Set(c)
        BY <3>2, <3>3 DEF Store!Set
      <3> QED
        BY <3>4 DEF Store!Next
    <2>3. ASSUME NEW c \in Clients, Close(c) PROVE Store!Next
      <3>1. seen' = [d \in Clients |-> IF d \in {c} THEN 0 ELSE seen[d]] /\ UNCHANGED Current
        BY <2>3 DEF Close, Forget, Current
      <3> QED
        BY <3>1 DEF Store!Next, Store!Forget
    <2>4. ASSUME NEW p \in Procs, Crash(p) PROVE Store!Next
      <3> DEFINE cs == {c \in Clients : procOf[c] = p}
      <3>1. seen' = [d \in Clients |-> IF d \in cs THEN 0 ELSE seen[d]] /\ UNCHANGED Current
        BY <2>4 DEF Crash, Forget, Current
      <3>2. cs \in SUBSET Clients
        OBVIOUS
      <3> QED
        BY <3>1, <3>2 DEF Store!Next, Store!Forget
    <2>5. ASSUME NEW c \in Clients, GetFails(c) PROVE Store!Next \/ UNCHANGED <<Current, seen>>
      BY <2>5 DEF GetFails, Current, Store!Next, Store!Get
    <2>6. ASSUME NEW c \in Clients, NextOf(c), ~Open(c), ~Get(c), ~SetStore(c), ~Close(c),
                 ~GetFails(c)
          PROVE  UNCHANGED <<Current, seen>>
      BY <2>6 DEF NextOf, Save, AppendKey, SetNothing, SetResolve, SetConflict, SetBusy,
         SetFails, Current
    <2> QED
      BY <2>1, <2>2, <2>3, <2>4, <2>5, <2>6, NextSplit
  <1> QED
    BY <1>1, <1>2, InvariantInit, InvariantStep, PTL DEF Spec, ImplementsStore, Store!Spec
=============================================================================
