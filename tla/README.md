# Elektra: storing and loading configuration, in TLA+

Elektra keeps the configuration of many applications in one key database. An
application opens a handle (`kdbOpen`), loads keys below a parent key
(`kdbGet`), changes its key set and stores it (`kdbSet`). The database is a set
of *backends*, each mounted somewhere in the key hierarchy and each kept in a
file that other processes read and replace at any time. There is no server:
consistency rests on time stamps, file locks and the order of system calls.

This directory models that core and the libraries built on it (recording and
undoing changes, merging, plugins in processes of their own, the copy-on-write data
structures below everything, the high-level API above), checks them with TLC on
small instances, and proves the most important properties with TLAPS for all
instances. All paths
below are relative to the repository's root.

## 1. Inventory

| Component | State it keeps | Operations | Modelled by |
|---|---|---|---|
| resolver, `src/plugins/resolver/resolver.c` | per handle: `fd`, `mtime`, `isMissing`, `removalNeeded`; per process: a mutex; per file: fcntl lock, inode, time stamp | get, set (prepare), set (commit), error | `Resolver` |
| KDB core, `src/libs/elektra/kdb.c` | `KDB.allKeys`, `KDB.backends`; per backend `BackendData` | `kdbGet`, `kdbSet`, their phases | `Kdb` |
| dividing and merging, `src/libs/elektra/backends.c` | `BackendData.keys`, `getSize` | `backendsFindParent`, `backendsForParentKey`, `backendsDivide`, `backendsMerge` | `Kdb` |
| backend plugin, `src/plugins/backend/backend.c` | plugins of a mountpoint | one function per phase | `Kdb` (as steps) |
| Key and KeySet, `src/libs/elektra/{key,keyset,keyname,keyvalue,cow}.c` | ordered keys, reference counts, shared names, values and arrays | create, copy, rename and delete keys; 12 operations on key sets | `Cow`, `SharedKeys` |
| diff and change tracking, `diff.c`, `changetracking.c` | added, removed, modified keys | calculate, append, cut, remove, undo | `Diff` |
| record library and recorder plugin, `record.c`, `recorder.c` | session diff, active key, a lock file, a handle of its own | lock, record, unlock in `kdbSet`; enable, disable, reset, remove, undo | `Recorder` |
| pluginprocess, `pluginprocess.c` | a child process, four pipes, counters on both sides | init, open, send, close; the child's loop | `PluginProcess` |
| merge, `kdbmerge.c` | three key sets, a result, statistics in an information key | `elektraMerge` | `Merge` |
| high-level API, `src/libs/highlevel/elektra.c` | a handle and the configuration in memory | open, save with retries, close | `HighLevel` |
| notification and its transports | registrations, callbacks | register, notify, update | not modelled (section 6) |

The other components (option parsing, globbing, storage and checker plugins, the
OPMPHM index, I/O bindings, tools, language bindings) and why they are left out
are listed under `components` in `PROJECT.json`.

**How they interact.** `kdbGet` selects the backends for the parent key and runs
phases over all of them: the *resolver* phase asks each resolver whether its file
changed, the *storage* phase reads those that did, the *poststorage* phase checks
what was read. `kdbSet` divides the key set among the selected backends, drops
those that did not change compared to `allKeys`, then runs the resolver phase
(lock and conflict check), the storage phase (temporary files), the commit phase
(renames), or the rollback phase. Different applications only meet in the file
system: the name of the file, its inodes, their time stamps and locks.

**What is hard.** Every system call of the resolver interleaves with those of
other processes and threads. A conflict is recognized by comparing time stamps,
with a coarse clock. Processes die with files half replaced. fcntl locks belong to
processes, not threads. One of several backends may fail. Whether a backend needs
to be written at all is decided by comparing with `allKeys` and `getSize`, which
every call, successful or not, changes. Backends nest. Changes are recorded in a
second database operation after the first has been committed, by processes that
share one session. A child process may die with any part of an answer in a pipe.
Copies share memory until the first write.

**What makes it correct**

* resolver: no update of another application is overwritten unseen; "no update"
  means the key set is the file's contents; only one client creates a missing
  file; locks and mutex are given back on every path; a client alone never
  conflicts with itself; a rollback removes only its own file.
* core: a successful `kdbSet` persisted everything below the parent key and
  nothing the application did not change; `kdbGet` shows the files; what a failed
  `kdbSet` has replaced all the same is whole and known to the handle; keys stay in the
  file of their own backend; unchanged backends are not written; read-only backends are
  left alone.
* diff and recorder: undoing a session restores what was there before it, however
  many processes recorded changes and in whatever order keys were added, changed,
  removed and added again; changes of two processes are never mixed up; every way
  out of `kdbSet` gives the lock back.
* pluginprocess: every call returns, with the answer to that call; the plugin sees
  the whole key set; no child outlives its use.
* Key and KeySet: counters are exact, nothing is freed that is in use or kept that
  is not; nobody sees that memory is shared; key sets stay ordered.
* merge: the result is the three-way merge, conflicts are counted and named exactly.
* high-level API: a reported save is stored, retries undo no update of others (unless
  loading fails, see section 4), and every save ends.

`PROJECT.json` lists the hazards at their lines, with the properties that would
notice them going wrong; section 4 has further ones, for which the code makes no
promise that could be checked.

## 2. Modules and what they correspond to

    OptimisticStore         what one configuration file promises
          ^ implements
    Resolver  <- ResolverInv <- ResolverProofs
       ^             ^ MCResolver
       | MCThreads
    Kdb       <- KdbInv      <- KdbProofs
                     ^ MCKdb

    Diff      <- DiffProofs
       ^             ^
    Recorder  <- RecorderInv <- RecorderProofs
                     ^ MCRecorder

    OptimisticStore  <- implements -  HighLevel  <- MCHighLevel, HighLevelProofs
    SharedKeys       <- implements -  Cow        <- MCCow, CowProofs
    PluginProcess <- PluginProcessInv <- PluginProcessProofs
                     ^ MCPluginProcess
    Merge     <- MergeInv    <- MergeProofs
                     ^ MCMerge

**`Resolver`** is one configuration file and any number of clients. A client is one
KDB handle used by one thread; `ProcOf` says which process the thread belongs to.
Its variables are the file system (`path`, `dir`, `written`, `mtime`, `locks`), the
process-wide mutex and the fields of each client's `resolverHandle`. Each action is
one system call (or a run of calls nobody else can observe) of
`elektraResolverGet`, `elektraSetPrepare`, `elektraSetCommit`,
`elektraResolverSet` and `elektraResolverError`, in the code's order:

    kdbGet   GetResolve -> GetStorage
    kdbSet   OpenFile [-> MkdirParents -> CreateFile] -> LockMutex -> LockFile
             -> CheckConflict -> SetStorage -> Rename -> UpdateStamp -> TouchOld -> Unlock
    removal  PrepareRemoval -> Remove
    failure  ... -> Error [-> ErrorUnlink]

An inode number stands for the configuration it holds, since a temporary file is
written once and then only renamed; `written` tells complete configurations from
empty placeholders. `base` is a history variable: the configuration the client's
key set was loaded from or stored as. The coarse clock of the file system ticks
independently (`FineClock = FALSE`) or gives every file a stamp of its own.
Where the new file has the old one's stamp, `ModifyFileTime` makes one up as
`elektraModifyFileTime` does: seconds and nanoseconds of `CLOCK_MONOTONIC` (`mono`, which
starts at `Uptime`), each moved by `timeFix` where it is what the handle has already, and
`timeFix` changes its sign. A time is one number with `Second` units to the second; the
two clocks share their values, so that made-up and real stamps may meet. `Stored` is what
the file system keeps (`WholeSeconds`: only the second), and `NoTime` stands for
nanoseconds out of range, which `futimens` refuses. Crashes close a process's
files and release its locks; placeholder and temporary files stay.

**`OptimisticStore`** is the promise: a register that is loaded and replaced as a
whole, and only by a client whose last load or store is what it replaces.
`ImplementsStore` maps `current` to the configuration a reader would find under
the file's name.

**`Kdb`** is one handle over any set of mountpoints, other applications that
replace or remove files (`Write`), and the application's changes of `ks` (`Edit`). Names are
sequences, so that "below" is the prefix relation; `<<>>` is the cascading parent.
A key set is a function from names to values or `Absent`. Steps:

    kdbGet   GetResolver -> GetStorage | GetFails
    kdbSet   SetBegin -> SetResolver -> SetStorage | SetFails
             -> Commit or CommitFails of every backend -> SetEnd
             [-> Rollback]

The resolver appears as `seen`: the file was `missing`, is the `current` one, or an
`old` one was seen. This is what `Resolver` establishes in a good environment (see
section 5). `base`, `edited` and `stored` are history variables. Modelling choices:

* The backends commit in any order. The code takes them in the order of their
  names, which is arbitrary with respect to everything the properties talk about.
* A file exists iff it holds a key; that `kdbSet` creates an empty placeholder for
  a missing file is a matter of `Resolver`.
* `Write` waits for the lock like any `kdbSet` of another application, unless it
  stores an empty key set: then the resolver unlinks the file whoever has locked it
  (`unlinked` are the files this happened to within a `kdbSet`).
* The `default:/` and `proc:/` backends, the hooks (gopts, spec, notification;
  recording is in `Recorder`) and a failing initialization are left out. A failing resolver phase
  of `kdbGet` leaves what `GetFails` leaves: files remembered but not loaded.

**`Diff`** has the functions of `diff.c` as operators. The four key sets of an
`ElektraDiff` are seen from each key: an entry says what the key is in each. The three
loops of `elektraDiffAppend` are `AppendAdded`, `AppendModified` and `AppendRemoved`,
with the code's order of cases.

**`Recorder`** composes the hooks of `kdbSet`, the recorder plugin and the record
library, for several processes with a handle each. Of `kdbGet` and `kdbSet` it keeps
what recording interacts with: which files were seen, what `allKeys` has, conflicts,
and the points at which a call can fail. The session is a file like the others, read
and replaced through the recorder's own handle (`rec`) or the handle of whoever
manages sessions (`sess`).

    kdbSet   SetResolver -> RecorderLock -> Commit -> Record [-> RecordSet] -> SetEnd
             -> SetFails | CommitFails | RecordFails
    manage   EnableRecording, DisableRecording, EditLoad -> EditStore,
             UndoLoad -> UndoSet -> UndoStore

`PartDiff` is what `kdbSet` hands over: the keys of the changed backends against
`allKeys`, below a parent key that by then names the last of these backends.
A session of which nothing is left is removed, by a resolver that takes no lock and
checks nothing (`StoreSession`). Two history variables say what a session is to be compared
with. `start` is what each key was before the session got, or should have got, a change of
it; changes that nobody means to record (recording is off, the key is outside of the
session, it was taken out of it) move it. `lost` are the keys with a change that was stored
and should be recorded, but never will be: the process ended, a commit or the recorder
failed, or the session file was removed meanwhile. The properties are stated for all keys
but these.

**`PluginProcess`** is a parent process with plugin handles and the children it
forks. Pipes hold `Capacity` pieces; writers and readers wait, or see a broken pipe or
the end when no process has the other end open, and `fork` hands down all ends. A
payload is longer than a pipe holds. The steps follow `elektraPluginProcessInit`,
`Open`, `Send`, `Close` and `Start`, the loop of the child. Either process may end
between any two of them.

**`Cow`** is the heap below keys and key sets: `Key`, `KeyName`, `KeyData`, `KeySet`
and `KeySetData` objects with their counters. Each function of the API is an operator
from heap to heap that makes the code's calls in the code's order, so that what is
freed too early stays visible. **`SharedKeys`** is its abstract specification, in which
a key has a name and a value and a key set is a set of keys, nothing is shared or
counted, and keys die when the last key set lets go of them. `SharingUnseen` says that
`Cow` implements it.

**`HighLevel`** is the loop of `elektraSaveKey` for several applications over
one file, with `kdbGet` and `kdbSet` as coarse as the loop can tell. `seen` is the version
whose stamp the resolver has, `base` the one in `allKeys`; they part when `kdbGet` fails
after its resolver phase (`GetFails`), which the loop does not look at. `Deployments` says
which clients share a process: all of them, or none, since only then do lock and mutex
exclude every other client (section 4). It implements `OptimisticStore`, the same promise
that `Resolver` is shown to keep; this is what joins the two.

**`Merge`** is `elektraMerge`. Each of the three calls of `checkSingleSet` is a step,
since each appends to the result and to the statistics that the earlier ones left.
The helper functions are operators with the code's cases; `dominant` and
`baseIs` are its `checkedIsDominant` and `baseIndicator`. `expected` is a history variable.

**`ResolverInv`, `KdbInv`, `RecorderInv`, `MergeInv`, `PluginProcessInv`** hold the
inductive invariants as conjunctions of named parts (that of `HighLevel` is short and is
in `HighLevelProofs`), the modules named **`...Proofs`** the theorems, the modules
named **`MC...`** the values of constants for TLC. Definitions next to an action or
operator that differ from it in one place (`TouchOldForgotten`, `NeverConflict`,
...) are mutations: putting one in the place of the original must make a property
fail. `PROJECT.json` lists them under `mutants`.

## 3. Runs that pass

| Run | Instance | Shows |
|---|---|---|
| `resolver_update` | 3 processes, 3 `kdbSet` calls, file present, unique stamps, crashes outside of the commit, failing storage and rename | `CheckedIsCurrent`, `UpToDate`, `ImplementsStore` |
| `resolver_all` | 2 processes, 3 `kdbSet` calls, coarse clock, whole seconds of 2 units only, no file at first, removal, all faults | `LocksAccounted`, `ExclusiveCreation`, `TimeChanges` |
| `resolver_lone` | 1 client, 4 `kdbSet` calls, coarse clock with 3 ticks, seconds of 4 units, neither file nor directory at first | `LoneClientSucceeds` |
| `threads_update` | 2 threads of a process, 4 `kdbSet` calls, crashes, failing storage and rename | `ExclusiveWriters`, `NoLostUpdate`, `MutexReleased` |
| `kdb_cascading` | `user:/` and `system:/`, 3 keys, 2 values, parent `/`, 2 edits, 2 foreign writes or removals | `SetPersists`, `GetShowsFiles`, `NoLostUpdate`, `OnlyEditsStored` |
| `kdb_nested` | `user:/`, `user:/app` inside of it and a read-only `system:/`, parents `/` and `user:/`, 1 edit, 1 foreign write or removal, all faults | `KeysAtHome`, `LocksReleased`, `FailedSetAccounted` |
| `recorder_session` | 2 processes, 2 backends, 2 values, 2 `kdbSet` calls, 1 call that manages the session, crashes and failures everywhere | `SessionExact`, `SessionWellFormed`, `OneRecorder`, `LockOnlyInSet`, `UndoRestores` |
| `pluginprocess_calls` | 2 handles, 2 children, 4 calls, payloads of two pieces over pipes that hold one, either side may die | `BetweenCalls`, `OwnAnswers`, `WholeRequests`, `EveryCallReturns`, `ChildrenEnd` |
| `cow_calls` | 2 key sets, 2 keys at a time, names `a`, `a/a` and `a/a/a`, 1 value, 1 lock | `RefsExact`, `NoDangling`, `Ordered`, `SharingUnseen` |
| `highlevel_saves` | 2 threads of a process or 2 processes, 2 keys, 2 good values and a refused one, 3 saves, 1 crash or failing call | `SavedIsStored`, `ImplementsStore`, `OthersKept`, `EverySaveReturns` |
| `merge_conflicts` | all triples of key sets over 2 keys and 3 values, all strategies, 2 merges with one information key | `MergeExact`, `ConflictsCounted`, `ConflictsNamed` |

`cow_rename` is the run that ends with a violation: `Ordered`, in one key set with names
that are not in one line (section 4).

**Bounds.** `MaxSets` bounds the `kdbSet` calls of a behaviour: each allocates at
most two inodes. Three calls of three processes let one process replace the file,
a second wait on the replaced inode, and a third read or replace in between, which
is the longest chain the touching of the old inode is there for. `kdbGet` and
reopening are unbounded. `MaxClock` bounds ticks: within a tick any number of files
can be written, and every pair of files may or may not share a tick. `Second` is small,
so that the nanosecond comes out the same, or out of range, all the time; between two
readings `CLOCK_MONOTONIC` moves by up to a second. In `Kdb` two
mountpoints suffice to have one backend that is updated, changed, failing or
selected and another that is not, and two values to tell a change from an addition;
`kdb_nested` has a third one, so that nesting, refusal and failure meet in one call.
Two edits with any number of `kdbGet` and `kdbSet` calls leave room for a change, a failing or
conflicting call and another change, two foreign steps for a file that is removed and
stored again. Initial files are arbitrary, so no edits are needed to get there.

In `Recorder` two calls of `kdbSet` let one process change a key while another waits to
record, or change what the first has changed; files start arbitrary, sessions start
empty. One call manages the session, but one that a crash cuts off does not count: a session
is undone again after an undo that ended between its two `kdbSet` calls. Two clients of `HighLevel`
and three saves let one store twice while the other is between its `kdbSet` and its
`kdbGet`; two faults (3.5 minutes) or four saves show nothing else. In `PluginProcess` two children are what it takes for one to inherit pipe ends of
the other, and four calls let a handle be opened, used, closed and opened again.
Two keys and two key sets, unbounded sequences of calls: in `Cow` every object can be
shared by two holders, by a lock, by a copy and by a key set's own temporary; `MaxRefs`
is above what can be counted (section 4 has the other case). Three values in `Merge` are as many as there are key sets.

Type invariants are not among the properties of the runs: those of `Resolver`, `Kdb`,
`Recorder`, `Merge` and `HighLevel` are proved, and those of `PluginProcess` and `Cow` say
what the variables stand for (their runs still pass with `TypeOK` added).

**Symmetry** is used where all clients are interchangeable and only safety is
checked. Deadlock checking is on, except for `recorder_session` and
`pluginprocess_calls`: there everything may have ended, with the parent process or
with the bounds used up.

**Fairness.** `WF(Continue)`: a thread inside `kdbGet` or `kdbSet` runs on to its
end. No lock is waited for in this code (`F_SETLK`, `pthread_mutex_trylock`), so
weak fairness of the scheduler is all it needs. Nobody has to call anything, and no
process has to crash. `MutexReleased` depends on it.
`HighLevel` has `WF(Step)` for each thread, with the same reason: that two threads make
each other repeat for ever is excluded not by fairness but because a conflict means
that somebody else has finished or is about to, and calls are bounded.
`PluginProcess` has `WF(HandleStep)` and `WF(ChildStep)`: a process that is not waiting on
a pipe is scheduled, and the functions of the plugin return. Waiting on a pipe is part
of the guards, so fairness does not help out of it.

## 4. Where code and documentation disagree

The passing runs are restricted to circumstances in which their properties hold, or their
properties say what is left of a promise that the code does not keep. Changing a constant of
the run, or the property, shows why ("without" means that this part of the property is
taken out):

| Property | Change | What happens |
|---|---|---|
| `NoLostUpdate`, constants of `resolver_update` | `FineClock = FALSE`, `MaxClock = 1`, `MaxSets = 4` | two stores within a tick of the clock look like one; `doc/dev/algorithm.md` concedes it |
| | add `"crashInCommit"` to `Faults` | a process dies after the rename and before it touches the old inode, on which a stale client then passes its check |
| | `InitialFile = FALSE`, two clients, `MaxSets = 2`, `Faults = {}` | a placeholder is visible before it is locked, and its creator is never checked (`resolver.c:823`: "conflict already handled at file creation time, so just return successfully"): an update is lost |
| | `Removal = TRUE` | removing a file takes no lock and checks nothing, as the plugin's README says |
| `UpToDate` of `resolver_update` | add `"storageGet"` to `Faults` | a load that failed is reported as "no update" the next time (`resolver.c:612`), although `doc/dev/kdb-operations.md:84` guarantees that below the parent key the key set "correctly represents the state of the KDB" |
| `ExclusiveWriters` of `threads_update` | another process: `Clients = {t1, t2, other}`, `Procs = {procP, procQ}`, `MaxSets = 3` | a thread that closes the file drops the fcntl lock of another thread of its process (`resolver.c:896`); `doc/dev/algorithm.md:368` says that locks "protect cooperating processes" |
| `ExclusiveCreation` of `resolver_all` | `InitialDir = FALSE` | `elektraCreateFile` opens without `O_EXCL`: two clients that found no file share one |
| `LoneClientSucceeds` of `resolver_lone` | `Removal = TRUE`, `InitialDir = TRUE` | after storing an empty key set `isMissing` stays FALSE and the same handle cannot store again |
| | without `stamp[c] = NoTime`; `TimeChanges` likewise | where the nanosecond of `CLOCK_MONOTONIC` is that of the file and 0 or 999999999, the made-up one is out of range, `futimens` refuses it (`resolver.c:972`) and the handle keeps a time that the file does not have |
| `LoneClientSucceeds` of `resolver_lone` | `WholeSeconds = TRUE` | the stamp is made up with nanoseconds and compared with what the file system kept of it: the next `kdbSet` of the same handle is a conflict, although `resolver.c:931` has "filesystems not supporting subseconds" in mind |
| `SetPersists` of `kdb_cascading` | `Keys <- SiblingKeys`, `Faults = {"set"}` | a failed `kdbSet` has noted the sizes already, a `kdbGet` cuts `allKeys`: the repeated call does not see a removal |
| | `Keys <- SiblingKeys`, `Parents <- Namespaces`, `MaxWrites = 0` | a change below another parent key is taken into `allKeys` by a `kdbSet` that does not store it (`kdb.c:2627`), and never stored; `doc/dev/kdb-operations.md:139` says all keys below `parentKey` "will be persisted" |
| `OnlyEditsStored` of `kdb_cascading` | `Mounts <- NestedMounts`, `Keys <- NestedKeys`, `Parents <- UserOnly` | updating a backend drops the keys of a nested, unchanged one from `ks` (`kdb.c:1974`), and the next `kdbSet` removes its file without any change; `kdb.c:2317`: "There won't be an unnecessary write for unchanged keys" |
| `FailedSetAccounted` of `kdb_nested` | as `stored = {}`, with `Faults = {"commit"}` | one commit fails, the other file is replaced, `kdbSet` returns -1; `kdb.c:2297`: "no configuration file will be modified", `kdb.c:2334`: "no changes in KDB" |
| `GetShowsFiles` of `kdb_cascading` | `Mounts <- NestedMounts`, `Keys <- NestedKeys`, `Parents <- UserOnly` | the first half of the one before: `ks` lacks the keys of the nested file |
| | as `ks[k] = disk[m][k]` for missing files too | a file that another application has removed is not updated, so that its keys are not cut and stay in `ks`; `kdb.c:1969`: "keys removed from the backend are removed from ks as well" |
| | `Keys <- SiblingKeys`, `Faults = {"get"}` | as with `UpToDate`: the file counts as seen, and its keys never come |
| `NoLostUpdate` of `kdb_cascading` | without `unlinked` | another application stores an empty key set, which removes the file under the lock, and then a full one; the commit replaces that without another check |
| | `Keys <- SiblingKeys`, `Faults = {"get"}` | after a failed load the conflict check passes with old keys |
| `KeysAtHome` of `kdb_nested` | `Parents <- UserAndKey` | a parent key inside of `user:/` selects the outer backend only, whose file gets the nested backend's keys |
| `SessionExact` of `recorder_session`, `UndoRestores` likewise | without `lost` | changes are committed first and recorded then: a crash in between, a commit that fails for one backend, a recorder that fails (`kdb.c:2611` ignores it) leave a change that the session does not have; `doc/contrib/recording.md:5-6` promises "all changes", `record.c:467` that undoing gives "the same as it was before starting the recording session" |
| `SessionExact` of `recorder_session` | the same, with `Uses = {}` | nothing fails, but a session of which nothing is left is removed without lock or conflict check (`resolver.c:1110-1152`), along with what another process has recorded meanwhile; `doc/contrib/recording.md:17`: the session has changes "from any process" |
| | `Parents <- Cascading` | of several backends in one `kdbSet` only the changes below the mountpoint of the last are recorded; `doc/contrib/recording.md` promises a "complete audit trail of all changes" |
| | add `"foreign"` to `Uses` | `ks` has changes elsewhere too, which `allKeys` takes over: a later `kdbSet` does not see them |
| | add `"undo"` to `Uses` | `elektraRecordUndo` takes no lock, and another process records in between |
| `UndoRestores` of `recorder_session` | `Uses = {"reuse"}`, one process, one backend with both keys | with a handle that has loaded the files already, the key set to undo in stays empty, and storing it removes the keys that are not in the session (`record.c:516-530`) |
| `EveryCallReturns` of `pluginprocess_calls` | `Threads = TRUE` | a child forked by another thread inherits write ends, so the end of a pipe is never seen |
| `WholeAnswers` of `PluginProcess` | as an invariant, one handle and child, `Crashes = {"child"}` | a child dies while it writes the payload: the caller gets part of a key set, and success; `pluginprocess.c:263` says ERROR "if the child process communication failed" |
| `Ordered` | run `cow_rename` | renaming `a/a` to `a` in a set with `a/a/b` and `a/b` gives two keys `a/b`; the comment at `keyset.c:1213-1216` says that no sorting is needed there, and `keyset.c:178` that "Iteration is always sorted" |
| `RefsExact` of `cow_calls` | `MaxRefs = 2` | a counter at its limit is not increased, and nobody looks at the error: the object is freed while in use (the limit is 65534 in the code) |
| `OthersKept` of `highlevel_saves` | `Replaced(c) == Current` | the `kdbGet` of the loop fails after its resolver phase, which nobody looks at (`elektra.c:571`): the next `kdbSet` passes its check and stores old contents over the updates of others |
| | with the save under way only instead of `asked[c]` | a save that failed leaves its key in the configuration, and the next one stores it too, or fails because of it |
| `SavedIsStored` of `highlevel_saves` | without `begun[c][1]` | if nothing differs from what the handle has loaded, `kdbSet` succeeds without a look at the file, in which another application may have changed the key |

Further observations, without a property of their own: the error function unlinks
the file it created by name and after unlocking, so that it may hit the file another
client has renamed into place (`ErrorUnlink`); `initBackends` clears the read-only mark
on every `kdbGet` but sets it only once, so that later `kdbSet` calls do not ignore a
changed read-only backend but fail (`InitBackends`). And since a `kdbGet` that updates
one backend cuts all keys below the parent key from `allKeys`, the next `kdbSet` also
writes backends that did not change.

In the libraries: `ksCopy` and `ksSubtract` of a key set and itself free data that is
read afterwards or skip every other key (`Cow` leaves these calls out). A recorder lock
that is taken is reported as an internal error, and a file lock of another process as a
resource error, neither of which `elektraSaveKey` repeats, although
`doc/contrib/recording.md:21` counts the first among the conflicts that are resolved
transparently (`SetBusy`). An information key that is used again makes a merge without any
conflict abort on the statistics of an earlier one (`End`), although `kdbmerge.h:26` says
"Abort merging if a conflict occurs"; `ConflictsCounted` says that the statistics are right.

## 5. What is proved

**Type correctness** of `Resolver` (`TypeCorrect`) and of `Kdb` (`KdbTypeCorrect`)
for all values of the constants. The latter needs that among the backends above
a key there is always a deepest one: prefixes of the same name are nested
(`PrefixesNested`), and a finite set of them has one that is longest
(`DeepestExists`, by way of `LeastNumber`).

**The resolver loses no update.** `CheckStaysValid`, `NoUpdateMeansUpToDate`,
`NoUpdateLost` and `ResolverImplementsStore` hold for any number of processes,
calls and inodes, assuming `GoodEnvironment`: the file exists and is never removed,
stamps are unique, each process has one handle, and neither a failing reader nor a
crash between rename and touch happens. Storage, rename and other crashes may fail
at will. Section 4 shows what goes wrong without each of these assumptions. The properties are not inductive: that a passed check stays valid depends
on everybody who has an older inode open failing his check, which depends on who
holds which lock, which stamps are still unknown to others, and what a commit under
way is about to do. `ResolverInvariant` says this:

* `LocksHeld`, `TmpOwned`, `FilesExist`, `Allocated`: who owns which inode;
* `TimesPast`, `TmpUnknown`, `TmpStamp`: the stamp of a temporary file is new, and
  nobody else knows it before it is published;
* `ReplacedConflicts`: whoever has a replaced inode open finds a conflict, or the
  one who replaced it still holds its lock and is about to touch it;
* `CheckValid`, `CommitPending`, `StampIdentifies`: what follows for the checks.

The proof has one lemma per action.

**The resolver's locks**, without that environment, whatever fails, is removed or crashes:

* `LocksGivenBack` holds without any assumption. `LockInvariant` says at which points a
  client owns the mutex (`MutexExact`), and that every file lock of a process has a client
  that has not passed its unlock (`LocksExplained`); it needs what a handle keeps between
  calls (`HandleAtRest`).
* `WritersExclusive` for threads of one process, by the mutex alone, or for processes with
  one handle each, by the file lock (`FileLocked`). Several threads in several processes
  are not covered: closing a file drops the locks of the process (section 4).
* `CreationExclusive` with the directory in place: whoever found no file has created one
  with `O_EXCL`, until somebody renames it away (`Created`).
* `LoneClientNeverFails`, without faults and removals, on a file system that stores
  nanoseconds: the handle's time stamp is the file's except within the commit, or its
  nanoseconds were out of range (`Known`, `Alone`). A coarse clock does not matter, and
  neither do the values of `CLOCK_MONOTONIC` and `timeFix`.

**The core**, for any mountpoints however nested, any keys, values and parents:

* `CallsUnlock` and `ReadOnlyKept` hold whatever fails, from `PlacementInvariant`.
  Its part `KeysPlaced` is what remains of `KeysAtHome` when only some of the nested
  backends are selected (see `KeysAtHome` in section 4).
* `KdbLosesNoUpdate`: a file that `kdbSet` is about to replace holds what the handle
  last loaded from it or stored in it, or was removed, if `"get" \notin Faults` (section 4
  shows how it goes wrong otherwise). `UpdateInvariant` adds that a file the
  resolver takes for current has been loaded (`CurrentLoaded`), that every file
  about to be replaced is locked (`ReplacedLocked`), and that merging and dividing
  again gives every backend what it had (`KeysDivided`). The last one is the
  subtle part: locks are taken according to the division before the storage phase,
  files are written according to the one after it.
* `FilesHoldOwnKeys`, whatever fails, if a parent key that selects a backend selects those
  mounted below it too (`ParentsTakeNested`): then a backend that takes part holds exactly
  its part of `ks` (`PartOfKs`).
* `FailureLeavesWholeFiles`, whatever fails, under the same assumption: a `kdbSet` that
  fails has replaced files only if the commit of a backend failed, and those hold all that
  `ks` has for them (`FailureAccounted`). Without the assumption a file may get keys of a
  nested backend that was not selected.
* `SuccessPersists` if calls are about all backends (`ParentsTakeAll`) and nothing fails
  while it is stored. `kdbSet` skips backends that look unchanged, so the argument is about
  what it compares with: `allKeys` has all keys of a backend as loaded or stored, or, once
  `kdbGet` has updated others, none of them (`AllKeysKnown`), and in this case the number of
  keys tells (`SizesNoted`, `EmptyKnown`). A backend that is skipped already holds its
  part (`RestHolds`). Loading may fail, backends may be nested or read-only.
* `GetRepresentsFiles` and `OnlyChangesStored` if no backend is nested in another
  (`MountsFlat`), the former if loading does not fail: what the application has not changed
  is as it was loaded or stored (`LoadedShown`), and `UpdateInvariant` relates this to the
  files that are there. Of a file that others have removed `ks` keeps the keys, and the
  theorem says so.

  Each of these assumptions is one without which section 4 shows the property to fail.

**Diffs compose.** For any two or three key sets, whatever the keys and values:
`AppendWellFormed` (appending keeps a key in one only of the added, removed and modified
keys, and both key sets of modified keys in step), `UndoCalculate` (undoing a difference
from the newer key set gives the older one), `AppendCalculate` (appending the difference
from the second to the third to that from the first to the second is the difference from
the first to the third) and `UndoAppend` (undoing a diff to which a later difference was
appended is undoing the diff from before it). All follow key by key from lemmas about
entries, by cases on whether the key was there.

**The recorder**, for any processes, backends, parent keys and faults, those of
section 4 included: `LockNeverLeaks` and `RecordingExclusive` from `LockHeld` (a recording
`kdbSet` holds the lock from before it stores anything), `SessionIsDiff` from
`DiffsWellFormed` and the lemmas on `Diff`, and type correctness.

`SessionStaysExact` and `UndoGivesBack` hold under `Sound`, which excludes the three uses of
section 4 (undoing while others record or with a handle that has loaded already, changes of
other backends in `ks`) and asks for parent keys that select one backend. Processes,
failures and crashes are arbitrary. They speak of the keys whose changes were all recorded
(those not in `lost`), and compare with what these keys were before the session got the first
change of them. `RecorderInvariant` adds that what a process is about to record is the
session with its pending difference appended (`RecordsPending`), that a file about to be
stored is the one that was loaded and nobody else is about to store it (`FilesReserved`),
that `allKeys` agrees with the unchanged files (`KnownCurrent`), so that what is recorded is
the difference that was stored, that edits of a session only drop keys (`EditsDrop`), and
what undoing has done halfway (`UndoExact`). The step from one recorded change to the next
is `UndoAppend` above.

**The high-level API**, for any number of threads of one process or of processes with one
client each, any keys and values and any failures: `SuccessIsStored`, `RetryUndoesNothing`
and `LoopImplementsStore`. `HighLevelInvariant` says that nobody stores between the
comparison of versions and the commit (`VersionHeld`), that the configuration in memory is
the version in `allKeys` except for what this application was asked to save (`OwnChanges`),
which is what a repeated `kdbSet` preserves because `kdbGet` and the key are taken anew each
time, and that this version was the file's since the save began, or known by then
(`LoadedSince`). That the version with the handle's stamp and the version in `allKeys` are
the same is not part of it: a load that fails after its resolver phase separates them, and
the theorems say what holds then.

**Parent and child stay in step.** `AnswersBelong`, `RequestsWhole` and `CallsLeaveNothing`
hold for any number of handles, children and calls, payloads of any length over pipes
of any capacity, with or without threads, whoever crashes. The only assumption besides
the types is that handles and children have different names. `TalkInvariant` follows a
call through both processes (`InStep`): nothing of the request has been read, the child
reads, executes, answers, or has answered, and in each case which pieces are in which
pipe, in which order, and how the two counters relate. In the middle of it a child may
die; what it leaves behind are answers to the request under way only (`OwnAnswersIn`),
and no later request gets an answer, since no other process writes to that pipe. That
no handle meets a broken pipe as long as its child runs is `OwnEnds` and `ParentEnds`, that
no other conversation interferes `OneHandle`. The proof has one lemma per step of either
side; `OthersTalk` deals with all the other conversations at once.

**Merging is exact**, for any finite set of keys, any values and any number of merges
(`MergeIsThreeWay`, `ConflictsCountedRight`, `ConflictsNamedRight`).
`MergeInvariant` says what each check leaves for the next one. That the counts come out
right rests on a lemma for each counter: the same keys are counted in one, two or all three
checks (`Times`), so that what the finished merges left is a multiple, and the conflicts
of a merge are the disjoint union of the kinds. The set of keys is finite because
cardinalities are added up.

**Keys keep the heap in order.** For any number of keys and key sets, from any heap in
which `HeapInv` holds and through any sequence of `keyNew`, `keyDup`, `keyCopy`, `keyDel`,
`keyIncRef`, `keyDecRef` and writes of names and values (`KeyClient`): `KeyCallsCountExactly`,
`KeyCallsFreeNothingUsed`, `KeyCallsKeepOrder`, and `KeyCallsUnseen`, the refinement of
`SharedKeys` step by step. `HeapInv` adds to `RefsExact`, `NoDangling` and `Ordered` that a
dead key holds nothing (`KeysTidy`) and that the names of keys in arrays are read-only
(`NamesKept`); it holds at first (`InitialHeap`), and TLC finds it to hold in all states of
`cow_calls`, so the theorems also apply after calls on key sets. No counter may be at
`MaxRefs` (`Unlimited`): at the limit `keyDup` would share a name without counting it. The
lemmas are about the memory for one kind of objects (`Counted`: as many users as
counted, but for the one more that `keyCopy` counts meanwhile), then about the heap. That
there is free memory for a new object is the pigeonhole principle.

**Only model-checked:** liveness under fairness, which is beyond the prover
(`MutexReleased`, `EveryCallReturns`, `ChildrenEnd`, `EverySaveReturns`), and the calls on key
sets of `Cow` (`SetCalls`): the library walks through arrays of keys, so these operators
are folds, and what a fold computes needs an induction over data that the provers cannot
do. That `TypeOK` of `PluginProcess` bounds the children's
counters also after the parent has died is left to TLC, too; `Shape`, the rest of it, is
part of `TalkInvariant`.

## 6. Not modelled

File name resolution, file mode and owner, and system calls whose failure ends a
call the same way as one that is modelled. Several configuration files in one
thread's resolver (the mutex is recursive; `Kdb` has several files, without
threads). The contents of files: a storage plugin is external, it reads or writes a
file as a whole. The cache, which `kdbGet` disables. What is listed as
`not_modelled` in `PROJECT.json`.

*Notification.* At this commit the code does not say what a received message leads to:
`notification.c` and `internalnotification.c:141` go through the plugin pointer of the
notification context, which nothing but tests assigns. Reading it showed that callbacks
get the old values of modified keys, and that the `kdbGet` of a notification
(`notification.c:27`) marks files as seen with a key set that is thrown away, so that the
application's next `kdbSet` passes its conflict check with old keys.

*Recorder:* exporting a session, which reads it and writes elsewhere; the keys below
`/elektra` that are never recorded. *Merge:* the build with libgit2 (merging of
multi-line values and arrays), root keys in the names, metadata, which the code does not
compare. *Keys:* metadata, lookup and its index, iteration, the syntax of names,
memory-mapped objects. *High-level API:* getters, conversions, error objects, the
specification. *pluginprocess:* a `dump` plugin that cannot be opened and pipes that cannot
be made: `pluginprocess.c:487-491` and `:499` then close descriptors of an array that `malloc`
has left uninitialised (line 475). The first is left out; of the second `InitFails` has the
outcome in which none of these numbers is an open descriptor.

Most of the repository's lines are storage and checker plugins, tools, language
bindings and tests: sequential translations between formats, with no state of their own
that outlives a call.

## 7. Plan

Done: all modules above, and a theorem for every safety property of a passing run except
`TimeChanges`, those of `Cow` for the calls on keys. What is left:

1. The calls on key sets that contain no fold (`ksNew`, `ksDup`) can be added to `KeyCalls`.
2. The bounds on the counters of `PluginProcess`.
3. Weaker assumptions for `SuccessPersists`: parent keys that select whole subtrees.
4. `TimeChanges` as a theorem: the two cases of `ModifyFileTime` with whole seconds.
