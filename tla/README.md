# Verification of the eBPF file integrity monitor

TLA+ models, TLC runs and TLAPS proofs for the program in `fim/`: BPF programs
that watch a set of directories in the kernel, and a daemon that takes their
events from a ring buffer, filters them and posts them to a server.

## 1. The system

| Component | State | Operations | Model |
|---|---|---|---|
| creation hooks, `create.bpf.c` | none of their own | `lsm/inode_create`, `fexit/vfs_mkdir` | `KernelHooks` |
| removal hooks, `delete.bpf.c` | `counter_map` | entry and return probes of `vfs_unlink` and `vfs_rmdir` | `KernelHooks` |
| write hooks, `modify.bpf.c` | none of their own | `lsm/file_permission`, returns of `vfs_write` and `vfs_writev` | `KernelHooks` |
| rename hooks, `rename.bpf.c` | none of their own | entry and return of `vfs_rename` | `KernelHooks` |
| maps and helpers, `maps.h`, `helpers.h` | `InodeMap`, `LruMap`, `rb`, `heap_map` | lookup, update, delete, reserve, submit, `construct_path` | `KernelHooks`; `heap_map` and paths in `EventPath` |
| policy parser, `parser.cpp` | tokens, `include_dir`, the exclusions | tokenize, validate, collect, scan | `Policy`, `Setup` |
| lifecycle, `main.cpp` | `signal_received`, the threads | start with its error exits, stop, join, cleanup | `Setup` up to the logger, `Pipeline` from there |
| event pipeline, `event.cpp` | `event_queue`, `queue_mutex`, `queue_cv`, `stop_flag` | producer, callback, consumer, counter thread, stop | `Pipeline`, `EventChannel` |
| filter, `userspacefilter.cpp` | the filter rules | `filterEvent` | `EventPath` |
| event processing, `processevent.cpp` | a table of tty drivers | `Process`, `pathconstruction` | `EventPath`, without the lookups |
| logger, `logging.cpp` | url, headers | `init`, `log` | `EventPath` |

Not modelled: the test driver without assertions (`tests.cpp`), the scripts,
the vendored `httplib.h`, and the teaching programs under `Examples/`. They are
nearly all of the repository's lines (generated `vmlinux.h` files above all)
and hold no state of the monitor.

**How they interact.** The daemon scans the directories of the policy, attaches
the hooks and loads the keys it found (inode and device) into `InodeMap`. The
hooks look the directories of each file-system call up there. An entry hook
builds a `dentry_ctx` in the scratch area of its CPU and saves it in `LruMap`
under the thread's `pid_tgid`; the return hook of the call finds it, submits an
event to `rb` if the call succeeded, and deletes it. Returns of `mkdir`,
`rmdir` and `rename` also change `InodeMap`. In user space libbpf calls
`callback` for every record; it queues a copy and notifies the consumer, which
filters, processes and posts one event at a time. The main thread sleeps until
a signal, then stops and joins the three threads and frees everything.

**What is hard.** Hooks of many threads run between the two hooks of one call
and change the maps it relies on. One map serves four kinds of call. The ring
buffer and the maps fill up. Decisions made on entry are acted on when the call
returns. On a preemptible kernel one hook overwrites the scratch area another
one is filling. The tree changes while the daemon walks it. In user space a
flag that belongs to a wait predicate is set without the mutex, wakeups may be
spurious, and three threads use what a fourth one frees. `PROJECT.json` lists
every hazard at its line, with the property that covers it or the reason why
none does.

## 2. The modules

| Module | Holds |
|---|---|
| `KernelHooks` | the hooks and their maps, beside the calls of many threads |
| `KernelHooksProofs`, `KernelHooksKeys`, `KernelHooksEvents`, `KernelHooksReports` | proofs about it: typing, contexts and what the directory locks give; the keys; the events; the counter and the renames |
| `Policy`, `PolicyProofs` | the parser's reading of lines, as functions, used by the next two, and what they compute for every input |
| `Setup`, `SetupProofs` | the start of the daemon, beside a tree that changes, and proofs |
| `EventPath`, `EventPathProofs` | the contents of an event from the hook to the server, and proofs |
| `Pipeline`, `PipelineProofs` | the four threads of the daemon, and proofs |
| `EventChannel` | what the pipeline promises; `Pipeline` implements it |
| `MCKernelHooks`, `MCSetup`, `MCEventPath`, `MCPipeline` | the instances for TLC |

A definition whose name ends in an underscore and a word, with the comment
*Mutant*, is a plausible mistake in the definition after it. No specification
uses it; `PROJECT.json` pairs each property with one that breaks it.

The models are composed by what one promises and the next assumes. `Setup` ends
with the keys in `InodeMap` that `KernelHooks` starts with (`Covered`), which
is what `CoveredIsMonitored` and `OnlyReachedIsTaken` are about. `KernelHooks`
says which calls are reported and when, `EventPath` what a record holds, and
`Pipeline` that records get from the ring to the logger in order. One module
for all of it would multiply state spaces that touch in these places only.

### KernelHooks

Kernel threads make file-system calls; each call has three steps. `Enter` is
the entry hook, `TakeEffect` the success or failure of the call in the tree
`parent`, `Return` the return hook. Each hook is one action under the name of
its BPF program, with the early returns of the source as the conditions of its
updates. `Feature` holds the `CONFIG_*` switches of the build: a hook of
another feature does nothing.

| Variable | In the code |
|---|---|
| `parent` | the directory tree, outside the repository |
| `call` | the call each thread is in: its arguments and return value |
| `InodeMap` | `InodeMap`, a set of keys; a new one does not fit beyond `InodeMapMax` |
| `LruMap` | `LruMap`; a full one evicts any entry |
| `rb` | `rb`, submitted and not yet polled; a full one rejects the reservation |
| `counter` | `counter_map[0]`, modulo `CounterMod` |

The calls of the virtual file system are modelled from what the hooks rely on.
The callers of `vfs_create`, `vfs_mkdir`, `vfs_unlink`, `vfs_rmdir` and
`vfs_rename` hold the inode locks of the directories involved from before the
entry hook until after the return hook (`Held`), and one rename between
directories runs at a time (`CrossRename`). Writes hold no directory lock. An
inode number may be reused once its file is gone and no call is about it
(`Unused`). Any call may fail.

Abstractions: a name is identified with the node it names and a path with its
last link; sizes, uid and tty are left out; a hook is one atomic action
(`EventPath` splits it), so the two records of a rename are submitted together
and find the same room; a call is not nested in another call of the thread;
`RENAME_EXCHANGE`, hard and symbolic links, and writes to an open file that is
already unlinked do not occur. A probe that runs is never missed.

### Policy and Setup

`Policy` holds `tokenize`, `syntaxValidation`, `semanticValidation` and the
collection of the exclusions and filter rules. A text is a sequence of the
pieces the code tells apart (a command, `:`, `/`, `.`, a blank, a name), so
that trimming, splitting at the first colon and the dropping of blanks inside
an argument are what the code does.

`Setup` is `main` from the parser to the initialised logger. `pc` is the place
in `main` or in `parseRule`; the scan opens a directory, returns an entry and
closes a directory in steps of their own, because other processes make and
remove directories between them (`Others`). The iterator returns every entry
that stays and may return or omit one that comes or goes; opening a directory
that has vanished throws, which nothing catches (`aborted`). Once the hooks are
attached, `mkdir` and `rmdir` change `InodeMap` as in `KernelHooks`. `old` is a
history variable: the directories that were there from the start and stayed.
Left out are symbolic links, mount points, permissions and debug output.

### EventPath

A call's entry hook is cut at its writes to the scratch context of its CPU
(`heap`), the save to `LruMap` and the reservation and submission of its
record. On a preemptible kernel another thread's hook may run on the same CPU
between these steps, unless the program is a kprobe. `construct_path` cuts
names to a slot and paths to a number of slots. In user space `consumer` takes
the oldest record that is not busy, filters it, builds the payload and posts it
once. `request` is what was sent. `disturbed`, and `of` and `clean` of a
record, are history: whose scratch context was overwritten, which call a record
is about.

Every file is in a monitored directory and no context is evicted: both are the
matter of `KernelHooks`. The url, if there is one, is one the HTTP library
accepts. Patterns are regular expressions that stand for themselves.

### Pipeline and EventChannel

`Pipeline` models the daemon's four threads, each action being the code of one
thread up to its next operation on shared state; `pc` says where each thread
is. The evaluation of the wait predicate and the block are two steps, because
`stop` changes the predicate without the mutex. `ring_buffer__poll` may fail at
any time, a wait may end spuriously at any time, a signal may arrive at any
time. `submitted` and `handled` are history variables.

`EventChannel` is the abstract specification: events are handled in the order
of submission, each at most once. `Pipeline` implements it under the mapping
that takes what is in the consumer's hand, in the queue and in the ring buffer
together for the events in flight (`Channel == INSTANCE EventChannel WITH
inflight <- Backlog`, `ChannelSpec`).

## 3. What is checked

| Run | Instance | Shows |
|---|---|---|
| `hooks_create_delete` | CREATE and DELETE; 2 threads, 4 directories, 1 file, ring of 1 | `CtxOwned`, `LiveKeys`, `MonitoredUnderInclude`, `CounterCountsCalls`, `EventsTruthful`, `WatchedIsReported` |
| `hooks_rename` | DELETE and RENAME; 2 threads, 4 directories, ring of 2, **one** `LruMap` entry | `CtxOwned`, `EventsTruthful`, `RenameTracksMonitoring`, `RenameChangesAreReported` |
| `hooks_files` | DELETE, MODIFY and RENAME; 2 threads, 2 directories, 2 files, ring of 2 | `CtxOwned`, `EventsTruthful`, `WatchedIsReported` |
| `setup_run` | 2 trees, each pair of a rule that includes and another line, 2 changes to the tree | `CoveredIsMonitored`, `PolicyIsUnderstood`, `OnlyReachedIsTaken`, `SetupEnds` |
| `event_path` | 2 threads, 2 CPUs, 2 calls, 3 files, a preemptible kernel | `CtxIsOwn`, `PayloadIsTrue`, `FilterFollowsRules` |
| `pipeline_run` | 2 kinds of event, 3 events, ring of 2 | all invariants and liveness of `Pipeline`, `ChannelSpec` |
| `hooks_stale_ctx`, `hooks_mkdir_race`, `hooks_overwrite`, `setup_forced`, `event_path_bytes`, `pipeline_stop` | small instances | the disagreements of section 5 |

The properties:

- `CtxOwned`: a context in `LruMap` was saved by the entry hook of the call
  its thread is in. Neither failure, a full ring, another thread nor an
  eviction leaves a context for a later call.
- `EventsTruthful`: each submitted event fits a call that ends in this step
  with that effect on the tree; a `CREATE` of a file and a `WRITE_INTENT` stand
  for attempts and fit a call that begins.
- `WatchedIsReported`: a watched call that succeeds is reported unless the ring
  is full. It needs room in `LruMap` for each thread.
- `LiveKeys`: a key leaves `InodeMap` with its directory, even if the event is
  lost. It is claimed where nothing is renamed: a rename over a monitored empty
  directory leaves the key of the target behind.
- `MonitoredUnderInclude`: monitoring never spreads outside the included
  trees, where nothing is renamed.
- `RenameTracksMonitoring`: when a `RENAME_C` is submitted for a directory that
  changed its parent, it is monitored exactly if the new parent is, although
  the hook decides with flags read on entry. Only the directory locks make this
  so. It is checked without `CONFIG_CREATE`; with it, the race of
  `hooks_mkdir_race` can put an unmonitored directory into a monitored one, and
  the property fails for the same reason.
- `RenameChangesAreReported`: a rename changes `InodeMap` only together with
  the event that tells of it, however little room the ring has.
- `CounterCountsCalls`: each unlink and rmdir is counted twice, from all
  threads.
- `CoveredIsMonitored`: a directory that the rules reach and that stays is
  monitored once the daemon has started, whatever came and went around it, if
  its keys fit in `InodeMap`.
- `OnlyReachedIsTaken`: the scan of a rule takes nothing outside the rule's
  directory, and nothing in it at or below an excluded one, wherever the E
  lines stand, for paths without superfluous slashes. An exclusion of a
  directory above the rule's own does not count: the document has the excluded
  subtree "skipped during traversal" (`configformat.rst:50`), and the traversal
  of this rule starts below it. Section 5 lists the other reading.
- `PolicyIsUnderstood`: the rules are written down as the document has it (a
  command, a colon, a blank or none, the argument) and the daemon must read
  them back, in their order, colons and equals signs in an argument included;
  no hook is attached if one of them is unusable (an unknown command, a path
  that is not absolute, no url, a header without name or value, an extension
  that begins with a dot, a pattern that is no regular expression), whichever
  of the three passes meets it. Not claimed, because the parser does not do it,
  are arguments with blanks and the refusal of duplicates (section 5).
- `SetupEnds`: the start ends, although the tree grows under the iterator.
- `CtxIsOwn`: the context a return hook finds has the path and the size of its
  call, unless its entry hook was preempted by another on its CPU.
- `PayloadIsTrue`: what the server receives is true of the call: the kind of
  change, the bytes of a `write`, the size before, and the path, of which only
  the cut ends of long names and the top of deep paths are missing. The bytes
  of a `writev` are not claimed, as `event_path_bytes` shows them wrong, nor
  the size after a change (the return hook of `vfs_write` leaves it unset).
- `FilterFollowsRules`: an event is held back exactly if an EE, ES, EP or P
  rule names its file, for names that fit their slot. An IF rule for the file
  does not come into it, in the code or in the property; a policy of the run
  has one.
- `NeverPopsEmpty`, `NoLostEventWakeup`, `NoUseAfterFree`, `InOrder`,
  `ChannelSpec`, `EventuallyHandled`, `SignalStopsProducer`: the daemon takes
  an event only if there is one, never sleeps on an event, frees nothing in
  use, keeps the order, handles every event unless it is stopped or its
  producer has ended, and stops its producer and counter on a signal.

**Bounds.** In `KernelHooks` two threads give every interleaving of two calls,
which is what the pairing of hooks, evictions and the locks are about. Four
directories are two roots, one of them included, and two that come, go, nest
and move, enough for a directory to enter, leave, move within and be
overwritten. A ring of one or two records is empty, has room for one of a
rename's two events, and is full; `Poll` empties it at any time. `CounterMod`
is 2: `CounterCountsCalls` is about parity. `InodeMapMax` is the number of
directories; the theorems hold for any.

In `Setup`, `Depth` is 2 and `MaxChanges` 2: a directory vanishes before or
after it is opened, or is replaced by another inode under the iterator, and an
excluded directory has something below it. The map holds 4 keys, so that a
policy with two rules may fail to load. Two lines put each command before and
after a rule that includes; a rule is tested against single exclusions, never
against several lines together.

In `EventPath` `MaxCalls` is 2: two calls of two threads disturb one another
or of one thread follow each other, and their four records overfill a ring of
2. One file's name does not fit a slot of 6 bytes, the path of another not 2
slots, the third fits; of two policies one holds back what the other sends.
The theorems hold for any number of calls, files and policies.

In `Pipeline` three events fill the ring and stand in the ring, the queue and
the consumer's hand at the same time. `MaxEvents` makes the hooks fall silent
in the end, without which libbpf's drain loop need never return to the test of
`stop_flag`: `SignalStopsProducer` says nothing of a system under endless load.

Threads, and in `EventPath` CPUs, are symmetric; no run with symmetry checks
liveness.

**Deadlock** is checked in `hooks_create_delete`. In the others the system may
stop for good: the daemon starts or exits, the bounds are reached, and a file
system without creation runs out of files.

**Fairness** is used where liveness is claimed. `Pipeline!FairSpec`: weak
fairness of each thread, as the operating system schedules every thread that
can run, and a poll and a sleep end by themselves; strong fairness of taking
the mutex, for both threads, as a spurious wakeup may take the mutex again and
again, and a mutex that is released again and again is assumed to be granted in
the end. `Setup!FairSpec`: weak fairness of `main`. Nothing is assumed of
hooks, other processes, signals, poll errors and spurious wakeups.

## 4. What is proved

TLAPS checks these for every value of the constants, under the named
assumptions of the modules, which TLC evaluates in the runs.

**KernelHooks.** `NoEvictions` says that `LruMap` has a place for each of
finitely many threads; `PairedHooks` that there are no write paths without a
return hook, or that `CONFIG_MODIFY` is off; `KeysFollow` is both, with
`CONFIG_DELETE` and without renames. `KeysByRename` is `PairedHooks`, no mkdir
or no `CONFIG_CREATE`, and an `InodeMap` with room for every directory.

| Theorem | Hypothesis | States |
|---|---|---|
| `KernelHooksProofs!TypeCorrect` | none | `TypeOK` |
| `KernelHooksProofs!ContextsAreOwned` | `PairedHooks` | `CtxOwned` |
| `KernelHooksKeys!KeysAreLive`, `MonitoringStaysInside` | `KeysFollow` | `LiveKeys`, `MonitoredUnderInclude` |
| `KernelHooksEvents!WatchedCallsAreReported` | `NoEvictions` | `WatchedIsReported` |
| `KernelHooksEvents!EventsAreTruthful` | `PairedHooks` | `EventsTruthful` |
| `KernelHooksReports!RemovalsAreCounted` | `CONFIG_DELETE`, an even width | `CounterCountsCalls` |
| `KernelHooksReports!RenamesAreReported` | `PairedHooks` | `RenameChangesAreReported` |
| `KernelHooksReports!RenamesKeepTrack` | `KeysByRename` | `RenameTracksMonitoring` |

- *Typing.* `TypeOK` alone is not inductive: that `InodeMap` stays a set of
  directories needs a saved directory context to carry a directory's key
  (`CtxInv`), and that a `RENAME_C` has a path needs a rename to have a new
  directory (`CallInv`). `TypeInv` is the three.
- *Contexts.* `CtxOwned` is inductive relative to `TypeInv`: a watched call's
  feature is part of the build, so its return hook runs and drops the context.
  Section 5 shows that the hypothesis is needed.
- *Locks.* `LockInv` holds in every build and mix of calls, renames included: a
  node a call has made, moved or removed is where the call put it (`PlaceInv`),
  two calls on directories share no node (`NoSharedNode`), no call is at work in
  a directory that has been removed until its rmdir returns (`RemovedIsFree`),
  and one rename across directories runs at a time (`OneCross`).
- *Keys.* `KeyInv` says in addition what the directory locks give: a node that
  a call has made or removed is where the call put it (`TreeInv`), no two calls
  are about one node (`OneCallPerNode`), a removed directory gets no entries
  until its return hook has run (`RemovedIsEmpty`), and the rmdir of a
  monitored directory still has its context (`RmdirIsWatched`). The last one
  needs `NoEvictions`. In the initial states the keys are those of the scan;
  `Ancestors` is defined without recursion so that this can be proved.
- *Events.* `HasCtx` says that a watched call keeps its context, in every build
  and mix of calls, left-over contexts included; then each return hook that
  sees success submits. That an event is true follows from `CtxOwned` for the
  path and from `LockInv` for the tree.
- *Renames.* The entry hook's flags stay accurate (`FlagsInv`) because the keys
  they are about cannot change before the return: an rmdir that returns would
  share the moved node or need the lock of the new directory (`LockInv`), and
  no other rename across directories is running.
- *Counter.* A step changes the set of removals in progress by one thread
  exactly if it hits the counter; the width must be even for parity to survive
  the wrap.

**Policy.** The model filters sequences with `Without`, a recursive function.
`PolicyProofs` proves what it and the operators on it do for every sequence:
`WithoutAppend`, `WithoutFirst`, `WithoutType`, `WithoutSet` (it keeps exactly
the other elements), `WithoutAll`, `SplitFirst` and `SplitWritten` (a line is
cut at its first colon, and what was written around one comes back) and
`TokenizeType`. The library's induction theorems take an operator as parameter,
which the provers cannot instantiate; here induction is over sets instead
(`NatSetInduction`, `SeqSetInduction`: a set of sequences that has the empty
one and is closed under `Append` has all of them), which needs no such
parameter. It rests on finite sets being well-founded.

**Setup.** The assumptions are that the file systems the daemon starts on are
trees (`TreeAssumption`: what has a place is in a directory, a directory has
one place), that names contain no slash (`SetupAssumption`), and that a line
that is no comment is written for a rule, as its command, a colon, a blank or
none and its argument, where a command has neither colon nor blank
(`LineAssumption`). `RuleOf` gives the rule from which a line was written; that
the parser finds it again is what is proved.

| Theorem of `SetupProofs` | States |
|---|---|
| `TypeCorrect` | `TypeOK` |
| `PolicyUnderstood` | `PolicyIsUnderstood` |
| `CoveredAreMonitored` | `CoveredIsMonitored` |
| `OnlyReachedAreTaken` | `OnlyReachedIsTaken` |

- *Typing* needs that the iterator has a directory open or about to be opened
  while it works (`ScanInv`), and that past the validation the tokens are those
  of the policy, validated, and with patterns that compile (`PolicyInv`).
- *Policy.* The line of a rule gives back its command and its argument
  (`LineIsRead`, from `SplitWritten`), the tokens of a policy the rules in
  their order (`TokensAreRead`, by induction over the policy), and the three
  passes together let no unusable rule through (`AcceptedIsUsable`).
- *Tree.* `TreeInv`: the tree stays one, the directories above one that has
  stayed have stayed, and what stays keeps its inode (`TreeStep`).
- *Coverage.* `CoverInv`: while a rule is scanned, each directory it reaches
  that stays is found or lies ahead of the iterator: one of those above it is
  about to be opened, or is open and has yet to return the next name towards it
  (`Ahead`). `scan_close` may leave only what it does not owe, which is why it
  leaves nothing that is ahead. `LoadInv`: what is loaded stays in `InodeMap`
  until its own removal; another removal has another key, as a directory has
  one place.
- *Exclusions.* `PlainInv`: every path the iterator holds is at or below the
  directory of the rule and past the exclusions. Two plain paths of one place
  are the same path, so that comparing paths, as the code does, excludes places.

**EventPath.** `TypeCorrect`, `ContextIsOwn` (`CtxIsOwn`), `PayloadTrue`
(`PayloadIsTrue`) and `FilterObeysRules` (`FilterFollowsRules`), for names that
are not empty and slots with room for a character and the terminating zero
(`PER_LEVEL` is 32 in the code): an empty slot would be skipped, and the payload
would lack a name. The assumptions also give the policy its type.

- *Contexts.* `IInv` says what the scratch context of a CPU holds between two
  steps of an entry hook, and that without preemption no two hooks share a CPU.
- *Payloads.* A clean record tells of its own call (`RecordsTell`) from the
  step that puts it into the ring, by `IInv` for the return hooks, to the one
  that takes it out. The payload is built from the record alone: `Without`
  drops no name (`PathconstructionIs`), and a cut name is the beginning of the
  name, all of it if it fits (`CutIs`, `PathIsTrue`).
- *Filter.* The filter sees the last name of such a record (`FilterSees`); a
  text ends in a dot and an extension without dots exactly if the extension is
  what follows its last dot (`ExtensionIs`).

**Pipeline.** The invariant `IInv` and from it `TypeCorrect`, `PopIsSafe`
(`NeverPopsEmpty`), `EventWakesConsumer` (`NoLostEventWakeup`), `FreeIsSafe`
(`NoUseAfterFree`), `OrderIsKept` (`InOrder`) and `ImplementsChannel` (`Spec =>
ChannelSpec`). `IInv` adds where the mutex is held, that the producer holds a
record while it is in `callback`, that the predicate still holds when the
consumer pops (the queue only grows while it has the mutex, the flag is never
reset), and which threads have ended at each line of `main`. The refinement
rests on `InOrder`: the event in the consumer's hand is the first one submitted
and not handled.

**Only model-checked.** Liveness under fairness (`SetupEnds`,
`EventuallyHandled`, `SignalStopsProducer`), which is out of the prover's
reach. All other properties of the passing runs are proved.

## 5. Where code and sources disagree

| Run | What the source says | What happens |
|---|---|---|
| `hooks_stale_ctx` | `delete.bpf.c:78` "read the saved data at fentry" | A write access that is no `write` or `writev` leaves its context in `LruMap`. The next unlink of the thread, if its own directory is not monitored, reports the deletion of the file that was written. |
| `hooks_mkdir_race` | `configformat.rst:47` "Include directory (recursive)" | The key of a new directory is added when `vfs_mkdir` returns. A directory made inside it before that is never monitored. |
| `hooks_overwrite` | `rename.bpf.c:145` "Update InodeMap: Add dir if entering monitored area" | The update is in the branch for renames without a target: a directory moved in over an empty one is not monitored. |
| `setup_forced` | `configformat.rst:53` "Force include file or directory. Overrides all exclusions." | The exclusions are tested for IF rules too: an IF rule for an excluded path does nothing. |
| `event_path_bytes` | `modify.bpf.c:121` "@vlen Number of bytes written" | `vlen` is the number of segments, and `bytes_written` is set to it: a `writev` of two segments that wrote one byte or none is reported with 2. |
| `pipeline_stop` | `event.cpp:85` "wake consumer" | `stop` sets the flag without the mutex; its notification may fall between the consumer's test and its wait. The daemon hangs in `join`. |

Differences seen while modelling that have no run of their own:

- A rule for a single file (`configformat.rst:47`) loads the file's key, but
  the hooks look up the directory of a call: the file is never reported.
- `logging.cpp:15` and `22` print that logging is disabled, but no flag is set:
  `log` posts every event all the same, to an empty url or without headers.
- The return hook of `vfs_write` never assigns `file_size`.
- Blanks inside an argument are dropped: the header of `configformat.rst:75`,
  `Authorization=Bearer abc123`, is sent as `Bearerabc123`, and a path with a
  blank is another path.
- Duplicate rules are accepted, against `configformat.rst:101`; `setup_run` has
  such a policy, and the hooks are attached. Lists with commas are not split.
- An extension with an inner dot is accepted and never matches
  (`configformat.rst:55`).
- With `D:/a/b` and `E:/a` the directory `/a/b` and what is below it are
  monitored: `parser.cpp:277` compares the rule's own path only. Read as a
  promise about the whole subtree, `configformat.rst:50` says otherwise.
- The user-space filter knows no IF rules, although they override "all
  exclusions" (`configformat.rst:53`).
- An E rule with a trailing slash excludes nothing; an excluded name made after
  the start is monitored like any other new directory.
- A directory made between the scan and the attachment of the hooks is not
  monitored; the key of one removed there is loaded all the same.
- "Successfully loaded map" is printed even if the load failed.

## 6. Not modelled, and why

- User names, addresses, times, terminals and the JSON of a payload: lookups
  and formatting without state (`processevent.cpp` is *partly* modelled for
  this reason). Tracing output.
- The HTTP library: a post is one step that is sent once and not repeated. A
  server that does not answer holds the consumer, and `join` after a stop, for
  as long as the library waits; nothing is claimed of how long.
- The error exits of the `Events` constructor (`event.cpp:23-33`): they leave a
  null ring buffer that the producer hands to libbpf.
- Missed kretprobes, which behave as the stale context does.
- That subdirectories of a moved directory keep or lack monitoring is visible
  in `KernelHooks`; the sources promise nothing about it.
- `event_queue` has no bound in the code and none but `MaxEvents` in the model.
- Mount points: `construct_path` stops at the root of a file system, so a path
  lacks the prefix of its mount. Symbolic and hard links, `RENAME_EXCHANGE`.
- `tests.cpp` asserts nothing; the scripts, the programs under `Examples/` and
  the vendored headers are no part of the monitor. The map therefore covers a
  small share of the repository's lines and about two thirds of those of
  `fim/` without the vendored library.

What could come next: calls nested in a call of the same thread (overlay file
systems), and which keys are right after a monitored directory with
subdirectories has moved.
