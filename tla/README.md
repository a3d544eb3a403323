# RuntimeMemoryGuardian in TLA+

RuntimeMemoryGuardian (RMG) is a C++20 library that watches a process without
writing to it: it captures digests of the code sections of the modules loaded
there, verifies them later, looks for hooks, follows the loading and unloading
of modules, and can do all of it again and again on a background thread. This
directory holds TLA+ models of its parts, the TLC runs that check them, and
proofs checked by TLAPS. Paths below are relative to the repository; "hpp"
means the header of the file just named.

## Inventory

| Component | State | Operations | What makes it correct |
|---|---|---|---|
| `process::ProcessMonitor`, lifecycle (`src/process/process_monitor.cpp:11-55`) | `running_`, `stopRequested_` (atomics), `workerThread_` | constructor, `start`, `stop`, destructor, `backgroundLoop` | one background thread at most, none lost, none outlives the monitor; `stop` returns; `isRunning` is right; a restart monitors |
| `process::ProcessMonitor`, cycle (`:57-151`) | `config_`, `baseline_`, connections to the module signals | `runOnce`, three phases, `setConfig`, `setBaseline`, `onEvent` | every enabled phase is performed; each event is delivered once; failures stay local |
| `modules::ModuleMonitor` | `currentModules_` | `poll`, `onModuleLoaded`, `onModuleUnloaded` | events and `currentModules_` agree; nothing twice, nothing lost |
| `modules::ModuleEnumerator` | none | `enumerate`, `findByName`, `deriveCodeSections` | modules and regions belong together |
| `integrity::IntegrityBaseline`, `IntegrityChecker`, hash providers | entries, algorithm | `create`, `verify`, `serialize`, `deserialize` | no false alarm, no missed change, a round trip of the format |
| `memory::MemoryScanner`, `MemorySnapshot`, `MemoryDiff`, regions | captured regions | `read`, `scan`, `capture`, `compare` | short reads, filters, differences of regions |
| `hooks::*` | none | `scan`, `scanAll`, decoding of jumps | addresses wrap; targets inside the module are no hooks |
| `api::RuntimeMemoryGuardian` | owns all of the above | factories, `establishBaseline`, `loadBaseline`, `checkIntegrity`, `detectHooks`, moves | every part refers to parts that live |
| `core::Signal`, `Connection` | listeners, next identity, mutex | `connect`, `disconnect`, `disconnectAll`, `emit` | emission over a copy of the list |
| `core::Logger` | sink, level, mutex | `setSink`, `setMinLevel`, `log` | no sink is used after its replacement |
| platform, Linux and Windows | native handle | open, read, enumerate, parse `/proc/<pid>/maps` | what short reads, exits and odd lines give |
| `utils` (SHA-256, CRC-32, strings, buffers) | hash state | `update`, `finalize` | any split of the input, one digest |
| `rmg-cli`, `baseline-generator` | none | argument parsing, commands | exit codes |

How they interact: the facade owns one of each and wires them by reference.
The background thread of `ProcessMonitor` runs `runOnce`, which calls
`IntegrityChecker::verify`, `HookDetector::scanAll` per module and
`ModuleMonitor::poll`; each finding goes synchronously through
`Signal::emit` to client listeners, which may call back. All of them read the
target through `IPlatformTraits`, while the target runs on: patches, maps,
unmaps, loads, unloads, exits.

Where it is hard: calls of several threads on the monitor and calls back from
its listeners; the target changing between any two reads; short and failed
reads; a phase that fails inside a cycle; a listener that throws; settings that
change during a cycle. `PROJECT.json` lists each hazard at its line, with the
properties that cover it or the reason why none does.

## Modules

| Module | Models | Proofs |
|---|---|---|
| `MonitorService` | abstract: one series of cycles that do not overlap, none begun after a stop request | |
| `MonitorLifecycle` | `process_monitor.cpp:11-55` | `MonitorLifecycleProofs` |
| `MonitorCycle` | `process_monitor.cpp:57-151`, with the events of `module_monitor.cpp` | `MonitorCycleProofs` |
| `ModuleFeed` | abstract: a set of addresses known to a client that moves event by event towards a picture of the process | |
| `ModuleMonitor` | `module_monitor.cpp:13-51` and a client of its signals | `CoreProofs` |
| `Integrity` | `integrity_baseline.cpp:104-135`, `integrity_checker.cpp:11-44`, `MemoryScanner::read`, `readMemoryLinux`, `establishBaseline`, `checkIntegrity` | `IntegrityProofs` |
| `SignalSlots` | `core/event.hpp` | `CoreProofs` |
| `LogSink` | `core/logger.cpp` | `CoreProofs` |
| `Guardian` | `runtime_memory_guardian.cpp:11-85`, the moves of `ProcessHandle` | `FacadeProofs` |
| `ProcessAccess` | `ProcessHandle::open` on both platforms, `readProcMapsFile`, `readMemoryLinux` | `ViewProofs` |
| `ModuleView` | `module_enumerator.cpp` and both platforms' enumerations of modules and regions | `ViewProofs` |
| `MemoryView` | `memory_scanner.cpp` (`scan`), `memory_snapshot.cpp`, `memory_diff.cpp` | `ViewProofs` |
| `HashBuffer` | `sha256.cpp`, all but the compression function | `BytesProofs` |
| `BaselineFormat` | `integrity_baseline.cpp:14-102` and `137-217` | `BytesProofs` |
| `HookScan` | `detectHooks`, `hook_detector.cpp`, `inline_hook_detector.cpp` | `ViewProofs` |
| `CommandLine` | `tools/rmg-cli/main.cpp`, `tools/baseline-generator/main.cpp` | `FacadeProofs` |

`InductionLemmas` holds induction and recursion over the naturals for the proofs.

`MCMonitorLifecycle`, `MCMonitorCycle`, `MCModuleMonitor` and `MCIntegrity` extend
one module each with the symmetry set its configurations use. `MCParts` extends
the last ten: they share no variable and no code path, so it explores one of
them per behaviour, chosen at the start, and not their product. The operators named `Action_Mutation` in the modules are plausible bugs
of the action that follows them, paired in `PROJECT.json` with the property that
finds them out; `Next` never uses them.

### MonitorLifecycle

A step is one access to `running_`, `stopRequested_` or `workerThread_`. `pc`
holds where each client, or each background thread inside a listener, is in
`start()`, `stop()` or the destructor; `loop` where each background thread is in
`backgroundLoop()`; `made` the temporary `std::thread` that `start()` has
created and not yet moved into `workerThread_`. The standard library is
modelled by what it does: the move assignment to a joinable thread and the
destruction of one call `std::terminate`; `join()` throws for a thread that is
not joinable, for the calling thread itself, and (glibc: EINVAL) for a thread
somebody is joining already; an exception on a background thread or out of the
destructor ends the process. Once the thread is joined the destructor goes on to the
members; a `stop()` that a listener called meanwhile only returns to the listener. Accesses to the non-atomic `workerThread_` are
taken to be indivisible; overlapping calls race on it in C++, so the runs with
`MayOverlap = TRUE` show what goes wrong, or does not, before the race itself
does harm. A client may construct a new monitor in the place of a dead one.

Three options say how the monitor is used. `MayOverlap`: calls of different
clients may overlap. `ListenersMayCall`: listeners call `start()` and `stop()`.
`SpawnMayFail`: the `std::thread` constructor may throw.

### MonitorCycle

One `runOnce()` after another, a step per read of `config_`, per outcome of a
phase, per emitted event. `verify()` and `scanAll()` find any number of things up
to `MaxFound`. `heard` is the client's own bookkeeping: for each address, loads
heard less unloads heard. `SetConfig` and `SetBaseline` come between any two
steps, from a listener or another thread (torn reads of `config_`, and a
`setBaseline` during `verify`, are undefined behaviour and not modelled).
With `MayThrow` the listener may throw: everything up to `runOnce`'s caller is
left, and what a guard object would have undone is not undone. One cycle is in
progress at a time, as `process_monitor.hpp:111-115` asks.

### ModuleMonitor

A set of modules is a function from addresses to images. `poll()` is split where
client code runs: the enumeration with the computation of the loads to
report, each event, the turn to the unloads, the commit to `currentModules_`. The target
changes between any two of them. `PollFails` is either enumeration failing.

### Integrity

A section is a sequence of pages with contents, or holes. A read goes page by
page, stops at the first hole, fails if it got nothing, and answers an empty
success once the process has exited. `create()` and `verify()` interleave with the target
at each page. A digest is the algorithm's name with the bytes hashed, so
hashing is injective; this is what the code relies on for SHA-256 and does not
get from CRC-32. `touched` and `steady` are history variables: the sections changed since
the capture of the installed baseline began, and the pages that differed from it
all through the verification.

### SignalSlots and LogSink

A step is one entry into or exit from the critical section, or the call or return
of one listener or sink. `heard` is what an emission has called, `stayed` the
listeners connected ever since it began, `left` those disconnected before it began. A listener calls back into the list of its own signal at most once per call.
In `LogSink` the mutex is not recursive: a sink in `ChattySinks` logs from
`write()` and waits for itself. `setSink` destroys the old sink under the lock;
`alive` holds the sinks that have not been destroyed.

### Guardian

One object per variable of the caller, and the temporary of a factory. A
descriptor, the parts of an object and its monitor carry the number of the
creation they come from; moves carry them along and leave empty members.
Member-wise assignment and destruction are a step per member, in the order of
declaration and its reverse, since a background thread runs in between.
`watches` is the place whose `handle_` a monitor was built on. The caller does
not call an object that was moved from. It may start and stop monitors, move
objects whose monitor runs, and assign over an object whose monitor is stopped
(`AssignOverRunning` lifts that).

### ProcessAccess

One identifier and the processes that bear it in turn. `OpenChecks` and
`OpenOpens` are the two system calls of `open()` on Linux; Windows has one, and
does not give the identifier away while a handle is open.

### ModuleView and MemoryView

In `ModuleView` a page maps a file, or is anonymous, and is executable or not. On Linux
an enumeration reads `/proc/<pid>/maps` from its start to its end, and `ListModules` and
`ListRegions` are one step each, so a page changes only between the two. The code's stream reads that file
with several calls, between which the target may change; what keeps the properties true
then is a promise of the kernel (addresses never go backwards in the file, and what is mapped
throughout the walk is in it), which is not modelled. On Windows every call of the API is a step. `OddFiles` are files whose line in maps does
not end in a word that begins with '/': a name with a space, "(deleted)".
`MemoryView` takes two snapshots, a step per region, and compares them; the
target changes a range of cells once between any two steps. Its enumeration is one
step, with the same reservation; the walk of Windows is in `ModuleView`.

### HashBuffer, BaselineFormat, HookScan

The inputs are bounded, the computations are the code's. `HashBuffer` takes a message in any
split, with a block of 8 bytes and a length field of 2; the byte at place i of
the message is the number i, so that each lost, repeated or misplaced byte shows. `chain`
is the sequence of bytes compressed so far: equal chains have equal digests
whatever the compression function. `BaselineFormat` writes integers little-endian
in any radix and widths (the run takes small ones), so that a file can be damaged at
any byte: cut, extended, or changed in the header or the body. `Baselines` are the
baselines that may be saved; the assumption on them is that the casts to
`std::uint32_t` and `std::uint64_t` in `serialize()` lose nothing. `HookScan` has 32 addresses and words of 16
values, half of them negative; a section holds one of the three idioms, or none,
and may be readable in part or not at all.

### CommandLine

`rmg-cli` from its arguments to its exit code, what the library answers being an
input, beside a generator that may truncate and rewrite the file that `rmg-cli`
measures and then reads. A piece of the file carries its run and its place. The
measure is a step, each of the reads that `std::ifstream::read` makes until it
has the bytes asked for is a step, and so is each write; the file may be truncated and
written anew between any two of them. `rewritten` is a history variable: the
file was truncated when some of it had been read and the rest not.

## Runs

| Run | Shows | Bounds |
|---|---|---|
| `lifecycle_serial` | calls one at a time: `SerialInv`, `OneWorker`, `ActiveIffRunning`, `StopReturns`, `StartMonitors`, and `MonitorService` implemented | 2 clients, 2 thread identities |
| `lifecycle_concurrent` | calls overlap, listeners call, creation fails: `NoLostThread`, `DeadIsQuiet` | 3 clients, 2 thread identities |
| `lifecycle_listener_stop` | violated: "`stop()` is always safe to call" | 1 client, 1 listener |
| `cycle_phases` | `CycleInv`, `BooksAreRight`, `EnabledPhasesPerformed`, `PollsRecur` | 2 addresses, 1 finding per phase |
| `cycle_config` | violated: `setConfig` "takes effect starting from the next cycle" | same |
| `cycle_throw` | violated: "listeners are not duplicated across cycles" | same, 2 connections |
| `modules_poll` | `PollInv`, `FollowerAgrees`, `NoRepeatedEvent`, `FollowerCatchesUp`, and `ModuleFeed` implemented | 2 addresses, 2 images, 3 changes |
| `modules_replaced` | violated: events "for any differences versus the previous poll()" | 1 address, 2 images |
| `integrity_verify` | `IntegrityInv`, `AlarmIsReal`, `SteadyTamperIsFound` | 2 sections of 2 pages, 2 contents, 2 algorithms, 2 changes |
| `parts` | the 20 properties of the last ten modules, below | see below |
| `guardian_handle` | violated: the handle of a monitor "must outlive this object" | 2 variables, 3 creations |
| `integrity_short_read` | violated, the process being there: a section that "cannot be fully read [...] is omitted" | the same sections, 1 change |

What `parts` shows, module by module:

- `EmissionIsWhole`: an emission calls listeners in the order of their connection and none twice, none that was disconnected before it began, and all that stayed connected until its end, whatever listeners and other threads do meanwhile; `EveryEmitReturns`: it ends.
- `SinkOutlivesWrite`: no sink is destroyed while it writes; `EveryLogReturns`: a call of `log()` returns, for sinks that do not log.
- `OneOwner`, `RunningMonitorHasParts`, `BaselineFitsTarget`: descriptors are closed once, a background thread has the parts it uses, and a baseline that was established belongs to the process its guardian watches, through all moves.
- `BytesMatchRegions`: bytes come from the process whose regions were listed, although the identifier passes on.
- `SteadyCodeIsCovered`, `QuietSectionsAreOwned`, `RegionsAreDisjoint`: what changes between two enumerations costs nothing that did not change; in a quiet process a section belongs to its module; regions do not overlap.
- `DiffIsSound`, `DiffIsComplete`: the differences reported are exactly those of the bytes captured in regions with the same base.
- `BufferHoldsTail`, `DigestIsOfMessage`: what was compressed is the padded message of the standard, whatever the split, also when the hasher is used again.
- `LoadedIsSaved`, `OnlyWholeFilesLoad`: an undamaged file gives back the baseline, a file cut short is refused.
- `FindingsAreEscapes`: a jump is reported exactly when the processor lands outside the module.
- `ExitCodeIsHonest`, `NoHalfBaseline`: exit codes 0 and 2 mean what they say; no baseline is verified of which a piece is missing or out of place, and none that is not the whole of one run of the generator unless the file was truncated between two reads of it.

Its bounds: two threads that emit, two connections and two emissions (a connect, a disconnect
and an emission overlap); two threads that log, two sinks, two levels; three
guardians in two variables (moves both ways, assignment, a second creation);
three processes with the identifier (before, during and after the handle);
three pages or cells and one change (a run split, shrunk, grown, moved); messages
of up to 20 bytes (two blocks and a half, each padding case, the one that
needs a further block included); baselines of up to two entries with texts of up to one byte; sections on both
sides of the module's end within reach of a negative jump; four arguments (a target, an option with its value, one more)
and two runs of the generator. It sets `CHECK_DEADLOCK FALSE` because computations end.

Why the other bounds are enough: two thread identities let a second background
thread be born while the first lives; a third client lets one stop, one start and
one destroy. Two addresses let a poll report one load and one unload, or two of
a kind with the target changing between them, and three changes let a module go, come back and go.
Two pages make a short read, and two sections an innocent beside a
culprit. The proofs below remove the bounds for the safety properties.

In the runs of the monitor, `lifecycle_concurrent` sets `CHECK_DEADLOCK FALSE`: after `std::terminate` the
process is over, and two `stop()` calls can wait for ever on a thread whose stop
request a `start()` has cleared. Every other passing run checks for deadlock.

### Fairness

`MonitorLifecycle`: weak fairness of the steps of every call begun and of every
background thread: the operating system schedules a thread that can run, a
cycle returns and a sleep ends. Nobody is obliged to call anything.
`MonitorCycle`: weak fairness of the steps of the cycle: the loop calls
`runOnce()` again after each sleep, no phase waits for anything; which of its
outcomes a phase takes is left open. `ModuleMonitor`: weak fairness of
reporting, and of a successful enumeration, so that an enumeration does not
fail for ever; the catching up of `FollowerCatchesUp` needs both.
`SignalSlots`: threads inside `emit()` run on, listeners return, and a
listener that waits for a mutex obtains it once it stays free (weak fairness; the
emissions and records that contend for it are bounded, so it does become free). `LogSink`: the
same for the threads inside `log()`. Nobody is obliged to emit or to log.

### What the runs say about the code

Used as the header asks, one call at a time, the lifecycle is right. Outside
of it:

- A listener that calls `stop()` on the background thread ends the process (`lifecycle_listener_stop`).
- With `MayOverlap = TRUE` in `lifecycle_serial.cfg`, `NoFault` fails (two
  `stop()` calls join the same thread), `ActiveIffRunning` fails (`stop()` clears
  `running_` while an overlapping `start()` has spawned and not yet stored its
  thread), and `StopReturns` fails (`stop()` sets `stopRequested_` and joins,
  `start()` has passed its exchange and clears the flag: the join waits for
  ever). A `start()` after the second of these assigns over a joinable thread: `std::terminate`.
- With `SpawnMayFail = TRUE`, `ActiveIffRunning` fails: `running_` stays true
  with no thread, until a `stop()`.
- A setting changed during a cycle changes that cycle (`cycle_config`).
- A listener that throws leaks the connections of that poll (`cycle_throw`); and
  the poll it leaves does not commit what it reported, so the next one reports it again.
- A module replaced at the same address is not reported (`modules_replaced`).
- A short read is hashed as the section: a baseline records a section whose tail is
  unmapped with the digest of its head (`integrity_short_read`), and a verification
  reports such a section tampered and not unreadable. By the same path an exited process
  reads as no bytes, with success, and each of its sections is tampered;
  `integrity_checker.hpp:41-44` would have both kinds among the unreadable. `AlarmIsReal`
  counts an unmapped tail and an exit as changes of the section, and allows these reports.
- A baseline file that the generator truncates and writes anew between two reads of
  `rmg-cli` may be read as the first part of one run and the rest of another. With
  the same layout it loads: nothing in the format tells the runs apart, and the
  generator writes in place. No document promises otherwise; `NoHalfBaseline`
  says what does hold.
- The monitor of every guardian a factory returns refers to the `handle_` of a
  temporary (`guardian_handle`): all it reads goes through a destroyed object.
- With `AssignOverRunning = TRUE` in `parts.cfg`, `RunningMonitorHasParts` fails: move
  assignment destroys the scanner and its like before the monitor that uses them.
- With `ChattySinks = {s1}`, `EveryLogReturns` fails: `log()` calls the sink with
  the mutex held. The header asks sinks to be thread-safe though their calls are serialized,
  and says that the console sink writes to stderr, which it does from `Error` on.
- A file in `OddFiles` loses its module, and so all its code sections, on Linux
  (`linux_memory_region_enumerator.cpp:78-87`). Windows reads handles past the
  end of a vector when a module loads between two calls (`overrun`).
- A region that was split, or grew or shrank at its end, leaves `regionSetIdentical` true:
  `memory_diff.cpp:53-57` compares bases, `memory_diff.hpp:36-40` speaks of the same set of regions.
- The file format has no checksum: a byte changed in the body may load. The comment on the
  format in `integrity_baseline.hpp:67-73` leaves out `ownerModulePath`, which is
  written last.
- `FF 25` is judged by the address of its pointer and not by what it holds; the
  immediate of `68 .. C3` is zero-extended where the processor sign-extends it, so
  `FindingsAreEscapes` speaks of words of the lower half there.
- `rmg-cli` verifies the loaded baseline instead of a fresh one when both are asked
  for, exits with 1 when an operation fails after an anomaly was found, and
  with 0 when every section was unreadable. The generator asks `good()` before the stream
  is flushed, so half a file may go with exit code 0; `rmg-cli` refuses it.
- `MonitorConfig::rescanModulesOnAnomaly` (`monitor_config.hpp:37-42`) is read nowhere.

## Proofs

All theorems hold for every value of the constants that satisfies the named
assumptions of the module (identities are distinct, bounds are naturals).

- `MonitorLifecycleProofs`. `TypeCorrect` is unconditional. For calls that do not
  overlap (`Serial`: no overlap, no listener calls back), `SerialInvariant`
  proves the inductive `SerialInv`: where the one call in progress stands determines
  the flags, the handle and the thread. It is needed because neither
  `OneWorker` nor `ActiveIffRunning` says that no stop request is pending when
  a thread is spawned, or that `workerThread_` is empty then. `SerialUseIsSafe` and
  the refinement `SerialUseKeepsPromise` follow, whether threads can be created or not.
  `IsRunningIsTrue` is the one consequence that needs threads to be created: a `start()`
  whose thread could not be made leaves `running_` true.
  `NoThreadEscapes` and `DestroyedIsQuiet` assume nothing of the use: calls overlap and
  listeners call back. Their invariant, `OverlapInv`, says who joins, which temporary holds
  which thread, and that a dying monitor is left to its destroyer. Its part
  `RootedInv` is what listeners make necessary: a listener may start a thread whose handle
  is a temporary on its own stack, the listener of that thread another, and so on. No set of threads keeps only
  itself: in each there is one that `workerThread_` represents, or a call from outside the set. So
  when the destructor has joined and no call is open, no thread is left.
- `MonitorCycleProofs`. `CycleInv` ties the two connections, the client's books
  and the phases performed to the point of the cycle; `BooksStayRight` and
  `NoPhaseIsLost` follow. They assume a listener that does not throw.
- `IntegrityProofs`. `IntegrityInv` says that what was read, captured or
  installed for a section left alone is still there, as far as it could be
  read; and that each steady difference is still ahead of the verification,
  in the pages it holds, or reported. The step that carries it is the lemma
  `CompleteReadsAgree`: two reads of a section that each went as far as they could read the same.
  `NoFalseAlarm` and `NoTamperMissed` follow.
- `CoreProofs`. For `ModuleMonitor`, `PollInv` says that the events to come are exactly the
  difference between the client's picture and the enumeration, which gives
  `FollowerAgrees`, the alternation of events and the refinement of `ModuleFeed`.
  For `LogSink`, the mutex is held exactly by the thread that writes, and the sink it writes
  to is the current one, which lives; `SinkIsSafe` follows, chatty sinks included.
  For `SignalSlots`, identities in the list, in the copy still to be called and
  in what was called grow in this order, and what was called together with what
  is still to be called holds every listener that stayed; `EmissionsAreWhole` follows. What
  the erasure of a listener leaves is defined by recursion (`Without`) and characterised by lemmas.
- `FacadeProofs`. For `Guardian`, `OwnerInv` ties the descriptor of a place to the object there and
  to the creation that made it, at each step of an assignment or a destruction
  (`DescriptorsHaveOneOwner`), and `WiringInv` says which of the other members have gone over
  already and that they are all of one creation, which gives `BaselineIsOfTarget` and `RunningMonitorsKeepParts`.
  The latter assumes that nobody assigns over an object whose monitor runs: without that it is false.
  For `CommandLine`, `CliInv` says what each stage knows of the operations
  that ran (`ExitCodesAreHonest`). `FileInv` says that the file is the beginning of what one run of the generator wrote,
  and that what was read of it has each piece in its place and, unless the file was truncated
  meanwhile, is a prefix of the file and so of that run; a prefix with all the pieces its
  header counts is the whole (`VerifiedBaselinesAreWhole`).
- `ViewProofs`. `AccessInv` says that a process bears the identifier for one stretch of
  time, so a live process behind the handle bore it when regions were listed (`NoForeignBytes`).
  For `ModuleView`, regions are a function of the pages: each page that holds
  something is in one region, which ends where the pages change. `RegionsNeverOverlap` needs only that a
  walk leaves behind its cursor what it reports; `QuietSectionsHaveOwners` and `SteadyCodeIsFound`
  carry from one enumeration to the next what cannot have changed in between.
  For `MemoryView`, a snapshot never has two regions that overlap nor more bytes of one than
  it has cells (`ScanInv`), and the ranges reported are the maximal runs of bytes that differ
  between regions of one base; every byte that differs is in one: `DiffsAreSound` and `DiffsAreComplete`. For `HookScan`, `ScansFindEscapes` is
  arithmetic of addresses that wrap and of displacements with a sign.
- `BytesProofs`. For `HashBuffer`, `NoByteIsLost` for every block size and message length: division
  facts, the cutting of a sequence and the three parts of `update()` are lemmas; the
  padding reuses the one on `update()`. `DigestsAreOfMessages` adds what the padding writes: the
  fewest zeros that make whole blocks, and the length. For `BaselineFormat`, a number is what is assembled
  from its bytes, and no other bytes give it. From this, field by field: reading where an entry was written
  gives the entry if the file goes so far, and fails if not. `FormatInv` says that
  of a file that agrees with what was written so many entries were read as they were, and the reader
  stands where they end. `LoadsWhatWasSaved` and `DamagedFilesAreRefused` follow, the latter
  because a file that was cut ends before the last entry does, and because no header but the one written passes.
- `InductionLemmas`. Induction over the naturals and functions defined by recursion,
  with sets of numbers for predicates, from the theorem that strict inclusion of finite sets is well-founded.

Only model-checked: the liveness properties (`StopReturns`, `StartMonitors`,
`PollsRecur`, `FollowerCatchesUp`, `EveryEmitReturns`, `EveryLogReturns`), which
are out of the prover's reach. Every other property of a passing run is a theorem,
under four assumptions on the use that the text above names: calls one at a time for
`OneWorker`, `ActiveIffRunning`, `SerialInv` and the refinement of `MonitorService`, threads that can be created for
`ActiveIffRunning` too, a listener that does not throw for the cycle, and no assignment over a running monitor for `RunningMonitorHasParts`. The runs
check these properties under the same assumptions.

## Not modelled, and why

- Texts of errors and logs, and their formatting (`core/error`, `toString`).
- The compression function of SHA-256, CRC-32, string and byte-buffer helpers: arithmetic
  and copying without state that test vectors settle. A message of 2^61
  bytes, whose bit length wraps, is out of bounds.
- `findByName`, `listModules`, `enumerateExecutable` and both `queryProtection`: reads that select
  from a result that is modelled.
- The import and export table detectors return no findings, and are modelled as that.
- A `setBaseline` during `verify`, two threads in `poll()` at once, and the
  handles that Windows reads past the end of a vector are undefined behaviour.
- The memory `deserialize()` reserves for an entry count it has not checked.
- `strtoul` of a process number that is none (it gives 0).
- An address range that wraps at the end of the address space (`moduleEnd`).
- Entries keep absolute addresses (`integrity_baseline.cpp:121`): whether a file suits
  a later run of a program is a property of the deployment.

## Plan

Left to prove: what the cycle keeps when a listener throws (all but the
connections and the phases that were left), and type correctness as theorems of
their own for the modules where it is a part of an inductive invariant. Left to
model: settings that are replaced while a cycle reads them, if the code comes
to guard them with a lock.
