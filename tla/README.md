# TLA+ models and proofs for rocprofiler-systems

This directory specifies the parts of rocprofiler-systems whose correctness
depends on the order in which threads act. Paths below are relative to
`src/source/lib/` unless they begin with `docs/`.

| file | what it is |
| --- | --- |
| `TraceLog.tla` | what the buffered storage promises: an append-only log |
| `BufferStorage.tla` | the ring buffer of the trace cache |
| `FlushWorker.tla` | the thread that drains it, start and stop |
| `StorageParser.tla` | how the file is cut into records again |
| `TraceCache.tla` | ring, worker, writers, shutdown and parser together |
| `CacheManager.tla` | the files of several processes and the bulk post-processing |
| `Categories.tla` | the flags that switch measurement on and off, and the process state |
| `TraceWindow.tla` | the thread that opens and closes collection periods, and the main thread |
| `ForkGotcha.tla` | the handlers around `fork()` |
| `CollectionControl.tla` | period thread, main thread and fork handlers together |
| `ProcessSampler.tla` | the background sampler with AMD SMI and `fork()` |
| `CallStackSampler.tla` | the per-thread samplers and the thread that ends them after a duration |
| `StableVector.tla`, `ThreadData.tla` | the storage of per-thread data and its growth |
| `MC*.tla`, `*.cfg` | instances for TLC |
| `*_proofs.tla` | theorems with proofs for TLAPS |
| `PROJECT.json` | components, runs, hazards, findings, and the source lines of every definition |

TLC: `tlc -config X.cfg MCModule`; TLAPS: `tlapm X_proofs.tla`.

## 1. The system

rocprofiler-systems is loaded into an application (`LD_PRELOAD`, binary
rewriting or a user API), measures it, and writes the result when the
application ends. Its code runs in the application's threads, in signal
handlers, in wrappers of library calls ("gotchas") and in a few threads of its
own. The parts:

**Trace cache** (`core/trace_cache/`). Instrumented threads serialize records
into a 100 MB ring; a worker thread writes it to a file in `/tmp`; after the
end of the program the file is parsed and turned into a perfetto trace and a
rocpd database.
State: `m_head`, `m_tail`, the buffer, `is_running`, `exit_finished`, the
thread, the stream. Operations: `store`, `flush`, `start`, `shutdown`. Hard:
writers fill their reservations without the lock, the flusher copies without
the lock, nothing stops a writer that is faster than the flusher, both
condition variables are used without a common mutex, the process may fork.
Correct when: what was accepted before the shutdown is in the file, in order,
unmodified; shutdown ends, and only after the file is complete.

**Process lifecycle** (`rocprof-sys/library.cpp`, `core/state.cpp`). One atomic
state (PreInit, Init, Active, Disabled, Finalized) that everything reads.
Initialization sets Active last; finalization blocks the samplers, sets
Finalized, enables the categories for the output, shuts the components down in
order, post-processes, disables the categories. Hard: `atexit`, `exit` and
`MPI_Finalize` wrappers may all finalize; a child of `fork` takes another path.

**Categories and collection periods** (`core/categories.cpp`,
`core/constraint.cpp`). One flag per category, read by every measurement. A
detached thread opens and closes the periods given by `ROCPROFSYS_TRACE_DELAY`,
`_DURATION` and `_PERIODS`. The flags are written one after the other, without a
lock, by this thread, by the finalization and by the fork handlers. Correct
when: data is collected inside a period and not outside it, and all categories
are on while the output is written.

**Fork handlers** (`rocprof-sys/library/components/fork_gotcha.cpp`). Registered
with `pthread_atfork` and called by a wrapper of `fork` as well, so that each
runs twice; three plain flags let only the first call through. Correct when:
nothing measures during the fork, the parent collects again afterwards, the
child never does.

**Samplers.** `process_sampler.cpp` polls AMD SMI (`amd_smi.cpp`) and the CPU
frequency in a thread of its own; `sampling.cpp` samples call stacks by signal,
with one sampler per thread and a thread that stops all of them after
`ROCPROFSYS_SAMPLING_DURATION`. Each has state of its own besides the process
state. Hard: shutdown while a sample is taken, the reinitialization of AMD SMI
around `fork`, two threads that stop all samplers at once, threads that begin or
end meanwhile. Correct when: no sample is taken of a library that is closed, or
while the samples are read; the finalization does not wait for ever.

**Threads and per-thread data** (`thread_info.cpp`, `thread_data.hpp`,
`core/containers/stable_vector.hpp`). Every thread has an index and an element in
each container of per-thread data. Containers grow under a lock when a thread's
index exceeds `peak_num_threads`, and are indexed without one. Correct when: a
thread that runs has an element everywhere.

**Cache manager and parser** (`core/trace_cache/cache_manager.cpp`,
`storage_parser.hpp`). Every process of an application writes a storage and, at
its end, a metadata file to one directory; the root process, when it finalizes,
lists the directory, parses what is there in each output format, and removes it.
Hard: children may start, end or die at any moment of this, and two threads of
the root may finalize. Correct when: a child's trace is read whole or not at
all, and the root's own exactly once.

**Dynamic-loader front end** (`rocprof-sys-dl/dl.cpp`) and **causal profiler**
(`causal/`): not modelled, see section 7.

**How they interact.** Instrumented code reads the flags of Categories and the
state, and calls `store`. The samplers call `store` from their own threads. The
main thread starts the trace cache at the end of the initialization, sets the
state to Active and, at the end, shuts the cache down and has the file parsed.
The period thread and the fork handlers meet the main thread only through the
flags and the state.

## 2. Trace cache: modules

### BufferStorage

| code | model |
| --- | --- |
| `m_head`, `m_tail`, `*m_buffer`, `ofs` | `head`, `tail`, `buffer`, `file` |
| a call of `store` | `store[w]`: idle, reserved (the lock is released), headed (type and size written) |
| `reserve_memory_space`, `fragment_memory` | `Reserve(w, n)`: one step, they run under `m_mutex` |
| two `store_value`, then `serialize` | `StoreHeader(w)`, `Serialize(w)`: without the lock |
| the locked part of `flush` | `FlushSnapshot(force)`; its early returns are `NothingToFlush(force)` |
| `ofs.write` | `FlushCopy`, one byte a step: writers run in between |
| `ofs.fail()` and the exception | `FlushFails`: the exception is not caught in the worker thread, the process ends |

Bytes are not given values. Every byte that is reserved, filler included, has a
number, and a cell of the buffer or a position of the file holds the number of
the byte last written there. "The file holds byte *s* at position *s*" then says
that nothing is lost, duplicated, reordered or overwritten. `reserved`,
`released` and `lapped` are history variables. `lapped` becomes TRUE when a
reservation takes a cell that is still needed: one that is not copied yet, or
that a slow writer still fills. The code does not prevent this; the properties
that need it assume `~lapped`, and section 4 says what happens otherwise.

Simplifications: the fill of `fragment_memory` (0xff, with the filler header) is
the filler's byte numbers; `StoreHeader` writes type and size in one step and
`Serialize` the body in one step, while the copy is byte by byte, so a torn
header and a torn body are both reached; a record larger than the buffer is
excluded by `SizesAssumption` (the code does not check it).

`TraceLog` is the abstract specification: an append-only log with bytes
accepted, bytes whose value is still pending, and a file that receives the bytes
in order. `BufferStorage` implements it with `accepted <- reserved`,
`pending <- Pending`, `file <- file`: every step is a step of the log or a
stutter until a writer laps (`ImplementsTraceLog`). The log lets the file receive
anything in place of a pending byte. This is the weakest promise that is true
of the code; it is not the one the tests expect.

### FlushWorker

`start`, the worker thread and `stop` of `buffer_storage.cpp`, step by step
between two accesses to shared state. Each condition variable is waited on with
a mutex that is local to the waiter, so testing the predicate, blocking,
writing the flag and notifying are four steps that interleave freely: `WaitTest`
and `WaitBlocks` against `StopClearsRunning` and `StopNotifies`; `StopTests` and
`StopBlocks` against `SetExitFinished` and `NotifyExit`. `WaitTimesOut` is
`CACHE_FILE_FLUSH_TIMEOUT`; `SpuriousWakeup` what the standard allows for
`wait`. `stopping[c] = "crashed"` is a call that finds the thread object already
reset by another call. `Fork` continues in the child: the memory is copied, the
worker thread is gone.

### TraceCache

Both modules by EXTENDS: the worker's call of its function is `flush`, so
`WorkerFlushes` joins `CallFlush` and `FlushSnapshot` (or an early return), and
`WorkerFlushReturns` waits for the copy. `store` tests `is_running` once, before
the lock (`StoreTestsRunning`), and may then go on after the shutdown has ended,
as in the code. `mark` and `stored` remember what had been reserved, and what had
been stored completely, when `is_running` was cleared. One process; the child of
a fork is left to FlushWorker.

### StorageParser

`storage_parser::load` as a function of the file and of `layout`, the headers
that `store` produced in the order of their reservations (a history variable of
TraceCache). At a position of the file it finds the header of one of these
records, the zeros of a buffer never written there, or something else, where it
may read anything ("lost"). It skips zeros, empty records and fillers, stops
quietly when less than a header is left, and throws for a record that is cut
short. `Round` is one round of the loop at a byte of the file, given what the rounds
from a later byte on return; `Load` is the recursive function that ties them together.
`ParserFindsTheRecords` compares what it hands over with the order of the
reservations, for every file the worker can leave behind.

### CacheManager

| code | model |
| --- | --- |
| the files `buffered_storage_<root>_<pid>.bin`, `metadata_...json` in `/tmp` | `file[<<kind, pid>>]`: absent, partial, whole |
| a child process | `child[c]`: spawned, tracing, drained, saving, ended, killed |
| `rocprofsys_finalize_hidden`, or the exit gotcha, in one thread | `stage[f]`; two of them may run |
| `buffer_storage::shutdown` and the worker's end | `StopsStorage`, `WorkerDrains`, `JoinsWorker` |
| `opendir` and `readdir` | `ListBegins`, `ListEnds`: a file that appears or vanishes in between may be listed or not |
| `create_processor_configs` | `Loads`, once for each pair of files, then `AddsOwn` for the root's memory |
| `process_buffered_storage` for each format | `Processes`: what could be read is a report |
| `clear_cache_files` | `Clears`, one file a step |

A child writes its storage, then its metadata (`library.cpp:831`), and may be
killed at any step. `Strangers` are processes of another root. Left out: the
names and the merging of the output files, an unreadable directory, the reuse of
a process id.

### Samplers and per-thread data: modules

`ProcessSampler` is `process_sampler.cpp` with `amd_smi.cpp` and the
initialization in `gpu.cpp`. `poll` is the place of the polling thread in its
loop, from `config` through the two tests of the states to the devices it
samples one after the other under the lock; `smi[c]` lists the calls of
`amd_smi::setup` and `shutdown` that the main thread or a forking thread has
still to make, each in two steps where it holds the lock. The AMD SMI library is
external: closed or open, a call of a closed one fails, any call may fail.
`ToolInit` is the activation by the tool of rocprofiler, `MainEndsTool` its end.

`CallStackSampler` is `sampling.cpp` with the calls that `pthread_create_gotcha`,
the finalization and the fork handlers make of it. `configure(true, t)` is
`SetupTests` to `SetupStarts`; `configure(false, t)` of an ending thread is
`ThreadTestsRunning`, `ThreadStops`; `configure(false, 0)` is `stop[c]`, run by
the main thread and by the duration thread, possibly at once. The duration
thread's condition variable is notified without a test of the state on the
waiter's side, so a notification can be lost (`Notified`, `DurationWaits`).
`late` remembers the threads that were in their setup when everything was
stopped; the properties say what the code achieves for the others. Signals and
timers are external: a sample can be taken when the switch is on and the sampler
of a running thread is started (`Sampled`).

`StableVector` holds the operators of `stable_vector.hpp` on a sequence of
chunks, each by the number of its elements; `ThreadData` is the growth of all
containers by the first thread whose index reaches `peak_num_threads`: the test
without and with the lock, one functor a step, the peak. A container is
constructed by the first thread that uses it, at any time. `ThreadArrives` bounds
how many threads may arrive before an earlier one has grown the storage to one
chunk (`grow_data` adds a single chunk, so more would need a second growth); the
theorems use this bound.

## 3. Collection control: modules

`Categories` holds the flags, the process state and each thread's sweep over the
flags: `configure_categories` sets them one at a time (`SetFlag`), so two sweeps
interleave and leave mixtures. An actor does its next step when its sweep is
over (`Swept`).

`TraceWindow` is `categories::setup` with the stages it installs and
`spec::operator()`: init, wait, start, collect, stop, each of which tests the
state when it returns and breaks the loop of the current specification if the
process is finalized (`LeaveSpec`, then the next specification). Time is
abstracted: a wait may end at any moment, but only a wait with a positive length
can see the finalization, since the loop body is not executed otherwise. The
main thread is in the same module: setup, the promise's wait (which may time out),
Active, `block_samples`, Finalized, enable, output, `categories::shutdown`.

`ForkGotcha` has every handler split at its shared writes: test of the flag,
body with its sweep, then each assignment of a flag. `Layers` are the two
callers of a handler: on the way in the wrapper runs first and `pthread_atfork`
second, on the way out the other way round. A behaviour follows one process; at
`fork` it goes on in the parent or in the child, where only the forking thread
exists.

`CollectionControl` is the composition: any actor's sweep step, the main thread,
the period thread, each forking thread, and the child's appearance, which removes
the main and the period thread.

Left out: the handlers' calls of the AMD SMI sampler (they are in
ProcessSampler), the settings the child changes, prefork's call of the initialization before the settings are read
(forks are possible from Active on), and a child of a child: a child may fork,
but the behaviour then stays with it.

## 4. Runs

The type invariants are all proved (section 6); two of them are checked by runs as well.

| run | what it asks | result |
| --- | --- | --- |
| `buffer_ring` | positions, used space, completeness of the copy, place of stored bytes, disjoint writers; the ring implements the log | hold |
| `flush_worker` | file closed before join; only overlapping stops break; file open while in use; worker ends; child's stop returns | hold |
| `trace_cache` | everything reserved before shutdown is in the final file, unless lapped; the race with shutdown costs at most one record a thread; the parser finds the records; a backlog above the threshold is flushed; a shutdown empties the ring | hold |
| `collection` | flags follow the periods; nothing enabled at `fork`; collection on again in the parent; the child quiet; the period thread ends | hold |
| `process_sampler` | no call of a closed library before a fork; one of the shutdowns that overlap closes the library; one late round; a failure ends the sampling; shutdown returns | hold |
| `call_stack_sampler` | who may still be sampled after the duration and during the output; the finalization ends | hold |
| `cache_manager` | a child's trace whole or not at all; the own trace once; ended children reported; what stays in the directory | hold |
| `thread_data` | a running thread has its elements; the peak is the size; no element counted that is not there; growth ends | hold |
| `stop_returns` | `stop` returns | violated |
| `torn_samples` | a record stored before shutdown can be read back | violated |
| `gpu_reinit` | an initialized AMD SMI sampler has an open library | violated |
| `late_containers` | a running thread has an element in every container | violated |

### Findings

- **`stop` may never return** (`buffer_storage.cpp:123`). The worker sets
  `exit_finished` and notifies between stop's test of it and its blocking. The
  wait has no timeout. A common mutex, or `join` without the wait, would do.
- **A record can be torn** (`buffer_storage.hpp:249`). A flush between the
  reservation and the serialization writes the old content of the space; when it
  is the header, the parser loses the rest of the file.
- **AMD SMI is not opened again after a fork** (`gpu.cpp:183`). `call_once` skips
  the second initialization and its result still says success, so the sampler
  is initialized over a closed library, fails at its next call and disables itself.
- **Late containers are too small** (`thread_data.hpp:71`). The peak a container
  could ask for at its construction is published (`thread_info.cpp:104`) and
  never read.

Six more properties are stated that the code does not meet. No run repeats
them; these constants show them:

| property | constants | what happens |
| --- | --- | --- |
| `TraceCache!NothingAcceptedIsLost` | one writer, `TraceCache.cfg` | `reserve_memory_space` never looks at `m_tail` (`buffer_storage.hpp:243`); a writer that is faster than the worker overwrites records. The 100 MB ring makes it rare |
| `CollectionControl!DelayAloneCollects` | `Settings <- DelayOnly` | a delay without a duration collects nothing (`constraint.cpp:277`) |
| `CollectionControl!OutputFindsCategoriesEnabled` | `Settings <- TwoDelays` | the init stage of the second specification disables without testing the state (`categories.cpp:101`); in the stop stage test and sweep are separate |
| `CollectionControl!ForksLeaveCollectionOn` | `Forkers <- TwoForkers` | two forks at once leave the collection off (`fork_gotcha.cpp:68`) |
| `CallStackSampler!DurationStopsSampling` | `CallStackSampler.cfg` | a thread in its setup while the duration ends starts its sampler afterwards; a fork turns the switch on again (`sampling.cpp:1087`) |
| `CacheManager!ExitFindsTraceWritten` | `CacheManager.cfg` | a second thread that calls `exit` finds the state Finalized and exits before the first has written the trace (`exit_gotcha.cpp:64`) |

### Bounds, and why they are enough

| run | bounds |
| --- | --- |
| `buffer_ring` | 2 writers, 6 cells, header 1, bodies of 1 or 2, threshold 4, `MaxReserved` 14 |
| `trace_cache` | 2 writers, 6 cells, body 1, threshold 3, `MaxReserved` 8, one caller of shutdown |
| `torn_samples` | 1 writer, 8 cells and 6 bytes, so that a lap is impossible |
| `flush_worker` / `stop_returns` | 2 callers / 1 caller |
| `collection` | 2 categories, one forking thread, no specification or two |
| `process_sampler`, `gpu_reinit` | 2 devices, 2 forks |
| `call_stack_sampler` | the main thread and 2 others, 1 fork |
| `cache_manager` | the root with 2 finalizers, 1 child, 1 stranger, both formats |
| `thread_data`, `late_containers` | chunks of 2, 3 containers, 6 threads |

`MaxReserved` ends a behaviour after two laps and a filler in `buffer_ring` and
in the second lap in `trace_cache`: the filler appears at several positions, the
snapshot wraps, and writers lap the flusher. Two body sizes make the filler's
length vary. Two writers are what the pairwise properties need; a third would do
what one of them does. Two categories are the least for which a sweep can be
interrupted in the middle; `repeat` 2 and `repeat` 0 reach every branch of the
loop over the rounds. Two devices let a failure fall in the middle of a round.
Two application threads let one be in its setup while the other is settled or
ends. A child alone takes every place relative to the two finalizers; children
do not touch one another's files. Six threads in chunks of two make the storage
grow twice and let two threads wait for the same growth. Deadlock is not checked:
with the bounds reached, the threads finished or a crash, the system does stop.

### Fairness

`FlushWorker` and `TraceCache`: weak fairness of the start, of the worker thread
and of a call of `stop` after its guard. These are threads that the scheduler
runs and that block only in the waits the model has; `WaitTimesOut` belongs to
the worker because `wait_for` has a timeout. There is no fairness for the
application: it need not store, shut down or fork. `SpuriousWakeup` has none
either, so `StopReturns` is not saved by chance. `CollectionControl`: weak fairness of each
sweep, of the main thread except for the end of the application
(`main # "active"`), of the period thread and of a fork once begun.
`ProcessSampler`: weak fairness of the polling and of the main thread, which may
stay in the application for ever (`main # "run"`), and strong fairness of the
acquisitions of the AMD SMI lock, which the threads hold for a round or a call
and leave free in between. `CallStackSampler`: weak fairness of the clock, of the
duration thread, of the finalization once begun, and of each thread inside the
code of the library; no thread has to end. `ThreadData`: weak fairness of a
thread inside the growth. `CacheManager` has none, it states safety only.

## 5. What is easy to miss in the properties

- `UsedSpaceIsExact`, `CopyIsComplete` and `StoredBytesInPlace` hold only while
  `~lapped`; `HeaderFits` holds always, and is what keeps `fragment_memory`
  inside the buffer.
- `AcceptedBeforeShutdownIsWritten` speaks about places in the file, not about
  their content: that is `StoredRecordsAreReadBack`, which the code violates.
- `ShutdownDropsOnePerThread` bounds what the single test of `is_running` in `store`
  (`buffer_storage.hpp:153`) can cost; that a record can be dropped is what the code
  does. The bound is reached in the run: both writers lose one. It needs no `~lapped`:
  what a lap loses is lost in front of the last snapshot.
- `WorkerFinishes` holds although the notification of `is_running` can be lost,
  because of the timeout. `StopReturns` fails for the lack of one.
- `PeriodsGovernCollection` holds for the period thread alone. With
  `Forkers <- OneForker` it fails: `postfork_parent` (`fork_gotcha.cpp:105`)
  enables every category whatever it was before, so a fork during the delay, or
  between two periods, starts the collection. No run repeats this.
- `ForksLeaveCollectionOn` holds for one forking thread and fails with two.
- `ParserFindsTheRecords` holds up to the first header that was copied before it
  was written. What comes after it is what `torn_samples` is about. It speaks of the
  records with content: one whose value has size 0 is stored, and never handed over
  (`storage_parser.hpp:102`).
- `LockedCallFindsLibraryOpen` is claimed before the first fork: afterwards the
  library may be closed under a sampler that counts as initialized.
- `OneShutdownCloses` holds for any number of forks, and says that a shutdown found the
  sampler initialized, not that the library was open: after a fork it is not
  (`gpu_reinit`). It concerns samples under the lock; the first sample of each device
  in `config` is taken without it (`PollConfigCalls`).
- `DurationStopsSettledThreads` leaves out threads that were in their setup.
  `DurationStopsSampling`, which includes them, is what the setting promises; it
  is false once a fork has turned the switch on again.
- `OwnTraceIsWrittenOnce` and `EndedChildrenAreReported` suppose that one thread
  finalizes. With two, the second goes on before the storage is drained.
- `GrownContainersHoldThreads` leaves out the containers constructed since the
  first growth; `late_containers` shows why.
- `ChildStaysQuiet` is about a child that has not forked. If it forks,
  its own `postfork_parent` enables the categories of a finalized process.

## 6. Proofs

All for arbitrary constants that satisfy the named assumptions.

`BufferStorage_proofs` (assumption `SizesAssumption`):

| theorem | property |
| --- | --- |
| `RingTypeCorrect` | `RingTypeOK` |
| `FillerHeaderFits` | `HeaderFits` |
| `UsedSpaceExact` | `UsedSpaceIsExact` |
| `EveryReleasedByteIsCopied` | `CopyIsComplete` |
| `StoredBytesStay` | `StoredBytesInPlace` |
| `WritersNeverCollide` | `WritersAreDisjoint` |
| `RingImplementsTraceLog` | `RingSpec => ImplementsTraceLog` |

`RingTypeOK` is not inductive: `head \in 0 .. BufferSize` is preserved by
`Reserve` only because a header still fits behind the old head. `RingIInv` adds
`HeaderFits`, for head and tail, and `FlushInRing`: the copy in progress stands
on a cell and has at least one cell to go. The two exact properties need
`Accounting` in addition: while `~lapped`, the distance from `tail` to `head`
around the ring is `reserved - released`, less than `BufferSize`, and what the
flusher has still to copy is `released - Len(file)`. For each action the proof
splits on whether the reservation wraps, or on which side of the buffer's end
the copy is.

The last three theorems are about single bytes and rest on `LogIInv`:
`Accounting` with `SpanIInv` (records being stored are apart from each other, as
numbers of bytes) and `PlaceIInv` (while `~lapped`, every byte that a writer or the
flusher still needs is among the last `BufferSize` reserved, each writer is about
to write it where `CellOf` looks for it, and the others already hold it). The lemmas
about `CellOf` do the work: within a window of `BufferSize` bytes it is injective,
and a reservation, wrapped or not, gives its bytes the cells in order, so two
records that are apart as numbers are apart as cells. `WritersAreDisjoint` is not
inductive and needs all of it. The refinement is shown step by step: `Reserve`
accepts, `StoreHeader` and `Serialize` finish some pending bytes, `FlushCopy`
persists the next one, everything else stutters. As in the property, a step that
laps ends the obligation.

`FlushWorker_proofs` (no assumption; any set of callers):

| theorem | property |
| --- | --- |
| `WorkerTypeCorrect` | `WorkerTypeOK` |
| `JoinAfterClose` | `JoinFindsFileClosed` |
| `SequentialStopsAreSafe` | `CrashOnlyWhenStopsOverlap` |
| `FlushesIntoOpenFile` | `FileOpenWhileInUse` |

They follow from `WorkerInvariant`: `WorkerTypeOK`; a part that ties the stream
and `exit_finished` to the worker's stage and to how far `start` has come; and a
part that says that without an overlap at most one call is past the guard of
`stop` and that, while it is, the thread object exists. There is one lemma per
group of actions (start, worker, stop, fork).

`TraceCache_proofs` (assumptions `SizesAssumption` and `WritersAssumption`, a finite
number of writers; any number of callers of shutdown):

| theorem | property |
| --- | --- |
| `CacheTypeCorrect` | `CacheTypeOK` |
| `NothingIsLeftInTheRing` | `AcceptedBeforeShutdownIsWritten` |
| `ShutdownCostIsBounded` | `ShutdownDropsOnePerThread` |
| `RecordsAreFound` | `ParserFindsTheRecords` |
| `CacheImplementsRing` | `CacheSpec => RingSpec` |
| `CacheImplementsTraceLog` | `CacheSpec => ImplementsTraceLog` |

The proof is compositional: `StepsOfTheRing` and `StepsOfTheWorker` show that a
step of the composition is a step of each part or leaves it alone, so the parts'
invariants carry over without being proved again. `CouplingIInv` adds what only
the composition has: a copy is in progress only while the worker is inside
`flush`, and from its forced call on everything up to the mark is released,
because `flush` returns early only when `m_head = m_tail`, which until a lap
means an empty ring. `CacheImplementsTraceLog` is the two refinements in a row.

`ShutdownCostIsBounded` counts. `DropIInv` says that while `is_running` is FALSE the
samples reserved since it was cleared (`LateSamples`) and the writers that have passed
the test and not yet reserved (`Waiting`) are together no more than the writers: a
reservation moves its writer from the second set to the first, and nobody joins the
second. That a reservation adds one sample at most, although it may append a filler
too, and that none is late at the moment of the clearing (`Chained`), are the two
steps that take work.

`RecordsAreFound` is about a loop over a file of any length, and needs two things. The
first is `LayoutIInv`, what the headers say of where the records lie: the first record
begins at byte 1, each ends where the next one begins (`Chained`), and the flusher has
released whole records only, because `m_head` is moved and read under the same lock. A
reservation appends one record or a filler and a record, so `ChainGrows`, about one
record, is used once or twice.

The second is an induction from the end of the file to its beginning. The library's
induction theorems take a predicate as a parameter, which the provers cannot
instantiate; `DownwardInduction` takes a set instead, and follows from the well-founded
order of the natural numbers (`LeastNumber`). It is used three times. There is a function
that satisfies the recursive definition of `Load`, without which its value would be
arbitrary (`RoundsExist`, since a round only looks at later ones); every round returns a
sequence and an end (`RoundsReturnReads`); and, in `LoadFindsIntact`, from the i-th record
on the samples of the records i to n come first in what is returned. One step of the latter
has two halves: at the first byte of an intact record no other header is found
(`RecordIsRead`), and its sample goes in front of later ones (`OneMoreRecord`).

`ProcessSampler_proofs` (assumption `ForksAssumption`; any set of devices, any
number of forks):

| theorem | property |
| --- | --- |
| `SamplerTypeCorrect` | `SamplerTypeOK` |
| `NoCallAfterShutdown` | `LockedCallFindsLibraryOpen` |
| `OneLateRound` | `AtMostOneLateRound` |
| `ShutdownsCloseOnce` | `Spec => OneShutdownCloses` |
| `FailuresAreFinal` | `Spec => FailureDisablesSampling` |

The invariant `SamplerIInv` has, besides the types, `LockIInv` (who holds the lock
is where it is held), `PollIInv` (how far the main thread has come, against the
polling thread) and `LibraryIInv` (before the first fork, a sampler that is
active or initialized has an open library). `OneLateRound` needs that a round can
begin late only from the place behind the last test of the state. `ShutdownsCloseOnce`
needs `CloseIInv`: who is about to close the library found it initialized under the
lock it still holds. This holds across forks, when `LibraryIInv` says nothing any more.
`FailuresAreFinal`, an action property, needs `FailureIInv`: before the only
activation of `amd_smi` nothing is sampled, and after a failure the state is no longer
Active, whatever the setups and shutdowns around a fork do to it.

`CacheManager_proofs` (assumption `ProcessesAssumption`; any sets of children,
strangers and finalizers, infinite ones included):

| theorem | property |
| --- | --- |
| `ManagerTypeCorrect` | `ManagerTypeOK` |
| `ChildrenAreReadWhole` | `ChildFilesAreReadWhole` |
| `OwnTraceIsWhole` | `OwnTraceIsWrittenOnce` |
| `EndedChildrenAreKept` | `EndedChildrenAreReported` |
| `DirectoryIsCleared` | `OnlyLateChildrenLeaveFiles` |

`ChildIInv` ties the content of a child's files to its stage: there is no metadata
file before the storage is whole or removed. `ListIInv` carries this through the
time between listing and reading: whatever is listed as a pair, or configured,
belongs to a child whose storage is no longer partial.

The other three rest on `OutputIInv`. `FilesIInv` and `ClearIInv` follow a
file that was there at the listing: it is gone, or still on the list of what is to be
removed; files of other roots leave the list before anything is removed. `ConfigsIInv`
and `ReportsIInv` say that a process has one configuration and that this gives one
report in each format. `KeepIInv` says what a child's files hold until a finalizer has
come to the removal. `StorageIInv` and `EarlyIInv` hold for one finalizing thread
(`Alone`): a second one that was let through lists the directory before the storage is
drained. The properties count the finalizers with `Cardinality`, which means a number
only for a finite set; `IsFiniteSet(Busy)` is therefore part of the invariant, one
thread joining a step.

`CallStackSampler_proofs` (assumption `ThreadsAssumption`; any set of threads, any
number of forks):

| theorem | property |
| --- | --- |
| `CallStackTypeCorrect` | `SamplerTypeOK` |
| `DurationIsKept` | `DurationStopsSettledThreads` |
| `DurationEndsBeforeOutput` | `DurationThreadIsJoined` |
| `OutputIsUndisturbed` | `OutputFindsSamplersStopped` |

`MainIInv` and `StopIInv` tie the stages of the finalization and of the duration
thread to the state and to `running[Main]`, which is what the second caller of
`configure(false, 0)` finds. The core is `CoverIInv`: once the main thread's sampler no
longer counts as running, the samplers of all settled threads are stopped or one of the
two stoppers is still on its way through them, and behind its place none is started.
So the stopper that returns early because the other came first is covered as soon as
both have returned; the finalization knows that because it joins the duration thread
(`JoinIInv`). `SettledIInv` keeps a thread that is not `late` from building a sampler
afterwards.

`CollectionControl_proofs` (assumptions of `Categories`, `TraceWindow`, `ForkGotcha`; any
number of categories, any sequence of specifications, any threads that fork):

| theorem | property |
| --- | --- |
| `ControlTypeCorrect` | `ControlTypeOK` |
| `PeriodsAreRespected` | `PeriodsGovernCollection` |
| `ChildCollectsNothing` | `ChildStaysQuiet` |
| `ForkIsQuiet` | `ForkSeesNothingEnabled`, if at most one thread forks |
| `CollectionResumes` | `ForksLeaveCollectionOn`, if at most one thread forks |

A sweep changes one flag a step, so the flags are known between two of its steps only
up to its position: `Progress(a)`. `WindowIInv` says at each place of the period
thread what the flags are, and that nobody else sweeps before a fork or the
finalization. `ChildIInv` says that in a child only the forking thread is left and that
from the end of its first handler on the flags are clear. The last two theorems have
the hypothesis `\A t, u \in Forkers : t = u`, the assumption under which the run
checks them; with two forking threads they are false, because the flags that keep a
handler from running twice are shared. There `OneForkIInv` adds, for each place in
`fork()`, which of the wrapper and `pthread_atfork` runs the handler, which of
the two finds the flag taken, and what the categories and the samples then are
(`ForkPlace`). It holds for any number of calls of `fork()` one after the other.

`ThreadData_proofs` (assumptions `ChunkAssumption`, `ContainersAssumption`; any
chunk size and any number of threads):

| theorem | property |
| --- | --- |
| `DataTypeCorrect` | `DataTypeOK` |
| `StorageHoldsThreads` | `GrownContainersHoldThreads` |
| `PeakMatchesStorage` | `PeakIsTheSize` |
| `SizeCountsElements` | `ElementsAreConstructed` |
| `ResizeRunsTheLoop` | `Resize` is `EmplaceUpTo` after `Reserve` |

`VectorsIInv`: all chunks are full. `GrowthIInv`: during a growth a container
has one chunk more than the peak or still has to get it. `ThreadsIInv`: threads
beyond the peak have not passed. The arithmetic of `Grown` is a lemma about full
vectors, so that no induction over elements is needed there: `Resize` is given in closed
form. `ResizeRunsTheLoop` shows that this is what the source's `reserve` and its loop of
`emplace_back` (`EmplaceUpTo`) make of any vector, full or not, for any chunk size, and
that the size asked for is reached; it is an induction over the calls
(`UpwardInduction`), and TLC checks the same on small vectors (`ResizeIsTheLoop`).

Every invariant of the passing runs has a theorem, and so have the two refinements and
the safety properties about steps. The liveness properties (`WorkerFinishes`,
`ChildStopReturns`, `BacklogIsFlushed`, `ShutdownDrains`, `PeriodThreadEnds`,
`ShutdownReturns`, `FinalizationEnds`, `GrowthEnds`) rest on fairness, which the proof
system does not handle: they are only model-checked. Before its proof each inductive
invariant was checked as an invariant of instances like those of section 4; for
`LayoutIInv` this was one writer with bodies of 0 and 1 bytes.

## 7. Not modelled, and why

- **Signal handlers, timers, ROCm callbacks, binary rewriting**: they depend on the
  kernel and on libraries outside this repository.
- **Causal profiler** (`causal/`): the global delay and the threads' own counts are
  updated by unprotected check-then-add steps (`delay.cpp:117`, `:163`) that the
  algorithm tolerates as noise, so there is no exact invariant to state.
  `experiment.cpp:317` takes `front()` of a vector that may be empty.
- **Dynamic-loader front end** (`dl.cpp`): forwarding and per-thread counters with
  no other actor; `dl.cpp:755` raises the count of a disabled thread on a pop.
- **Output processors, metadata registry, configuration, command-line tools, binary
  analysis, Python bindings**: sequential conversion of data.
- **API wrappers** (MPI, NUMA, UCX, VA-API, mutexes): each records and forwards.

Inside modelled components: a record larger than the ring (excluded by
`SizesAssumption`; the code does not compare), a reader that indexes `m_chunks`
while `add_chunk` reallocates it (`stable_vector.hpp:303`) and a container that
registers its functor while a growth iterates them (`thread_data.hpp:71`), both
undefined behaviour; a fork while the polling thread holds the AMD SMI lock and a
second fork in that child (`amd_smi.cpp:1268`); the promise of
`pthread_create_gotcha` above the maximal number of threads (`:195`).

Steps that are coarser than the code, where no property depends on the difference:

- `CloseFile`: a `close` that fails (`buffer_storage.cpp:89`) leaves a flag in the stream
  that nobody reads; the thread goes on in the same way.
- `CacheManager!StopsStorage` tests and clears `is_running` in one step. `FlushWorker`
  has them apart and covers two stops that overlap.
- `PostforkParentLocks` unblocks the samples (`fork_gotcha.cpp:107`) and sets the handler's
  flag (`:110`) in one step.
- `LibraryCall` is all calls of the library that one sample of a device makes
  (`amd_smi.cpp:547-570`), with one outcome.
- `CallStackSampler` leaves out `get_duration_mutex` (`sampling.cpp:531`, `:573`), so a
  notification may come at more moments than in the code; and `ThreadTestsRunning`
  tests the flag of an ending thread (`:758`) and clears it (`:972`) in one step.

Most of the repository's lines are vendored headers, examples and the components
above, which hold data conversion rather than control; the map covers the code
whose order of steps matters.

## 8. Plan

Done: the trace cache from `store` to the parser and the shared directory; the
collection control with forks; both samplers; the per-thread storage; eight proof
modules, one for each component that has properties of its own, and a theorem for every
safety property that a passing run checks.

What would add most next, in this order:

1. A composition of all shutdowns in the order of `rocprofsys_finalize_hidden`, with
   its type invariant and the order of the shutdowns as theorems.
2. What holds of the flags with several forking threads: an invariant weaker than
   `ForksLeaveCollectionOn` that says which flags may be left off.
