----------------------------- MODULE TraceCache -----------------------------
(***************************************************************************)
(* The trace cache at run time: the ring of BufferStorage, drained by the  *)
(* thread of FlushWorker, fed by application threads and shut down by the  *)
(* finalization.  Composition of the two modules for one process; what     *)
(* FlushWorker does in a forked child is left to that module.              *)
(*                                                                         *)
(* store() tests is_running once, before it takes the lock: a record may   *)
(* be reserved after shutdown() has begun, or after it has returned.       *)
(* The file the worker leaves is read back with StorageParser.             *)
(***************************************************************************)
EXTENDS BufferStorage, FlushWorker, FiniteSets

Parser == INSTANCE StorageParser

\* The threads of a process can be counted.
ASSUME WritersAssumption == IsFiniteSet(Writers)

VARIABLES
    admitted,     \* the writers whose store() has seen is_running
    mark,         \* history: `reserved' when is_running was cleared
    stored,       \* history: the bytes whose store() had returned by then
    layout        \* history: what the headers say, in the order of the reservations

cacheVars == <<ringVars, workerVars, admitted, mark, stored, layout>>

CacheTypeOK ==
    /\ RingTypeOK
    /\ WorkerTypeOK
    /\ admitted \subseteq Writers
    /\ mark \in Nat
    /\ stored \subseteq 1 .. MaxReserved
    /\ layout \in Seq(Parser!Records(0 .. BufferSize))

CacheInit ==
    /\ RingInit
    /\ WorkerInit
    /\ admitted = {}
    /\ mark = 0
    /\ stored = {}
    /\ layout = <<>>

\* An exception in the worker thread or a join of no thread ends the process.
Dead == flush.stage = "failed" \/ Crashed

history == <<mark, stored, layout>>

-----------------------------------------------------------------------------
(* store(), by an application thread *)

\* A wrong form of StoreTestsRunning: a record is taken at any time.
StoreTestsNothing(w) ==
    /\ ~Dead
    /\ w \notin admitted
    /\ admitted' = admitted \cup {w}
    /\ UNCHANGED <<ringVars, workerVars, history>>

\* `if(!is_running()) throw': a writer that is refused is as it was before.
StoreTestsRunning(w) ==
    /\ ~Dead
    /\ w \notin admitted
    /\ is_running
    /\ admitted' = admitted \cup {w}
    /\ UNCHANGED <<ringVars, workerVars, history>>

\* A wrong form of FillerSize: the filler's own header is not subtracted.
FillerSizeWithHeader == BufferSize - head

\* fragment_memory's remaining_bytes.
FillerSize == BufferSize - head - HeaderSize

StoreReserves(w, n) ==
    /\ ~Dead
    /\ w \in admitted
    /\ Reserve(w, n)
    /\ layout' =
         layout \o (IF NeedsFragment(HeaderSize + n)
                   THEN <<[type |-> "fragmented_space", first |-> reserved + 1,
                           size |-> FillerSize]>>
                   ELSE <<>>)
                \o <<[type |-> "sample", first |-> store'[w].first, size |-> n]>>
    /\ UNCHANGED <<workerVars, admitted, mark, stored>>

StoreWritesHeader(w) ==
    /\ ~Dead
    /\ StoreHeader(w)
    /\ UNCHANGED <<workerVars, admitted, history>>

StoreReturns(w) ==
    /\ ~Dead
    /\ Serialize(w)
    /\ admitted' = admitted \ {w}
    /\ UNCHANGED <<workerVars, history>>

StoreNext(w) ==
    \/ StoreTestsRunning(w)
    \/ \E n \in SampleSizes : StoreReserves(w, n)
    \/ StoreWritesHeader(w)
    \/ StoreReturns(w)

-----------------------------------------------------------------------------
(* The worker thread, with flush() as its function *)

\* A wrong form of WorkerFlushes: the final flush is not forced.
WorkerFlushesUnforced(force) ==
    /\ ~Dead
    /\ CallFlush(force)
    /\ \/ FlushSnapshot(FALSE)
       \/ NothingToFlush(FALSE) /\ UNCHANGED ringVars
    /\ UNCHANGED <<admitted, history>>

\* flush() returns at once or takes its snapshot.
WorkerFlushes(force) ==
    /\ ~Dead
    /\ CallFlush(force)
    /\ \/ FlushSnapshot(force)
       \/ NothingToFlush(force) /\ UNCHANGED ringVars
    /\ UNCHANGED <<admitted, history>>

WorkerCopies ==
    /\ ~Dead
    /\ FlushCopy \/ FlushFails
    /\ UNCHANGED <<workerVars, admitted, history>>

WorkerFlushReturns ==
    /\ ~Dead
    /\ flush.stage = "idle"
    /\ FlushReturns
    /\ UNCHANGED <<ringVars, admitted, history>>

WorkerElse ==
    /\ ~Dead
    /\ \/ LoopTest
       \/ WaitTest \/ WaitBlocks \/ WaitTimesOut
       \/ CloseFile \/ SetExitFinished \/ NotifyExit
    /\ UNCHANGED <<ringVars, admitted, history>>

WorkerRuns ==
    \/ \E force \in BOOLEAN : WorkerFlushes(force)
    \/ WorkerCopies
    \/ WorkerFlushReturns
    \/ WorkerElse

-----------------------------------------------------------------------------
(* start() and shutdown() *)

CacheStarts ==
    /\ ~Dead
    /\ Start
    /\ UNCHANGED <<ringVars, admitted, history>>

ShutdownEnters(c) ==
    /\ ~Dead
    /\ StopEnters(c) \/ SpuriousWakeup(c)
    /\ UNCHANGED <<ringVars, admitted, history>>

\* The bytes of the record w is storing.
SpanOf(w) == IF store[w].stage = "idle" THEN {}
             ELSE store[w].first .. (store[w].first + HeaderSize + store[w].size - 1)

\* From here on store() refuses records; what was accepted before is due.
ShutdownClearsRunning(c) ==
    /\ ~Dead
    /\ StopClearsRunning(c)
    /\ mark' = IF is_running THEN reserved ELSE mark
    /\ stored' = IF is_running THEN (1 .. reserved) \ UNION {SpanOf(w) : w \in Writers}
                               ELSE stored
    /\ UNCHANGED <<ringVars, admitted, layout>>

ShutdownContinues(c) ==
    /\ ~Dead
    /\ StopNotifies(c) \/ StopTests(c) \/ StopBlocks(c) \/ StopJoins(c)
    /\ UNCHANGED <<ringVars, admitted, history>>

CacheNext ==
    \/ \E w \in Writers : StoreNext(w)
    \/ WorkerRuns
    \/ CacheStarts
    \/ \E c \in Callers : \/ ShutdownEnters(c)
                          \/ ShutdownClearsRunning(c)
                          \/ ShutdownContinues(c)

\* Threads are scheduled; a call of shutdown that has begun goes on.
CacheFairness ==
    /\ WF_cacheVars(WorkerRuns)
    /\ WF_cacheVars(CacheStarts)
    /\ \A c \in Callers :
          WF_cacheVars(ShutdownClearsRunning(c) \/ ShutdownContinues(c))

CacheSpec == CacheInit /\ [][CacheNext]_cacheVars /\ CacheFairness

-----------------------------------------------------------------------------
(* Properties *)

\* The worker thread has ended and the file is what the parser will read.
FileIsFinal == worker = "done" /\ ~Dead

\* As long as no writer laps the flusher, every byte reserved before shutdown()
\* cleared is_running has its place in the file when the worker thread ends:
\* only stores that raced with shutdown() can be dropped.
AcceptedBeforeShutdownIsWritten ==
    FileIsFinal /\ ~lapped => Len(file) >= mark

\* The records that came too late: reserved when is_running had been cleared, and
\* behind the last snapshot of flush().
DroppedSamples ==
    {i \in DOMAIN layout : /\ layout[i].type = "sample"
                           /\ layout[i].first > mark /\ layout[i].first > released}

\* What the race with shutdown() can cost is one record for each thread that stores:
\* the one it was about to reserve when is_running was cleared.  However late the
\* worker thread ends, no store() takes another one that nobody will flush.
ShutdownDropsOnePerThread ==
    FileIsFinal => Cardinality(DroppedSamples) =< Cardinality(Writers)

\* Once flush_threshold bytes wait in the ring they leave it without a shutdown.
BacklogIsFlushed ==
    is_running /\ reserved - released >= FlushThreshold
        ~> reserved - released < FlushThreshold \/ lapped \/ Dead

\* A shutdown gets every byte reserved before it to the file.
ShutdownDrains ==
    started = "yes" /\ ~is_running
        ~> (FileIsFinal /\ (Len(file) >= mark \/ lapped)) \/ Dead

\* The samples with content among the first n records, and whether the first k of
\* those handed over are these, in the order of their reservation.
SamplesOf(n) ==
    {layout[i].first :
       i \in {j \in 1 .. n : layout[j].type = "sample" /\ layout[j].size > 0}}

InOrder(samples, k, n) ==
    /\ {samples[i] : i \in 1 .. k} = SamplesOf(n)
    /\ \A i, j \in 1 .. k : i < j => samples[i] < samples[j]

\* The parser finds the records again, in the order of their reservation and
\* without the fillers, up to the first whose header was copied before it was
\* written; when there is none it comes to the end of the file, whether the
\* values are torn or not.
ParserFindsTheRecords ==
    FileIsFinal /\ ~lapped =>
      LET read    == Parser!Load(file, layout)
          written == {i \in DOMAIN layout : layout[i].first =< Len(file)}
      IN  \A n \in 0 .. Len(layout) :
            /\ 1 .. n \subseteq written
            /\ \A i \in 1 .. n : Parser!IsHeaderOf(layout[i], file, layout[i].first)
            => \E k \in 0 .. Len(read.samples) :
                 /\ InOrder(read.samples, k, n)
                 /\ written = 1 .. n => k = Len(read.samples) /\ read.end = "eof"

\* Every byte of a record whose store() returned before shutdown() has a place
\* in the file: nothing is missing.
NothingAcceptedIsLost == FileIsFinal => \A s \in stored : s =< Len(file)

\* Every record whose store() returned before shutdown() can be read back: each
\* of its bytes is at its place in the file.
StoredRecordsAreReadBack ==
    FileIsFinal => \A s \in stored : s =< Len(file) /\ file[s] = s
=============================================================================
