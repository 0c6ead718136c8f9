--------------------------- MODULE TraceCache_proofs ---------------------------
(***************************************************************************)
(* Proofs about the composed trace cache, for every number of writers and  *)
(* of callers of shutdown() and every choice of sizes.                     *)
(*                                                                         *)
(* Every step of the composition is a step of the ring or leaves it alone, *)
(* and the same holds of the flush worker, so the invariants proved about  *)
(* the two hold here.  CouplingIInv is what the composition adds: a copy   *)
(* is in progress only while the worker is inside flush(), and once the    *)
(* final flush has begun everything up to the mark has been released.      *)
(* LayoutIInv says how the records lie in the file, and the lemmas about   *)
(* load() follow the parser from the end of the file to its beginning.     *)
(***************************************************************************)
EXTENDS TraceCache, BufferStorage_proofs, FlushWorker_proofs, SequenceTheorems,
        FiniteSetTheorems, WellFoundedInduction

\* The worker stages in which the final flush has taken its snapshot.
Drained == {"finalizing", "close", "finish", "notify", "done"}

CouplingIInv ==
    /\ flush.stage # "idle" => worker \in {"flushing", "finalizing"}
    /\ mark \in Nat /\ mark =< reserved
    /\ worker \in Drained /\ ~lapped => mark =< released

CacheIInv == RingIInv /\ Accounting /\ WorkerIInv /\ CouplingIInv

-----------------------------------------------------------------------------
(* The composition takes the steps of its parts *)

\* store(), flush() and shutdown() touch the ring through its operations only.
LEMMA StepsOfTheRing == [CacheNext]_cacheVars => [RingNext]_ringVars
<1> SUFFICES ASSUME [CacheNext]_cacheVars PROVE [RingNext]_ringVars
  OBVIOUS
<1>1. ASSUME NEW w \in Writers, StoreNext(w) PROVE [RingNext]_ringVars
  <2>1. ASSUME NEW n \in SampleSizes, StoreReserves(w, n) PROVE RingNext
    BY <2>1 DEF StoreReserves, RingNext
  <2>2. CASE StoreTestsRunning(w)
    BY <2>2 DEF StoreTestsRunning
  <2>3. CASE StoreWritesHeader(w) \/ StoreReturns(w)
    BY <2>3 DEF StoreWritesHeader, StoreReturns, RingNext
  <2> QED
    BY <1>1, <2>1, <2>2, <2>3 DEF StoreNext
<1>2. CASE WorkerRuns
  <2>1. ASSUME NEW force \in BOOLEAN, WorkerFlushes(force) PROVE [RingNext]_ringVars
    BY <2>1 DEF WorkerFlushes, RingNext
  <2>2. CASE WorkerCopies
    BY <2>2 DEF WorkerCopies, RingNext
  <2>3. CASE WorkerFlushReturns \/ WorkerElse
    BY <2>3 DEF WorkerFlushReturns, WorkerElse
  <2> QED
    BY <1>2, <2>1, <2>2, <2>3 DEF WorkerRuns
<1>3. CASE CacheStarts
  BY <1>3 DEF CacheStarts
<1>4. ASSUME NEW c \in Callers,
             ShutdownEnters(c) \/ ShutdownClearsRunning(c) \/ ShutdownContinues(c)
      PROVE  UNCHANGED ringVars
  BY <1>4 DEF ShutdownEnters, ShutdownClearsRunning, ShutdownContinues
<1>5. CASE UNCHANGED cacheVars
  BY <1>5 DEF cacheVars
<1> QED
  BY <1>1, <1>2, <1>3, <1>4, <1>5 DEF CacheNext

\* The worker thread and the calls of start and stop are those of FlushWorker.
LEMMA StepsOfTheWorker == [CacheNext]_cacheVars => [WorkerNext]_workerVars
<1> SUFFICES ASSUME [CacheNext]_cacheVars PROVE [WorkerNext]_workerVars
  OBVIOUS
<1>1. ASSUME NEW w \in Writers, StoreNext(w) PROVE UNCHANGED workerVars
  BY <1>1 DEF StoreNext, StoreTestsRunning, StoreReserves, StoreWritesHeader,
              StoreReturns
<1>2. CASE WorkerRuns
  <2>1. ASSUME NEW force \in BOOLEAN, WorkerFlushes(force) PROVE WorkerNext
    BY <2>1 DEF WorkerFlushes, Work, WorkerNext
  <2>2. CASE WorkerCopies
    BY <2>2 DEF WorkerCopies
  <2>3. CASE WorkerFlushReturns \/ WorkerElse
    BY <2>3 DEF WorkerFlushReturns, WorkerElse, Work, WorkerNext
  <2> QED
    BY <1>2, <2>1, <2>2, <2>3 DEF WorkerRuns
<1>3. CASE CacheStarts
  BY <1>3 DEF CacheStarts, WorkerNext
<1>4. ASSUME NEW c \in Callers,
             ShutdownEnters(c) \/ ShutdownClearsRunning(c) \/ ShutdownContinues(c)
      PROVE  WorkerNext
  BY <1>4 DEF ShutdownEnters, ShutdownClearsRunning, ShutdownContinues,
              StopContinues, WorkerNext
<1>5. CASE UNCHANGED cacheVars
  BY <1>5 DEF cacheVars
<1> QED
  BY <1>1, <1>2, <1>3, <1>4, <1>5 DEF CacheNext
-----------------------------------------------------------------------------
(* The coupling of the two *)

\* What the types say of the variables the coupling speaks about.
LEMMA CouplingTypes ==
  ASSUME CacheIInv
  PROVE  /\ reserved \in Nat /\ released \in Nat /\ mark \in Nat
         /\ lapped \in BOOLEAN /\ flush \in FlushCalls
         /\ worker \in WorkerStages /\ mark =< reserved
BY DEF CacheIInv, RingIInv, RingTypeOK, WorkerIInv, WorkerTypeOK, CouplingIInv

\* store() reserves more bytes, and may lap; it releases none.
LEMMA StoreKeepsCoupling ==
  ASSUME CacheIInv, NEW w \in Writers, StoreNext(w)
  PROVE  CouplingIInv'
<1>1. ASSUME NEW n \in SampleSizes, StoreReserves(w, n) PROVE CouplingIInv'
  <2>1. head \in Nat /\ BufferSize \in Nat /\ HeaderSize \in Nat /\ n \in Nat
        /\ head =< BufferSize
    BY SizesAssumption DEF CacheIInv, RingIInv, RingTypeOK
  <2>2. reserved' >= reserved /\ (~lapped' => ~lapped)
    BY <1>1, <2>1, CouplingTypes DEF StoreReserves, Reserve
  <2>3. UNCHANGED <<flush, worker, mark, released>>
    BY <1>1 DEF StoreReserves, Reserve, workerVars
  <2>4. reserved' \in Nat
    BY <1>1, <2>1, CouplingTypes DEF StoreReserves, Reserve
  <2> QED
    BY <2>2, <2>3, <2>4, CouplingTypes DEF CacheIInv, CouplingIInv
<1>2. CASE StoreTestsRunning(w) \/ StoreWritesHeader(w) \/ StoreReturns(w)
  <2>1. UNCHANGED <<flush, worker, mark, reserved, released, lapped>>
    BY <1>2 DEF StoreTestsRunning, StoreWritesHeader, StoreReturns, StoreHeader,
                Serialize, ringVars, workerVars, history
  <2> QED
    BY <2>1 DEF CacheIInv, CouplingIInv
<1> QED
  BY <1>1, <1>2 DEF StoreNext

\* flush() releases everything reserved, or finds nothing that is not released:
\* after the forced one the mark is behind m_tail.
LEMMA FlushKeepsCoupling ==
  ASSUME CacheIInv, NEW force \in BOOLEAN, WorkerFlushes(force)
  PROVE  CouplingIInv'
<1>1. UNCHANGED <<mark, reserved, lapped>>
  BY DEF WorkerFlushes, FlushSnapshot, ringVars, history
<1>2. worker' = IF force THEN "finalizing" ELSE "flushing"
  BY DEF WorkerFlushes, CallFlush, WorkerStep
<1>3. CASE FlushSnapshot(force)
  <2>1. released' = reserved
    BY <1>3 DEF FlushSnapshot
  <2> QED
    BY <1>1, <1>2, <2>1, CouplingTypes DEF CacheIInv, CouplingIInv, Drained
<1>4. CASE NothingToFlush(force) /\ UNCHANGED ringVars
  <2>1. UNCHANGED <<flush, released>>
    BY <1>4 DEF ringVars
  <2>2. flush.stage = "idle" \/ worker \in {"flushing", "finalizing"}
    BY DEF CacheIInv, CouplingIInv
  <2>3. force /\ ~lapped => released = reserved
    <3>1. force => head = tail
      BY <1>4 DEF NothingToFlush
    <3>2. head \in Nat /\ tail \in Nat
      BY SizesAssumption DEF CacheIInv, RingIInv, RingTypeOK
    <3> QED
      BY <3>1, <3>2, CouplingTypes DEF CacheIInv, Accounting
  <2> QED
    BY <1>1, <1>2, <2>1, <2>2, <2>3, CouplingTypes DEF CacheIInv, CouplingIInv, Drained
<1> QED
  BY <1>3, <1>4 DEF WorkerFlushes

\* The rest of the worker's steps: the copy goes on inside flush(), which returns
\* when it is over.
LEMMA WorkerKeepsCoupling ==
  ASSUME CacheIInv, WorkerCopies \/ WorkerFlushReturns \/ WorkerElse
  PROVE  CouplingIInv'
<1>1. CASE WorkerCopies
  <2>1. UNCHANGED <<worker, mark, reserved, released, lapped>>
    BY <1>1 DEF WorkerCopies, FlushCopy, FlushFails, workerVars, history
  <2>2. flush.stage = "copying"
    BY <1>1 DEF WorkerCopies, FlushCopy, FlushFails
  <2> QED
    BY <2>1, <2>2 DEF CacheIInv, CouplingIInv
<1>2. CASE WorkerFlushReturns
  <2>1. flush.stage = "idle"
        /\ UNCHANGED <<flush, mark, reserved, released, lapped>>
    BY <1>2 DEF WorkerFlushReturns, ringVars, history
  <2>2. worker' \in Drained => worker \in Drained
    BY <1>2 DEF WorkerFlushReturns, FlushReturns, WorkerStep, Drained
  <2> QED
    BY <2>1, <2>2 DEF CacheIInv, CouplingIInv
<1>3. CASE WorkerElse
  <2>1. UNCHANGED <<flush, mark, reserved, released, lapped>>
    BY <1>3 DEF WorkerElse, ringVars, history
  <2>2. worker \notin {"flushing", "finalizing"}
    BY <1>3 DEF WorkerElse, LoopTest, WaitTest, WaitBlocks, WaitTimesOut, CloseFile,
                SetExitFinished, NotifyExit, WorkerStep
  <2>3. worker' \in Drained => worker \in Drained
    BY <1>3 DEF WorkerElse, LoopTest, WaitTest, WaitBlocks, WaitTimesOut, CloseFile,
                SetExitFinished, NotifyExit, WorkerStep, Drained
  <2> QED
    BY <2>1, <2>2, <2>3 DEF CacheIInv, CouplingIInv
<1> QED
  BY <1>1, <1>2, <1>3

\* start() creates the worker thread before anything is flushed or marked.
LEMMA StartKeepsCoupling ==
  ASSUME CacheIInv, CacheStarts
  PROVE  CouplingIInv'
<1>1. UNCHANGED <<flush, reserved, released, lapped, mark>>
  BY DEF CacheStarts, ringVars, history
<1>2. worker' = worker \/ (worker' = "test" /\ worker = "none")
  BY DEF CacheStarts, Start, StartOpens, StartThrows, StartSetsRunning,
         StartCreatesThread, CacheIInv, WorkerIInv, FileIInv
<1> QED
  BY <1>1, <1>2 DEF CacheIInv, CouplingIInv, Drained

\* The mark is set while is_running still holds, so the worker is in its loop.
LEMMA ShutdownKeepsCoupling ==
  ASSUME CacheIInv, NEW c \in Callers,
         ShutdownEnters(c) \/ ShutdownClearsRunning(c) \/ ShutdownContinues(c)
  PROVE  CouplingIInv'
<1>1. UNCHANGED <<flush, reserved, released, lapped>>
  BY DEF ShutdownEnters, ShutdownClearsRunning, ShutdownContinues, ringVars
<1>2. CASE ShutdownEnters(c) \/ ShutdownContinues(c)
  <2>1. UNCHANGED mark
    BY <1>2 DEF ShutdownEnters, ShutdownContinues, history
  <2>2. CASE StopEnters(c) \/ SpuriousWakeup(c)
    <3>1. UNCHANGED worker
      BY <2>2 DEF StopEnters, SpuriousWakeup
    <3> QED
      BY <1>1, <2>1, <3>1 DEF CacheIInv, CouplingIInv
  <2>3. CASE StopNotifies(c)
    <3>1. worker' = worker \/ (worker' = "test" /\ worker = "waiting")
      BY <2>3 DEF StopNotifies
    <3> QED
      BY <1>1, <2>1, <3>1 DEF CacheIInv, CouplingIInv, Drained
  <2>4. CASE StopTests(c) \/ StopBlocks(c) \/ StopJoins(c)
    <3>1. UNCHANGED worker
      BY <2>4 DEF StopTests, StopBlocks, StopJoins
    <3> QED
      BY <1>1, <2>1, <3>1 DEF CacheIInv, CouplingIInv
  <2> QED
    BY <1>2, <2>2, <2>3, <2>4 DEF ShutdownEnters, ShutdownContinues
<1>3. CASE ShutdownClearsRunning(c)
  <2>1. UNCHANGED worker /\ mark' = IF is_running THEN reserved ELSE mark
    BY <1>3 DEF ShutdownClearsRunning, StopClearsRunning
  <2>2. is_running => worker \notin Drained
    BY DEF CacheIInv, WorkerIInv, FileIInv, Ending, Drained
  <2> QED
    BY <1>1, <2>1, <2>2, CouplingTypes DEF CacheIInv, CouplingIInv
<1> QED
  BY <1>2, <1>3

\* The inductive invariant of the composition.
LEMMA CacheStepKeeps == CacheIInv /\ [CacheNext]_cacheVars => CacheIInv'
<1> SUFFICES ASSUME CacheIInv, [CacheNext]_cacheVars PROVE CacheIInv'
  OBVIOUS
<1>1. RingIInv' /\ Accounting'
  BY StepsOfTheRing, StepKeepsRing, StepKeepsAccounting DEF CacheIInv
<1>2. WorkerIInv'
  BY StepsOfTheWorker, WorkerStepKeeps DEF CacheIInv
<1>3. CouplingIInv'
  <2>1. CASE \E w \in Writers : StoreNext(w)
    BY <2>1, StoreKeepsCoupling
  <2>2. CASE WorkerRuns
    BY <2>2, FlushKeepsCoupling, WorkerKeepsCoupling DEF WorkerRuns
  <2>3. CASE CacheStarts
    BY <2>3, StartKeepsCoupling
  <2>4. CASE \E c \in Callers : ShutdownEnters(c) \/ ShutdownClearsRunning(c)
                                  \/ ShutdownContinues(c)
    BY <2>4, ShutdownKeepsCoupling
  <2>5. CASE UNCHANGED cacheVars
    BY <2>5 DEF cacheVars, ringVars, workerVars, CacheIInv, CouplingIInv
  <2> QED
    BY <2>1, <2>2, <2>3, <2>4, <2>5 DEF CacheNext
<1> QED
  BY <1>1, <1>2, <1>3 DEF CacheIInv

LEMMA CacheInitially == CacheInit => CacheIInv
<1> SUFFICES ASSUME CacheInit PROVE CacheIInv
  OBVIOUS
<1>1. RingIInv /\ WorkerIInv
  BY InitRing, WorkerInitially DEF CacheInit
<1>2. Accounting
  BY SizesAssumption DEF CacheInit, RingInit, Accounting, Uncopied, NoFlush
<1>3. CouplingIInv
  BY DEF CacheInit, RingInit, WorkerInit, NoFlush, CouplingIInv, Drained
<1> QED
  BY <1>1, <1>2, <1>3 DEF CacheIInv

\* The inductive invariant holds in every behaviour of the trace cache.
THEOREM CacheInvariant == CacheSpec => []CacheIInv
  BY CacheInitially, CacheStepKeeps, PTL DEF CacheSpec

-----------------------------------------------------------------------------
(* The types of the composition's own variables *)

HistoryIInv ==
    /\ admitted \subseteq Writers
    /\ reserved =< MaxReserved
    /\ stored \subseteq 1 .. MaxReserved
    /\ layout \in Seq(Parser!Records(0 .. BufferSize))

\* A reservation appends the headers it makes: the filler's size is not negative.
LEMMA ReserveKeepsHistory ==
  ASSUME CacheIInv, HistoryIInv, NEW w \in Writers, NEW n \in SampleSizes,
         StoreReserves(w, n)
  PROVE  HistoryIInv'
<1> DEFINE Types == Parser!Records(0 .. BufferSize)
           pad   == IF NeedsFragment(HeaderSize + n) THEN BufferSize - head ELSE 0
           fill  == [type |-> "fragmented_space", first |-> reserved + 1,
                     size |-> FillerSize]
           rec   == [type |-> "sample", first |-> store'[w].first, size |-> n]
<1>1. /\ head \in Nat /\ BufferSize \in Nat /\ HeaderSize \in Nat /\ n \in Nat
      /\ head + HeaderSize =< BufferSize /\ n =< BufferSize /\ reserved \in Nat
  BY SizesAssumption DEF CacheIInv, RingIInv, RingTypeOK, HeaderFits
<1>2. fill \in Types
  BY <1>1 DEF FillerSize, Parser!Records
<1>3. store'[w].first = reserved + pad + 1
  <2>1. store' = [store EXCEPT ![w] = [stage |-> "reserved",
                    first |-> reserved + pad + 1,
                    at |-> IF NeedsFragment(HeaderSize + n) THEN 0 ELSE head,
                    size |-> n]]
    BY DEF StoreReserves, Reserve
  <2>2. store \in [Writers -> StoreCalls]
    BY DEF CacheIInv, RingIInv, RingTypeOK
  <2> QED
    BY <2>1, <2>2
<1>4. rec \in Types
  <2>1. reserved + pad + 1 \in Nat \ {0}
    BY <1>1
  <2> HIDE DEF pad
  <2> QED
    BY <1>1, <1>3, <2>1 DEF Parser!Records
<1>5. layout' \in Seq(Types)
  <2>1. layout' = layout \o (IF NeedsFragment(HeaderSize + n) THEN <<fill>> ELSE <<>>)
                         \o <<rec>>
    BY DEF StoreReserves
  <2>2. layout \in Seq(Types)
    BY DEF HistoryIInv
  <2> HIDE DEF fill, rec, Types
  <2> QED
    BY <1>2, <1>4, <2>1, <2>2
<1>6. reserved' =< MaxReserved
  BY DEF StoreReserves, Reserve
<1>7. UNCHANGED stored /\ admitted' \subseteq Writers
  BY DEF StoreReserves, HistoryIInv
<1> QED
  BY <1>5, <1>6, <1>7 DEF HistoryIInv

\* The bytes stored before shutdown() are among the reserved ones.
LEMMA ClearKeepsHistory ==
  ASSUME CacheIInv, HistoryIInv, NEW c \in Callers, ShutdownClearsRunning(c)
  PROVE  HistoryIInv'
<1>1. UNCHANGED <<admitted, reserved, layout>>
  BY DEF ShutdownClearsRunning, ringVars
<1>2. 1 .. reserved \subseteq 1 .. MaxReserved
  BY SizesAssumption DEF HistoryIInv, CacheIInv, RingIInv, RingTypeOK
<1>3. stored' \subseteq 1 .. MaxReserved
  BY <1>2 DEF ShutdownClearsRunning, HistoryIInv
<1> QED
  BY <1>1, <1>3 DEF HistoryIInv

LEMMA StepKeepsHistory ==
  CacheIInv /\ HistoryIInv /\ [CacheNext]_cacheVars => HistoryIInv'
<1> SUFFICES ASSUME CacheIInv, HistoryIInv, [CacheNext]_cacheVars PROVE HistoryIInv'
  OBVIOUS
<1>1. ASSUME NEW w \in Writers, StoreNext(w) PROVE HistoryIInv'
  <2>1. ASSUME NEW n \in SampleSizes, StoreReserves(w, n) PROVE HistoryIInv'
    BY <2>1, ReserveKeepsHistory
  <2>2. CASE StoreTestsRunning(w) \/ StoreWritesHeader(w) \/ StoreReturns(w)
    BY <2>2 DEF StoreTestsRunning, StoreWritesHeader, StoreReturns, StoreHeader,
                Serialize, ringVars, history, HistoryIInv
  <2> QED
    BY <1>1, <2>1, <2>2 DEF StoreNext
<1>2. CASE WorkerRuns
  <2>1. UNCHANGED <<admitted, reserved, history>>
    BY <1>2 DEF WorkerRuns, WorkerFlushes, FlushSnapshot, WorkerCopies, FlushCopy,
                FlushFails, WorkerFlushReturns, WorkerElse, ringVars
  <2> QED
    BY <2>1 DEF history, HistoryIInv
<1>3. CASE CacheStarts
  BY <1>3 DEF CacheStarts, ringVars, history, HistoryIInv
<1>4. ASSUME NEW c \in Callers, ShutdownEnters(c) \/ ShutdownContinues(c)
      PROVE  HistoryIInv'
  BY <1>4 DEF ShutdownEnters, ShutdownContinues, ringVars, history, HistoryIInv
<1>5. ASSUME NEW c \in Callers, ShutdownClearsRunning(c) PROVE HistoryIInv'
  BY <1>5, ClearKeepsHistory
<1>6. CASE UNCHANGED cacheVars
  BY <1>6 DEF cacheVars, ringVars, HistoryIInv
<1> QED
  BY <1>1, <1>2, <1>3, <1>4, <1>5, <1>6 DEF CacheNext

-----------------------------------------------------------------------------
(* Induction over the bytes of a file, by a least counterexample *)

LEMMA LeastNumber ==
  ASSUME NEW T, T \subseteq Nat, T # {}
  PROVE  \E n \in T : \A m \in T : n =< m
<1> DEFINE R == {ss \in Nat \X Nat : ss[1] < ss[2]}
<1>1. OpToRel(<, Nat) = R
  BY DEF OpToRel
<1>2. IsWellFoundedOn(R, Nat)
  BY <1>1, NatLessThanWellFounded
<1>3. PICK n \in T : \A m \in T : ~ (<<m, n>> \in R)
  <2> HIDE DEF R
  <2> QED
    BY <1>2, WFMin
<1>4. ASSUME NEW m \in T PROVE n =< m
  <2>1. n \in Nat /\ m \in Nat /\ ~ (<<m, n>> \in R)
    BY <1>3
  <2>2. ~ (m < n)
    BY <2>1
  <2> QED
    BY <2>1, <2>2
<1> QED
  BY <1>3, <1>4, Zenon

\* What holds of a number when it holds of all between it and the bound holds up to
\* the bound.
LEMMA DownwardInduction ==
  ASSUME NEW N \in Nat, NEW T,
         \A p \in 1 .. N : (\A q \in (p + 1) .. N : q \in T) => p \in T
  PROVE  1 .. N \subseteq T
<1> SUFFICES ASSUME NEW p \in 1 .. N, p \notin T PROVE FALSE
  OBVIOUS
<1> DEFINE Distances == {d \in 0 .. N : N - d \in 1 .. N /\ N - d \notin T}
<1>1. N - p \in Distances
  <2>1. N - p \in 0 .. N /\ N - (N - p) = p
    OBVIOUS
  <2> QED
    BY <2>1
<1>2. PICK d \in Distances : \A e \in Distances : d =< e
  <2>1. Distances \subseteq Nat
    OBVIOUS
  <2>2. Distances # {}
    BY <1>1, Zenon
  <2> HIDE DEF Distances
  <2> QED
    BY <2>1, <2>2, LeastNumber
<1>3. N - d \in 1 .. N /\ N - d \notin T /\ d \in 0 .. N
  BY <1>2
<1>4. ASSUME NEW q \in (N - d + 1) .. N PROVE q \in T
  <2>1. N - q \in 0 .. N /\ N - (N - q) = q /\ q \in 1 .. N /\ ~ (d =< N - q)
    BY <1>3
  <2>2. N - q \notin Distances
    BY <1>2, <2>1
  <2> QED
    BY <2>1, <2>2
<1> QED
  BY <1>3, <1>4

-----------------------------------------------------------------------------
(* load() is what its rounds return *)

Reads == [samples : Seq(Nat), end : {"eof", "lost", "bad read"}]

Layouts == Seq(Parser!Records(0 .. BufferSize))

\* The record a round reads at p, and where the next one begins.
HeaderAt(f, l, p) == CHOOSE i \in Parser!HeadersAt(f, l, p) : TRUE

After(f, l, p) == p + HeaderSize + l[HeaderAt(f, l, p)].size

\* A record is handed over in front of what the later rounds return, or skipped.
HandOver(r, later) ==
    IF Parser!Skips(r) THEN later ELSE [later EXCEPT !.samples = <<r.first>> \o @]

\* What a round that reads a record makes of what the later rounds return.
ReadAt(f, l, p, later) ==
    IF Parser!HeadersAt(f, l, p) = {} THEN Parser!Returns("lost")
    ELSE IF After(f, l, p) > Len(f) + 1 THEN Parser!Returns("bad read")
    ELSE HandOver(l[HeaderAt(f, l, p)], later)

\* The cases of a round, one by one.
RoundIs(f, l, from, p) ==
    /\ p + HeaderSize > Len(f) + 1 =>
         Parser!Round(f, l, from, p) = Parser!Returns("eof")
    /\ p + HeaderSize =< Len(f) + 1 /\ Parser!IsZero(f, p) =>
         Parser!Round(f, l, from, p) = from[p + HeaderSize]
    /\ p + HeaderSize =< Len(f) + 1 /\ ~Parser!IsZero(f, p) =>
         Parser!Round(f, l, from, p) = ReadAt(f, l, p, from[After(f, l, p)])

LEMMA RoundCases ==
  ASSUME NEW f, Len(f) \in Nat, NEW l, NEW p \in 1 .. Len(f) + 1, NEW from
  PROVE  RoundIs(f, l, from, p)
<1>1. HeaderSize \in Nat \ {0}
  BY SizesAssumption
<1>2. ~ (p + HeaderSize > Len(f) + 1 /\ p + HeaderSize =< Len(f) + 1)
  BY <1>1
<1> DEFINE more == ReadAt(f, l, p, from[After(f, l, p)])
<1>3. Parser!Round(f, l, from, p) =
        CASE p + HeaderSize > Len(f) + 1 -> Parser!Returns("eof")
          [] p + HeaderSize =< Len(f) + 1 /\ Parser!IsZero(f, p) -> from[p + HeaderSize]
          [] p + HeaderSize =< Len(f) + 1 /\ ~Parser!IsZero(f, p) -> more
  BY Zenon DEF Parser!Round, ReadAt, HandOver, HeaderAt, After
<1> HIDE DEF more
<1>4. p + HeaderSize > Len(f) + 1 => Parser!Round(f, l, from, p) = Parser!Returns("eof")
  BY <1>2, <1>3
<1>5. p + HeaderSize =< Len(f) + 1 /\ Parser!IsZero(f, p) =>
        Parser!Round(f, l, from, p) = from[p + HeaderSize]
  BY <1>2, <1>3
<1>6. p + HeaderSize =< Len(f) + 1 /\ ~Parser!IsZero(f, p) =>
        Parser!Round(f, l, from, p) = more
  BY <1>2, <1>3
<1> QED
  BY <1>4, <1>5, <1>6, Zenon DEF more, RoundIs

\* A record that is read is one of the layout, and the round goes on behind it.
LEMMA HeaderFound ==
  ASSUME NEW f \in Seq(Nat), NEW l \in Layouts, NEW p \in 1 .. Len(f) + 1,
         Parser!HeadersAt(f, l, p) # {}
  PROVE  /\ HeaderAt(f, l, p) \in DOMAIN l
         /\ Parser!IsHeaderOf(l[HeaderAt(f, l, p)], f, p)
         /\ l[HeaderAt(f, l, p)].first \in Nat /\ l[HeaderAt(f, l, p)].size \in Nat
         /\ After(f, l, p) \in Nat /\ After(f, l, p) > p
<1> DEFINE i == HeaderAt(f, l, p)
<1>1. i \in DOMAIN l /\ Parser!IsHeaderOf(l[i], f, p)
  BY DEF HeaderAt, Parser!HeadersAt
<1>2. l[i].first \in Nat /\ l[i].size \in Nat
  <2>1. l[i] \in Parser!Records(0 .. BufferSize)
    <3> HIDE DEF i
    <3> QED
      BY <1>1 DEF Layouts
  <2> HIDE DEF i
  <2> QED
    BY <2>1, SizesAssumption DEF Parser!Records
<1> HIDE DEF i
<1>3. After(f, l, p) = p + HeaderSize + l[i].size
  BY DEF After, i
<1>4. After(f, l, p) \in Nat /\ After(f, l, p) > p
  BY <1>2, <1>3, SizesAssumption
<1> QED
  BY <1>1, <1>2, <1>4 DEF i

\* A round goes on at a later byte.
LEMMA RoundLooksAhead ==
  ASSUME NEW f \in Seq(Nat), NEW l \in Layouts, NEW p \in 1 .. Len(f) + 1,
         NEW g, NEW h, \A q \in (p + 1) .. (Len(f) + 1) : g[q] = h[q]
  PROVE  Parser!Round(f, l, g, p) = Parser!Round(f, l, h, p)
<1>1. HeaderSize \in Nat \ {0} /\ Len(f) \in Nat
  BY SizesAssumption
<1>0. RoundIs(f, l, g, p) /\ RoundIs(f, l, h, p)
  BY <1>1, RoundCases
<1>2. CASE p + HeaderSize > Len(f) + 1
  BY <1>0, <1>1, <1>2 DEF RoundIs
<1>3. CASE p + HeaderSize =< Len(f) + 1 /\ Parser!IsZero(f, p)
  <2>1. p + HeaderSize \in (p + 1) .. (Len(f) + 1)
    BY <1>1, <1>3
  <2> QED
    BY <1>0, <1>1, <1>3, <2>1 DEF RoundIs
<1>4. CASE p + HeaderSize =< Len(f) + 1 /\ ~Parser!IsZero(f, p)
  <2> DEFINE next == After(f, l, p)
  <2>0. /\ Parser!Round(f, l, g, p) = ReadAt(f, l, p, g[next])
        /\ Parser!Round(f, l, h, p) = ReadAt(f, l, p, h[next])
    BY <1>0, <1>4 DEF RoundIs
  <2>1. CASE Parser!HeadersAt(f, l, p) = {}
    BY <2>0, <2>1, Zenon DEF ReadAt
  <2>2. CASE Parser!HeadersAt(f, l, p) # {} /\ next > Len(f) + 1
    <3>1. \A later : ReadAt(f, l, p, later) = Parser!Returns("bad read")
      BY <2>2, Zenon DEF ReadAt
    <3> QED
      BY <2>0, <3>1, Zenon
  <2>3. CASE Parser!HeadersAt(f, l, p) # {} /\ ~ (next > Len(f) + 1)
    <3>1. next \in Nat /\ next > p
      BY <2>3, HeaderFound
    <3> HIDE DEF next
    <3>2. next \in (p + 1) .. (Len(f) + 1)
      BY <1>1, <2>3, <3>1
    <3>3. g[next] = h[next]
      BY <3>2
    <3> QED
      BY <2>0, <3>3, Zenon
  <2> QED
    BY <2>1, <2>2, <2>3, Zenon
<1> QED
  BY <1>1, <1>2, <1>3, <1>4

\* The rounds from byte m on; load() begins with the first.
Rounds(f, l, m, from) ==
    /\ from = [p \in m .. (Len(f) + 1) |-> from[p]]
    /\ \A p \in m .. (Len(f) + 1) : from[p] = Parser!Round(f, l, from, p)

LEMMA RoundsExist ==
  ASSUME NEW f \in Seq(Nat), NEW l \in Layouts
  PROVE  \E from : Rounds(f, l, 1, from)
<1> DEFINE N == Len(f) + 1
           Good == {m \in 1 .. N : \E from : Rounds(f, l, m, from)}
<1>1. N \in Nat /\ N >= 1
  OBVIOUS
<1>2. ASSUME NEW m \in 1 .. N, \A q \in (m + 1) .. N : q \in Good
      PROVE  m \in Good
  <2>1. PICK later : \A p \in (m + 1) .. N : later[p] = Parser!Round(f, l, later, p)
    <3>1. CASE m = N
      BY <1>1, <3>1
    <3>2. CASE m # N
      <4>1. m + 1 \in Good
        BY <1>1, <1>2, <3>2
      <4> QED
        BY <4>1 DEF Rounds
    <3> QED
      BY <3>1, <3>2
  <2> DEFINE from == [p \in m .. N |-> IF p = m THEN Parser!Round(f, l, later, m)
                                                ELSE later[p]]
  <2>2. \A p \in (m + 1) .. N : from[p] = later[p]
    BY <1>1
  <2>3. from[m] = Parser!Round(f, l, later, m)
    BY <1>1
  <2>4. from = [p \in m .. N |-> from[p]]
    OBVIOUS
  <2> HIDE DEF from
  <2>5. ASSUME NEW p \in m .. N PROVE from[p] = Parser!Round(f, l, from, p)
    <3>1. p \in 1 .. Len(f) + 1 /\ \A q \in (p + 1) .. (Len(f) + 1) : from[q] = later[q]
      BY <1>1, <2>2
    <3>2. Parser!Round(f, l, from, p) = Parser!Round(f, l, later, p)
      BY <3>1, RoundLooksAhead
    <3>3. from[p] = Parser!Round(f, l, later, p)
      BY <1>1, <2>1, <2>2, <2>3
    <3> QED
      BY <3>2, <3>3
  <2> QED
    BY <2>4, <2>5 DEF Rounds
<1>3. 1 .. N \subseteq Good
  <2> HIDE DEF Good
  <2> QED
    BY <1>1, <1>2, DownwardInduction
<1> QED
  BY <1>1, <1>3

\* load() returns what its first round does.
LEMMA LoadIsRounds ==
  ASSUME NEW f \in Seq(Nat), NEW l \in Layouts
  PROVE  \E from : Rounds(f, l, 1, from) /\ Parser!Load(f, l) = from[1]
<1> DEFINE from == CHOOSE g : g = [p \in 1 .. (Len(f) + 1) |-> Parser!Round(f, l, g, p)]
<1>1. \E g : g = [p \in 1 .. (Len(f) + 1) |-> Parser!Round(f, l, g, p)]
  <2>1. PICK g : Rounds(f, l, 1, g)
    BY RoundsExist
  <2> QED
    BY <2>1 DEF Rounds
<1>2. Parser!Load(f, l) = from[1]
  BY DEF Parser!Load
<1> HIDE DEF from
<1>3. from = [p \in 1 .. (Len(f) + 1) |-> Parser!Round(f, l, from, p)]
  BY <1>1 DEF from
<1>4. Rounds(f, l, 1, from)
  BY <1>3, Zenon DEF Rounds
<1> QED
  BY <1>2, <1>4

\* What a round hands over in front of what the later rounds do.
LEMMA ReadsGrow ==
  ASSUME NEW v \in Reads, NEW x \in Nat
  PROVE  /\ [v EXCEPT !.samples = <<x>> \o @] \in Reads
         /\ [v EXCEPT !.samples = <<x>> \o @].samples = <<x>> \o v.samples
         /\ [v EXCEPT !.samples = <<x>> \o @].end = v.end
<1>0. <<x>> \in Seq(Nat)
  OBVIOUS
<1>1. v.samples \in Seq(Nat)
  BY DEF Reads
<1>2. <<x>> \o v.samples \in Seq(Nat)
  <2> DEFINE one == <<x>>
  <2> HIDE DEF one
  <2> QED
    BY <1>0, <1>1, ConcatProperties DEF one
<1> QED
  BY <1>1, <1>2 DEF Reads

\* Every round returns samples and a way the loop ends.
LEMMA RoundsReturnReads ==
  ASSUME NEW f \in Seq(Nat), NEW l \in Layouts, NEW from, Rounds(f, l, 1, from)
  PROVE  \A p \in 1 .. (Len(f) + 1) : from[p] \in Reads
<1> DEFINE N == Len(f) + 1
           Good == {p \in 1 .. N : from[p] \in Reads}
<1>1. N \in Nat /\ HeaderSize \in Nat \ {0}
  BY SizesAssumption
<1>2. ASSUME NEW p \in 1 .. N, \A q \in (p + 1) .. N : q \in Good
      PROVE  from[p] \in Reads
  <2>1. from[p] = Parser!Round(f, l, from, p)
    BY DEF Rounds
  <2>2. RoundIs(f, l, from, p)
    BY RoundCases
  <2>3. ASSUME NEW how \in {"eof", "lost", "bad read"}
        PROVE  Parser!Returns(how) \in Reads
    <3>1. << >> \in Seq(Nat)
      BY EmptySeq
    <3> QED
      BY <3>1, Zenon DEF Parser!Returns, Reads
  <2>4. CASE p + HeaderSize > Len(f) + 1
    BY <2>1, <2>2, <2>3, <2>4 DEF RoundIs
  <2>5. CASE p + HeaderSize =< Len(f) + 1 /\ Parser!IsZero(f, p)
    <3>1. p + HeaderSize \in (p + 1) .. N
      BY <1>1, <2>5
    <3>2. from[p + HeaderSize] \in Reads
      BY <1>2, <3>1
    <3> QED
      BY <2>1, <2>2, <2>5, <3>2 DEF RoundIs
  <2>6. CASE p + HeaderSize =< Len(f) + 1 /\ ~Parser!IsZero(f, p)
    <3> DEFINE next == After(f, l, p)
               r == l[HeaderAt(f, l, p)]
    <3>1. from[p] = ReadAt(f, l, p, from[next])
      BY <2>1, <2>2, <2>6 DEF RoundIs
    <3>2. CASE Parser!HeadersAt(f, l, p) = {}
      BY <2>3, <3>1, <3>2, Zenon DEF ReadAt
    <3>3. CASE Parser!HeadersAt(f, l, p) # {} /\ next > Len(f) + 1
      <4>1. from[p] = Parser!Returns("bad read")
        BY <3>1, <3>3, Zenon DEF ReadAt
      <4> QED
        BY <2>3, <4>1
    <3>4. CASE Parser!HeadersAt(f, l, p) # {} /\ ~ (next > Len(f) + 1)
      <4>1. next \in (p + 1) .. N /\ r.first \in Nat
        BY <1>1, <3>4, HeaderFound
      <4>2. from[next] \in Reads
        BY <1>2, <4>1
      <4>3. from[p] \in {from[next], [from[next] EXCEPT !.samples = <<r.first>> \o @]}
        BY <3>1, <3>4, Zenon DEF ReadAt, HandOver
      <4>4. [from[next] EXCEPT !.samples = <<r.first>> \o @] \in Reads
        <5> HIDE DEF next, r
        <5> QED
          BY <4>1, <4>2, ReadsGrow
      <4> QED
        BY <4>2, <4>3, <4>4
    <3> QED
      BY <3>2, <3>3, <3>4
  <2> QED
    BY <1>1, <2>4, <2>5, <2>6
<1>3. \A p \in 1 .. N : (\A q \in (p + 1) .. N : q \in Good) => p \in Good
  BY <1>2
<1>4. 1 .. N \subseteq Good
  <2> HIDE DEF Good
  <2> QED
    BY <1>1, <1>3, DownwardInduction
<1> QED
  BY <1>4

-----------------------------------------------------------------------------
(* The layout of the records *)

\* The first byte of the i-th record, or the one behind the last record.
StartOf(l, top, i) == IF i \in DOMAIN l THEN l[i].first ELSE top + 1

\* The records follow one another without a gap.
Chained(l, top) ==
    /\ StartOf(l, top, 1) = 1
    /\ \A i \in DOMAIN l :
         /\ StartOf(l, top, i + 1) = l[i].first + HeaderSize + l[i].size
         /\ StartOf(l, top, i + 1) =< top + 1
    /\ \A i, j \in DOMAIN l : i < j => StartOf(l, top, i + 1) =< l[j].first

\* The headers describe what is reserved, and the flusher has released whole
\* records only.
LayoutIInv ==
    /\ Chained(layout, reserved)
    /\ \E i \in 1 .. Len(layout) + 1 : StartOf(layout, reserved, i) = released + 1

\* One more record behind the last.
LEMMA ChainGrows ==
  ASSUME NEW l \in Layouts, NEW top \in Nat, Chained(l, top),
         NEW r \in Parser!Records(0 .. BufferSize), r.first = top + 1
  PROVE  /\ l \o <<r>> \in Layouts
         /\ Len(l \o <<r>>) = Len(l) + 1
         /\ top + HeaderSize + r.size \in Nat
         /\ Chained(l \o <<r>>, top + HeaderSize + r.size)
         /\ \A i \in 1 .. Len(l) + 1 :
              StartOf(l \o <<r>>, top + HeaderSize + r.size, i) = StartOf(l, top, i)
<1> DEFINE m == l \o <<r>>
           high == top + HeaderSize + r.size
<1>1. HeaderSize \in Nat \ {0} /\ r.size \in Nat
  BY SizesAssumption DEF Parser!Records
<1>2. m \in Layouts /\ Len(m) = Len(l) + 1 /\ DOMAIN m = 1 .. Len(l) + 1 /\ Len(l) \in Nat
      /\ DOMAIN l = 1 .. Len(l)
  BY DEF Layouts
<1>3. \A i \in DOMAIN l : m[i] = l[i]
  BY DEF Layouts
<1>4. m[Len(l) + 1] = r
  BY DEF Layouts
<1> HIDE DEF m
<1>5. high \in Nat /\ high > top
  BY <1>1
<1>6. ASSUME NEW i \in 1 .. Len(l) + 1
      PROVE  StartOf(m, high, i) = StartOf(l, top, i)
  <2>1. CASE i \in DOMAIN l
    BY <1>2, <1>3, <2>1 DEF StartOf
  <2>2. CASE i = Len(l) + 1
    BY <1>2, <1>4, <2>2 DEF StartOf
  <2> QED
    BY <1>2, <2>1, <2>2
<1>7. StartOf(m, high, Len(l) + 2) = high + 1
  BY <1>2 DEF StartOf
<1>8. \A i \in DOMAIN l : l[i].first \in Nat /\ l[i].size \in Nat
  <2>1. \A i \in DOMAIN l : l[i] \in Parser!Records(0 .. BufferSize)
    BY DEF Layouts
  <2> QED
    BY <2>1, SizesAssumption DEF Parser!Records
<1> HIDE DEF high
<1>9. ASSUME NEW i \in DOMAIN m
      PROVE  /\ StartOf(m, high, i + 1) = m[i].first + HeaderSize + m[i].size
             /\ StartOf(m, high, i + 1) =< high + 1
  <2>1. CASE i \in DOMAIN l
    <3>1. i + 1 \in 1 .. Len(l) + 1
      BY <1>2, <2>1
    <3>2. StartOf(l, top, i + 1) = l[i].first + HeaderSize + l[i].size
          /\ StartOf(l, top, i + 1) =< top + 1
      BY <2>1 DEF Chained
    <3> QED
      BY <1>1, <1>3, <1>5, <1>6, <1>8, <2>1, <3>1, <3>2
  <2>2. CASE i = Len(l) + 1
    <3>1. i + 1 = Len(l) + 2 /\ m[i] = r
      BY <1>2, <1>4, <2>2
    <3>2. r.first + HeaderSize + r.size = high + 1
      BY <1>1 DEF high
    <3> QED
      BY <1>5, <1>7, <3>1, <3>2
  <2> QED
    BY <1>2, <2>1, <2>2
<1>10. ASSUME NEW i \in DOMAIN m, NEW j \in DOMAIN m, i < j
       PROVE  StartOf(m, high, i + 1) =< m[j].first
  <2>1. i \in DOMAIN l /\ i + 1 \in 1 .. Len(l) + 1
    BY <1>2, <1>10
  <2>2. CASE j \in DOMAIN l
    BY <1>3, <1>6, <1>10, <2>1, <2>2 DEF Chained
  <2>3. CASE j = Len(l) + 1
    BY <1>4, <1>6, <2>1, <2>3 DEF Chained
  <2> QED
    BY <1>2, <2>2, <2>3
<1>11. StartOf(m, high, 1) = 1
  BY <1>2, <1>6 DEF Chained
<1> QED
  BY <1>2, <1>5, <1>6, <1>9, <1>10, <1>11, Zenon DEF Chained, high, m

\* A reservation adds its record, behind a filler where one is needed.
LEMMA ReserveKeepsLayout ==
  ASSUME CacheIInv, HistoryIInv, LayoutIInv, NEW w \in Writers, NEW n \in SampleSizes,
         StoreReserves(w, n)
  PROVE  LayoutIInv'
<1> DEFINE Types == Parser!Records(0 .. BufferSize)
           pad   == IF NeedsFragment(HeaderSize + n) THEN BufferSize - head ELSE 0
           fill  == [type |-> "fragmented_space", first |-> reserved + 1,
                     size |-> FillerSize]
           rec   == [type |-> "sample", first |-> store'[w].first, size |-> n]
<1>1. /\ head \in Nat /\ BufferSize \in Nat /\ HeaderSize \in Nat \ {0} /\ n \in Nat
      /\ head + HeaderSize =< BufferSize /\ n =< BufferSize
      /\ reserved \in Nat /\ released \in Nat
  BY SizesAssumption DEF CacheIInv, RingIInv, RingTypeOK, HeaderFits
<1>2. store'[w].first = reserved + pad + 1
  <2>1. store' = [store EXCEPT ![w] = [stage |-> "reserved",
                    first |-> reserved + pad + 1,
                    at |-> IF NeedsFragment(HeaderSize + n) THEN 0 ELSE head,
                    size |-> n]]
    BY DEF StoreReserves, Reserve
  <2>2. store \in [Writers -> StoreCalls]
    BY DEF CacheIInv, RingIInv, RingTypeOK
  <2> QED
    BY <2>1, <2>2
<1>3. reserved' = reserved + pad + HeaderSize + n /\ released' = released
  BY <1>1 DEF StoreReserves, Reserve
<1>4. pad \in Nat
  BY <1>1
<1>5. rec \in Types /\ rec.first = reserved + pad + 1 /\ rec.size = n
  <2> HIDE DEF pad
  <2> QED
    BY <1>1, <1>2, <1>4 DEF Parser!Records
<1>6. layout \in Layouts
  BY DEF HistoryIInv, Layouts
<1>7. PICK i \in 1 .. Len(layout) + 1 : StartOf(layout, reserved, i) = released + 1
  BY DEF LayoutIInv
<1>8. CASE NeedsFragment(HeaderSize + n)
  <2> DEFINE filled == layout \o <<fill>>
  <2>1. fill \in Types /\ fill.first = reserved + 1
        /\ reserved + HeaderSize + fill.size = reserved + pad
    BY <1>1, <1>8 DEF FillerSize, Parser!Records
  <2>2. /\ filled \in Layouts /\ Len(filled) = Len(layout) + 1
        /\ Chained(filled, reserved + pad)
        /\ StartOf(filled, reserved + pad, i) = released + 1
    <3> HIDE DEF fill, pad, Types
    <3> QED
      BY <1>1, <1>6, <1>7, <2>1, ChainGrows DEF LayoutIInv, Types
  <2>3. layout' = filled \o <<rec>>
    BY <1>8 DEF StoreReserves
  <2>4. /\ Chained(filled \o <<rec>>, reserved + pad + HeaderSize + n)
        /\ Len(filled \o <<rec>>) = Len(filled) + 1
        /\ StartOf(filled \o <<rec>>, reserved + pad + HeaderSize + n, i) = released + 1
    <3>1. i \in 1 .. Len(filled) + 1 /\ reserved + pad \in Nat
      BY <1>1, <1>4, <1>6, <2>2 DEF Layouts
    <3> HIDE DEF filled, rec, pad, Types
    <3> QED
      BY <1>5, <2>2, <3>1, ChainGrows DEF Types
  <2>5. i \in 1 .. Len(layout') + 1
    BY <1>6, <2>2, <2>3, <2>4 DEF Layouts
  <2> QED
    BY <1>3, <2>3, <2>4, <2>5, Zenon DEF LayoutIInv
<1>9. CASE ~NeedsFragment(HeaderSize + n)
  <2>1. pad = 0
    BY <1>9
  <2>2. layout' = layout \o <<rec>>
    <3>1. layout \o <<>> = layout
      BY <1>6, ConcatEmptySeq DEF Layouts
    <3> QED
      BY <1>9, <3>1 DEF StoreReserves
  <2>3. /\ Chained(layout \o <<rec>>, reserved + HeaderSize + n)
        /\ Len(layout \o <<rec>>) = Len(layout) + 1
        /\ StartOf(layout \o <<rec>>, reserved + HeaderSize + n, i) = released + 1
    <3>1. rec.first = reserved + 1
      BY <1>1, <1>5, <2>1
    <3> HIDE DEF rec, pad, Types
    <3> QED
      BY <1>1, <1>5, <1>6, <1>7, <3>1, ChainGrows DEF LayoutIInv, Types
  <2>4. i \in 1 .. Len(layout') + 1
    BY <1>6, <2>2, <2>3 DEF Layouts
  <2>5. reserved' = reserved + HeaderSize + n
    BY <1>1, <1>3, <2>1
  <2> QED
    BY <1>3, <2>2, <2>3, <2>4, <2>5, Zenon DEF LayoutIInv
<1> QED
  BY <1>8, <1>9

\* flush() releases everything reserved; all else leaves the records alone.
LEMMA StepKeepsLayout ==
  CacheIInv /\ HistoryIInv /\ LayoutIInv /\ [CacheNext]_cacheVars => LayoutIInv'
<1> SUFFICES ASSUME CacheIInv, HistoryIInv, LayoutIInv, [CacheNext]_cacheVars
             PROVE  LayoutIInv'
  OBVIOUS
<1>0. ASSUME UNCHANGED <<layout, reserved, released>> PROVE LayoutIInv'
  BY <1>0 DEF LayoutIInv
<1>1. ASSUME NEW w \in Writers, StoreNext(w) PROVE LayoutIInv'
  <2>1. ASSUME NEW n \in SampleSizes, StoreReserves(w, n) PROVE LayoutIInv'
    BY <2>1, ReserveKeepsLayout
  <2>2. CASE StoreTestsRunning(w) \/ StoreWritesHeader(w) \/ StoreReturns(w)
    BY <1>0, <2>2 DEF StoreTestsRunning, StoreWritesHeader, StoreReturns, StoreHeader,
                      Serialize, ringVars, history
  <2> QED
    BY <1>1, <2>1, <2>2 DEF StoreNext
<1>2. CASE WorkerRuns
  <2>1. UNCHANGED <<layout, reserved>> /\ released' \in {released, reserved}
    BY <1>2 DEF WorkerRuns, WorkerFlushes, FlushSnapshot, WorkerCopies, FlushCopy,
                FlushFails, WorkerFlushReturns, WorkerElse, ringVars, history
  <2>2. CASE released' = reserved
    <3>1. Len(layout) + 1 \in 1 .. Len(layout) + 1 /\ Len(layout) + 1 \notin DOMAIN layout
      BY DEF HistoryIInv
    <3>2. StartOf(layout, reserved, Len(layout) + 1) = reserved + 1
      BY <3>1 DEF StartOf
    <3> QED
      BY <2>1, <2>2, <3>1, <3>2, Zenon DEF LayoutIInv
  <2> QED
    BY <1>0, <2>1, <2>2
<1>3. CASE CacheStarts
  BY <1>0, <1>3 DEF CacheStarts, ringVars, history
<1>4. ASSUME NEW c \in Callers,
             ShutdownEnters(c) \/ ShutdownClearsRunning(c) \/ ShutdownContinues(c)
      PROVE  LayoutIInv'
  BY <1>0, <1>4 DEF ShutdownEnters, ShutdownClearsRunning, ShutdownContinues, ringVars,
                    history
<1>5. CASE UNCHANGED cacheVars
  BY <1>0, <1>5 DEF cacheVars, ringVars
<1> QED
  BY <1>1, <1>2, <1>3, <1>4, <1>5 DEF CacheNext

-----------------------------------------------------------------------------
(* What a shutdown can drop *)

\* The samples reserved after is_running was cleared, and the writers that have passed
\* the test of is_running and have still to reserve.
LateSamples ==
    {i \in DOMAIN layout : layout[i].type = "sample" /\ layout[i].first > mark}

Waiting == {w \in admitted : store[w].stage = "idle"}

\* A writer that waits will make one more late sample, and no other writer can.
DropIInv ==
    ~is_running => Cardinality(LateSamples) + Cardinality(Waiting) =< Cardinality(Writers)

LEMMA SetsAreFinite ==
  ASSUME CacheIInv, HistoryIInv
  PROVE  /\ IsFiniteSet(LateSamples) /\ IsFiniteSet(Waiting)
         /\ Cardinality(LateSamples) \in Nat /\ Cardinality(Waiting) \in Nat
         /\ Cardinality(Writers) \in Nat
         /\ Cardinality(Waiting) =< Cardinality(Writers)
<1>1. IsFiniteSet(LateSamples)
  <2>1. Len(layout) \in Nat /\ DOMAIN layout = 1 .. Len(layout)
    BY DEF HistoryIInv
  <2>2. IsFiniteSet(1 .. Len(layout))
    BY <2>1, FS_Interval
  <2> QED
    BY <2>1, <2>2, FS_Subset DEF LateSamples
<1>2. Waiting \subseteq Writers
  BY DEF Waiting, HistoryIInv
<1>3. IsFiniteSet(Waiting) /\ Cardinality(Waiting) =< Cardinality(Writers)
  BY <1>2, WritersAssumption, FS_Subset
<1> QED
  BY <1>1, <1>3, WritersAssumption, FS_CardinalityType

\* A reservation moves its writer from those that wait to the late samples; the filler
\* in front of it is no sample.
LEMMA ReserveKeepsDrops ==
  ASSUME CacheIInv, HistoryIInv, DropIInv, NEW w \in Writers, NEW n \in SampleSizes,
         StoreReserves(w, n)
  PROVE  DropIInv'
<1> SUFFICES ASSUME ~is_running'
             PROVE  Cardinality(LateSamples') + Cardinality(Waiting') =< Cardinality(Writers)
  BY DEF DropIInv
<1>1. UNCHANGED <<is_running, admitted, mark>>
  BY DEF StoreReserves, workerVars
<1>2. w \in Waiting /\ Waiting' = Waiting \ {w}
  <2>1. /\ w \in admitted /\ store[w].stage = "idle" /\ admitted \subseteq Writers
        /\ store \in [Writers -> StoreCalls]
    BY DEF StoreReserves, Reserve, HistoryIInv, CacheIInv, RingIInv, RingTypeOK
  <2>2. store'[w].stage # "idle" /\ \A v \in Writers \ {w} : store'[v] = store[v]
    <3>1. store' = [store EXCEPT ![w] = [stage |-> "reserved",
                      first |-> reserved + (IF NeedsFragment(HeaderSize + n)
                                              THEN BufferSize - head ELSE 0) + 1,
                      at |-> IF NeedsFragment(HeaderSize + n) THEN 0 ELSE head,
                      size |-> n]]
      BY DEF StoreReserves, Reserve
    <3> QED
      BY <2>1, <3>1
  <2> QED
    BY <1>1, <2>1, <2>2 DEF Waiting
<1>3. LateSamples' \subseteq LateSamples \cup {Len(layout')}
  <2> DEFINE Types == Parser!Records(0 .. BufferSize)
             fill  == [type |-> "fragmented_space", first |-> reserved + 1,
                       size |-> FillerSize]
             rec   == [type |-> "sample", first |-> store'[w].first, size |-> n]
             All   == Types \cup {fill, rec}
  <2>1. layout \in Seq(All) /\ <<fill>> \in Seq(All) /\ <<rec>> \in Seq(All)
    <3>1. layout \in Seq(Types)
      BY DEF HistoryIInv
    <3> HIDE DEF Types, fill, rec
    <3> QED
      BY <3>1
  <2>2. layout' = layout \o (IF NeedsFragment(HeaderSize + n) THEN <<fill>> ELSE <<>>)
                         \o <<rec>>
    BY DEF StoreReserves
  <2>3. fill.type # "sample"
    OBVIOUS
  <2>4. ASSUME NEW i \in DOMAIN layout', i # Len(layout'),
               layout'[i].type = "sample"
        PROVE  i \in DOMAIN layout /\ layout'[i] = layout[i]
    <3> HIDE DEF rec, fill, All
    <3>1. CASE ~NeedsFragment(HeaderSize + n)
      <4>1. layout' = layout \o <<rec>>
        <5>1. layout \o <<>> = layout
          BY <2>1, ConcatEmptySeq
        <5> QED
          BY <2>2, <3>1, <5>1
      <4> QED
        BY <2>1, <2>4, <4>1
    <3>2. CASE NeedsFragment(HeaderSize + n)
      <4>1. layout' = layout \o <<fill>> \o <<rec>>
        BY <2>2, <3>2
      <4> DEFINE filled == layout \o <<fill>>
      <4>2. /\ filled \in Seq(All) /\ Len(filled) = Len(layout) + 1
            /\ filled[Len(layout) + 1] = fill
            /\ \A j \in 1 .. Len(layout) : filled[j] = layout[j]
        BY <2>1
      <4> HIDE DEF filled
      <4>3. i \in 1 .. Len(filled) /\ layout'[i] = filled[i]
        BY <2>1, <2>4, <4>1, <4>2 DEF filled
      <4>4. i # Len(layout) + 1
        BY <2>3, <2>4, <4>2, <4>3
      <4> QED
        BY <2>1, <4>2, <4>3, <4>4
    <3> QED
      BY <3>1, <3>2
  <2> HIDE DEF fill, rec, All, Types
  <2> QED
    BY <1>1, <2>4 DEF LateSamples
<1>4. /\ IsFiniteSet(LateSamples \cup {Len(layout')})
      /\ Cardinality(LateSamples \cup {Len(layout')}) \in Nat
      /\ Cardinality(LateSamples \cup {Len(layout')}) =< Cardinality(LateSamples) + 1
  <2> DEFINE last == Len(layout')
  <2> HIDE DEF last
  <2>1. /\ IsFiniteSet(LateSamples \cup {last})
        /\ Cardinality(LateSamples \cup {last}) =
             IF last \in LateSamples THEN Cardinality(LateSamples)
                                     ELSE Cardinality(LateSamples) + 1
    BY SetsAreFinite, FS_AddElement
  <2>2. /\ IsFiniteSet(LateSamples \cup {last})
        /\ Cardinality(LateSamples \cup {last}) \in Nat
        /\ Cardinality(LateSamples \cup {last}) =< Cardinality(LateSamples) + 1
    BY <2>1, SetsAreFinite
  <2> QED
    BY <2>2 DEF last
<1>5. /\ Cardinality(LateSamples') =< Cardinality(LateSamples) + 1
      /\ Cardinality(LateSamples') \in Nat
  BY <1>3, <1>4, SetsAreFinite, FS_Subset, FS_CardinalityType
<1>6. Cardinality(Waiting') = Cardinality(Waiting) - 1
  BY <1>2, SetsAreFinite, FS_RemoveElement
<1> QED
  BY <1>1, <1>5, <1>6, SetsAreFinite DEF DropIInv

\* When shutdown() clears is_running no reservation is late, and at most every writer
\* waits.
LEMMA ClearKeepsDrops ==
  ASSUME CacheIInv, HistoryIInv, LayoutIInv, DropIInv, NEW c \in Callers,
         ShutdownClearsRunning(c)
  PROVE  DropIInv'
<1>1. UNCHANGED <<admitted, store, layout>>
  BY DEF ShutdownClearsRunning, ringVars
<1>2. CASE is_running
  <2>1. mark' = reserved
    BY <1>2 DEF ShutdownClearsRunning
  <2>2. \A i \in DOMAIN layout : layout[i].first =< reserved
    <3> TAKE i \in DOMAIN layout
    <3>1. layout[i].first + HeaderSize + layout[i].size =< reserved + 1
      BY DEF LayoutIInv, Chained
    <3>2. layout[i] \in Parser!Records(0 .. BufferSize)
      BY DEF HistoryIInv
    <3>3. /\ layout[i].first \in Nat /\ layout[i].size \in Nat
          /\ HeaderSize \in Nat \ {0} /\ reserved \in Nat
      BY <3>2, SizesAssumption, CouplingTypes DEF Parser!Records
    <3> QED
      BY <3>1, <3>3
  <2>3. LateSamples' = {}
    <3>1. \A i \in DOMAIN layout : layout[i].first \in Nat /\ reserved \in Nat
      <4> TAKE i \in DOMAIN layout
      <4>1. layout[i] \in Parser!Records(0 .. BufferSize)
        BY DEF HistoryIInv
      <4> QED
        BY <4>1, CouplingTypes DEF Parser!Records
    <3> QED
      BY <1>1, <2>1, <2>2, <3>1 DEF LateSamples
  <2>4. Cardinality(LateSamples') = 0 /\ Waiting' = Waiting
    BY <1>1, <2>3, FS_EmptySet DEF Waiting
  <2> QED
    BY <2>4, SetsAreFinite DEF DropIInv
<1>3. CASE ~is_running
  <2>1. mark' = mark
    BY <1>3 DEF ShutdownClearsRunning
  <2>2. LateSamples' = LateSamples /\ Waiting' = Waiting
    BY <1>1, <2>1 DEF LateSamples, Waiting
  <2> QED
    BY <1>3, <2>2 DEF DropIInv
<1> QED
  BY <1>2, <1>3

LEMMA StepKeepsDrops ==
  CacheIInv /\ HistoryIInv /\ LayoutIInv /\ DropIInv /\ [CacheNext]_cacheVars => DropIInv'
<1> SUFFICES ASSUME CacheIInv, HistoryIInv, LayoutIInv, DropIInv, [CacheNext]_cacheVars
             PROVE  DropIInv'
  OBVIOUS
<1>0. ASSUME UNCHANGED <<layout, mark, store, admitted>>,
             is_running' = is_running \/ is_running' = TRUE
      PROVE  DropIInv'
  BY <1>0 DEF DropIInv, LateSamples, Waiting
<1>1. ASSUME NEW w \in Writers, StoreNext(w) PROVE DropIInv'
  <2>1. ASSUME NEW n \in SampleSizes, StoreReserves(w, n) PROVE DropIInv'
    BY <2>1, ReserveKeepsDrops
  <2>2. CASE StoreTestsRunning(w)
    BY <2>2 DEF StoreTestsRunning, workerVars, DropIInv
  <2>3. CASE StoreWritesHeader(w) \/ StoreReturns(w)
    <3>1. UNCHANGED <<layout, mark, is_running>>
      BY <2>3 DEF StoreWritesHeader, StoreReturns, workerVars, history
    <3>2. Waiting' = Waiting
      <4>1. store \in [Writers -> StoreCalls] /\ admitted \subseteq Writers
        BY DEF CacheIInv, RingIInv, RingTypeOK, HistoryIInv
      <4>2. CASE StoreWritesHeader(w)
        <5>1. /\ store' = [store EXCEPT ![w].stage = "headed"]
              /\ store[w].stage = "reserved" /\ admitted' = admitted
          BY <4>2 DEF StoreWritesHeader, StoreHeader
        <5>2. store'[w].stage # "idle" /\ \A v \in Writers \ {w} : store'[v] = store[v]
          BY <4>1, <5>1 DEF StoreCalls
        <5> QED
          BY <4>1, <5>1, <5>2 DEF Waiting
      <4>3. CASE StoreReturns(w)
        <5>1. /\ store' = [store EXCEPT ![w] = NoStore]
              /\ store[w].stage = "headed" /\ admitted' = admitted \ {w}
          BY <4>3 DEF StoreReturns, Serialize
        <5>2. \A v \in Writers \ {w} : store'[v] = store[v]
          BY <4>1, <5>1
        <5> QED
          BY <4>1, <5>1, <5>2 DEF Waiting
      <4> QED
        BY <2>3, <4>2, <4>3
    <3> QED
      BY <3>1, <3>2 DEF DropIInv, LateSamples
  <2> QED
    BY <1>1, <2>1, <2>2, <2>3 DEF StoreNext
<1>2. CASE WorkerRuns
  <2>1. UNCHANGED <<layout, mark, store, admitted, is_running>>
    BY <1>2 DEF WorkerRuns, WorkerFlushes, CallFlush, FlushSnapshot, WorkerCopies,
                FlushCopy, FlushFails, WorkerFlushReturns, FlushReturns, WorkerElse,
                LoopTest, WaitTest, WaitBlocks, WaitTimesOut, CloseFile,
                SetExitFinished, NotifyExit, ringVars, workerVars, history
  <2> QED
    BY <1>0, <2>1
<1>3. CASE CacheStarts
  BY <1>0, <1>3 DEF CacheStarts, Start, StartOpens, StartThrows, StartSetsRunning,
                    StartCreatesThread, ringVars, history
<1>4. ASSUME NEW c \in Callers, ShutdownEnters(c) \/ ShutdownContinues(c)
      PROVE  DropIInv'
  BY <1>0, <1>4 DEF ShutdownEnters, ShutdownContinues, StopEnters, SpuriousWakeup,
                    StopNotifies, StopTests, StopBlocks, StopJoins, ringVars, history
<1>5. ASSUME NEW c \in Callers, ShutdownClearsRunning(c) PROVE DropIInv'
  BY <1>5, ClearKeepsDrops
<1>6. CASE UNCHANGED cacheVars
  BY <1>0, <1>6 DEF cacheVars, ringVars, workerVars
<1> QED
  BY <1>1, <1>2, <1>3, <1>4, <1>5, <1>6 DEF CacheNext

-----------------------------------------------------------------------------
(* What load() finds *)

\* The samples among the records i to n that are not empty.
SamplesFrom(l, i, n) ==
    {l[a].first : a \in {b \in i .. n : l[b].type = "sample" /\ l[b].size > 0}}

\* The first k samples handed over are those of a set, in ascending order.
Ascending(s, k, S) ==
    /\ {s[a] : a \in 1 .. k} = S
    /\ \A a, b \in 1 .. k : a < b => s[a] < s[b]

\* The samples of the records i to n come first in what is read, and are all of it when
\* there is no record behind them.
Found(read, l, i, n, all) ==
    \E k \in 0 .. Len(read.samples) :
       /\ Ascending(read.samples, k, SamplesFrom(l, i, n))
       /\ all => k = Len(read.samples) /\ read.end = "eof"

LEMMA OneMoreInFront ==
  ASSUME NEW s \in Seq(Nat), NEW x \in Nat, NEW k \in 0 .. Len(s), NEW S,
         Ascending(s, k, S), \A y \in S : x < y
  PROVE  /\ Len(<<x>> \o s) = Len(s) + 1
         /\ Ascending(<<x>> \o s, k + 1, {x} \cup S)
<1> DEFINE one == <<x>>
           t   == one \o s
<1>0. one \in Seq(Nat) /\ Len(one) = 1 /\ one[1] = x
  OBVIOUS
<1>1. /\ Len(t) = Len(s) + 1
      /\ \A a \in 1 .. Len(s) + 1 : t[a] = IF a =< 1 THEN one[a] ELSE s[a - 1]
  <2>1. /\ Len(t) = Len(one) + Len(s)
        /\ \A a \in 1 .. Len(one) + Len(s) :
             t[a] = IF a =< Len(one) THEN one[a] ELSE s[a - Len(one)]
    <3> HIDE DEF one
    <3> QED
      BY <1>0, ConcatProperties, Zenon
  <2>2. Len(s) \in Nat /\ 1 + Len(s) = Len(s) + 1
    OBVIOUS
  <2> HIDE DEF one, t
  <2> QED
    BY <1>0, <2>1, <2>2
<1>2. t[1] = x /\ Len(s) \in Nat
  BY <1>0, <1>1
<1>3. \A a \in 1 .. k : t[a + 1] = s[a]
  BY <1>1, <1>2
<1>4. \A a \in 1 .. k : s[a] \in S
  BY DEF Ascending
<1> HIDE DEF t
<1>5. ASSUME NEW a \in 2 .. k + 1
      PROVE  a - 1 \in 1 .. k /\ t[a] = s[a - 1]
  <2>1. a - 1 \in 1 .. k /\ (a - 1) + 1 = a
    BY <1>2
  <2> QED
    BY <1>3, <2>1
<1>6. {t[a] : a \in 1 .. k + 1} = {x} \cup S
  <2>1. ASSUME NEW a \in 1 .. k + 1 PROVE t[a] \in {x} \cup S
    <3>1. CASE a = 1
      BY <1>2, <3>1
    <3>2. CASE a # 1
      <4>1. a \in 2 .. k + 1
        BY <3>2
      <4> QED
        BY <1>4, <1>5, <4>1
    <3> QED
      BY <3>1, <3>2
  <2>2. ASSUME NEW y \in S PROVE \E a \in 1 .. k + 1 : t[a] = y
    <3>1. PICK a \in 1 .. k : s[a] = y
      BY DEF Ascending
    <3>2. a + 1 \in 1 .. k + 1
      BY <1>2
    <3> QED
      BY <1>3, <3>1, <3>2
  <2>3. 1 \in 1 .. k + 1
    BY <1>2
  <2> QED
    BY <1>2, <2>1, <2>2, <2>3
<1>7. ASSUME NEW a \in 1 .. k + 1, NEW b \in 1 .. k + 1, a < b
      PROVE  t[a] < t[b]
  <2>1. b \in 2 .. k + 1
    BY <1>7
  <2>2. CASE a = 1
    BY <1>2, <1>4, <1>5, <2>1, <2>2
  <2>3. CASE a # 1
    <3>1. a \in 2 .. k + 1
      BY <2>3
    <3>2. a - 1 < b - 1
      BY <1>7
    <3> QED
      BY <1>5, <2>1, <3>1, <3>2 DEF Ascending
  <2> QED
    BY <2>2, <2>3
<1> QED
  BY <1>1, <1>6, <1>7 DEF Ascending, t

\* What the layout says of a record.
LEMMA ChainTypes ==
  ASSUME NEW l \in Layouts
  PROVE  /\ DOMAIN l = 1 .. Len(l) /\ Len(l) \in Nat
         /\ \A i \in DOMAIN l : /\ l[i].first \in Nat \ {0} /\ l[i].size \in Nat
                                /\ l[i].type \in {"sample", "fragmented_space"}
<1>1. \A i \in DOMAIN l : l[i] \in Parser!Records(0 .. BufferSize)
  BY DEF Layouts
<1>2. DOMAIN l = 1 .. Len(l) /\ Len(l) \in Nat
  BY DEF Layouts
<1> QED
  BY <1>1, <1>2, SizesAssumption DEF Parser!Records

\* Each record ends where the next one begins, or before a later one.
LEMMA ChainStep ==
  ASSUME NEW l \in Layouts, NEW top \in Nat, Chained(l, top),
         NEW i \in DOMAIN l, NEW j \in (i + 1) .. Len(l) + 1
  PROVE  /\ StartOf(l, top, i) = l[i].first
         /\ StartOf(l, top, i + 1) = l[i].first + HeaderSize + l[i].size
         /\ StartOf(l, top, i + 1) =< StartOf(l, top, j)
         /\ l[i].first < StartOf(l, top, j)
<1>1. DOMAIN l = 1 .. Len(l) /\ Len(l) \in Nat
  BY ChainTypes
<1>2. l[i].first \in Nat /\ l[i].size \in Nat /\ HeaderSize \in Nat \ {0}
  BY ChainTypes, SizesAssumption
<1>3. StartOf(l, top, i) = l[i].first
  BY DEF StartOf
<1>4. StartOf(l, top, i + 1) = l[i].first + HeaderSize + l[i].size
  BY DEF Chained
<1>5. StartOf(l, top, i + 1) =< StartOf(l, top, j)
  <2>1. CASE j \in DOMAIN l
    <3>1. i < j
      BY <1>1
    <3>2. StartOf(l, top, i + 1) =< l[j].first
      BY <2>1, <3>1 DEF Chained
    <3> QED
      BY <2>1, <3>2 DEF StartOf
  <2>2. CASE j \notin DOMAIN l
    <3>1. StartOf(l, top, i + 1) =< top + 1
      BY DEF Chained
    <3> QED
      BY <2>2, <3>1 DEF StartOf
  <2> QED
    BY <2>1, <2>2
<1>6. StartOf(l, top, j) \in Nat
  BY ChainTypes DEF StartOf
<1>7. l[i].first < StartOf(l, top, j)
  <2> DEFINE first == l[i].first
             size  == l[i].size
             after == StartOf(l, top, j)
  <2>1. first \in Nat /\ size \in Nat /\ after \in Nat
        /\ first + HeaderSize + size =< after
    BY <1>2, <1>4, <1>5, <1>6
  <2> HIDE DEF first, size, after
  <2>2. first < after
    BY <1>2, <2>1
  <2> QED
    BY <2>2 DEF first, after
<1> QED
  BY <1>3, <1>4, <1>5, <1>7

\* No two records begin at the same byte.
LEMMA ChainDistinct ==
  ASSUME NEW l \in Layouts, NEW top \in Nat, Chained(l, top),
         NEW i \in DOMAIN l, NEW j \in DOMAIN l, l[i].first = l[j].first
  PROVE  i = j
<1>1. DOMAIN l = 1 .. Len(l) /\ Len(l) \in Nat /\ l[i].first \in Nat
  BY ChainTypes
<1>2. \A a, b \in DOMAIN l : a < b => l[a].first < l[b].first
  <2> SUFFICES ASSUME NEW a \in DOMAIN l, NEW b \in DOMAIN l, a < b
               PROVE  l[a].first < l[b].first
    OBVIOUS
  <2>1. b \in (a + 1) .. Len(l) + 1
    BY <1>1
  <2>2. l[a].first < StartOf(l, top, b)
    BY <2>1, ChainStep
  <2> QED
    BY <2>2 DEF StartOf
<1>3. ~ (i < j) /\ ~ (j < i)
  BY <1>1, <1>2
<1> QED
  BY <1>1, <1>3

\* The first n records of a file: their headers are there, and the file ends behind
\* them or behind a later record.
Intact(f, l, top, n) ==
    /\ \E e \in (n + 1) .. Len(l) + 1 : StartOf(l, top, e) = Len(f) + 1
    /\ \A i \in 1 .. n : Parser!IsHeaderOf(l[i], f, l[i].first)

\* A round at an intact record reads that record.
LEMMA RecordIsRead ==
  ASSUME NEW f \in Seq(Nat), NEW l \in Layouts, NEW top \in Nat, Chained(l, top),
         NEW n \in 0 .. Len(l), Intact(f, l, top, n), NEW i \in 1 .. n,
         NEW from, Rounds(f, l, 1, from)
  PROVE  /\ StartOf(l, top, i) \in 1 .. Len(f) + 1
         /\ StartOf(l, top, i + 1) \in 1 .. Len(f) + 1
         /\ from[StartOf(l, top, i)] = HandOver(l[i], from[StartOf(l, top, i + 1)])
<1> DEFINE p == StartOf(l, top, i)
           next == StartOf(l, top, i + 1)
<1>1. /\ DOMAIN l = 1 .. Len(l) /\ Len(l) \in Nat /\ Len(f) \in Nat
      /\ i \in DOMAIN l /\ HeaderSize \in Nat \ {0}
  BY ChainTypes, SizesAssumption
<1>2. l[i].first \in Nat \ {0} /\ l[i].size \in Nat
  BY <1>1, ChainTypes
<1>3. p = l[i].first /\ next = l[i].first + HeaderSize + l[i].size /\ next =< Len(f) + 1
  <2>1. PICK e \in (n + 1) .. Len(l) + 1 : StartOf(l, top, e) = Len(f) + 1
    BY DEF Intact
  <2>2. e \in (i + 1) .. Len(l) + 1
    BY <1>1
  <2> QED
    BY <1>1, <2>1, <2>2, ChainStep
<1> HIDE DEF p, next
<1>4. p \in 1 .. Len(f) + 1 /\ next \in 1 .. Len(f) + 1 /\ p + HeaderSize =< Len(f) + 1
  <2> DEFINE size == l[i].size
  <2>1. p \in Nat \ {0} /\ size \in Nat /\ next = p + HeaderSize + size
    BY <1>2, <1>3
  <2>2. HeaderSize \in Nat \ {0} /\ Len(f) \in Nat /\ next =< Len(f) + 1
    BY <1>1, <1>3
  <2> HIDE DEF size
  <2> QED
    BY <2>1, <2>2
<1>5. Parser!IsHeaderOf(l[i], f, p)
  BY <1>3 DEF Intact
<1>6. \A j \in DOMAIN l : Parser!IsHeaderOf(l[j], f, p) => f[p] = l[j].first
  <2>1. 0 \in 0 .. HeaderSize - 1 /\ p + 0 = p
    BY <1>1, <1>4
  <2>2. \A j \in DOMAIN l : l[j].first + 0 = l[j].first
    BY ChainTypes
  <2> QED
    BY <2>1, <2>2 DEF Parser!IsHeaderOf
<1>7. ~Parser!IsZero(f, p)
  <2>1. 0 \in 0 .. HeaderSize - 1 /\ p + 0 = p
    BY <1>1, <1>4
  <2>2. f[p] = l[i].first
    BY <1>1, <1>5, <1>6
  <2> QED
    BY <1>2, <2>1, <2>2 DEF Parser!IsZero
<1>8. Parser!HeadersAt(f, l, p) = {i}
  <2>1. ASSUME NEW j \in DOMAIN l, Parser!IsHeaderOf(l[j], f, p) PROVE j = i
    <3>1. l[j].first = l[i].first
      BY <1>1, <1>5, <1>6, <2>1
    <3> QED
      BY <1>1, <3>1, ChainDistinct
  <2> QED
    BY <1>1, <1>5, <2>1 DEF Parser!HeadersAt
<1>9. HeaderAt(f, l, p) = i /\ After(f, l, p) = next
  BY <1>3, <1>8 DEF HeaderAt, After
<1>10. from[p] = ReadAt(f, l, p, from[next])
  <2>1. from[p] = Parser!Round(f, l, from, p) /\ RoundIs(f, l, from, p)
    BY <1>1, <1>4, RoundCases DEF Rounds
  <2> QED
    BY <1>4, <1>7, <1>9, <2>1 DEF RoundIs
<1>11. ~ (next > Len(f) + 1) /\ Parser!HeadersAt(f, l, p) # {}
  BY <1>1, <1>4, <1>8
<1>12. from[p] = HandOver(l[i], from[next])
  BY <1>9, <1>10, <1>11, Zenon DEF ReadAt
<1> QED
  BY <1>4, <1>12 DEF p, next

\* A record's sample is found in front of those of the records behind it.
LEMMA OneMoreRecord ==
  ASSUME NEW l \in Layouts, NEW top \in Nat, Chained(l, top), NEW n \in 0 .. Len(l),
         NEW i \in 1 .. n, NEW later \in Reads, NEW all, Found(later, l, i + 1, n, all)
  PROVE  Found(HandOver(l[i], later), l, i, n, all)
<1>1. /\ i \in DOMAIN l /\ Len(l) \in Nat /\ DOMAIN l = 1 .. Len(l)
      /\ l[i].first \in Nat /\ l[i].size \in Nat
      /\ l[i].type \in {"sample", "fragmented_space"}
  BY ChainTypes
<1>2. i .. n = {i} \cup ((i + 1) .. n)
  BY <1>1
<1>3. CASE Parser!Skips(l[i])
  <2>1. ~ (l[i].type = "sample" /\ l[i].size > 0)
    BY <1>1, <1>3 DEF Parser!Skips
  <2>2. SamplesFrom(l, i, n) = SamplesFrom(l, i + 1, n)
    BY <1>2, <2>1 DEF SamplesFrom
  <2> QED
    BY <1>3, <2>2 DEF Found, HandOver
<1>4. CASE ~Parser!Skips(l[i])
  <2> DEFINE x == l[i].first
             S == SamplesFrom(l, i + 1, n)
             read == [later EXCEPT !.samples = <<x>> \o @]
  <2>1. l[i].type = "sample" /\ l[i].size > 0
    BY <1>1, <1>4 DEF Parser!Skips
  <2>2. SamplesFrom(l, i, n) = {x} \cup S
    BY <1>2, <2>1 DEF SamplesFrom
  <2>3. \A y \in S : x < y
    <3>1. ASSUME NEW a \in (i + 1) .. n PROVE x < l[a].first
      <4>1. a \in DOMAIN l /\ a \in (i + 1) .. Len(l) + 1
        BY <1>1
      <4> QED
        BY <1>1, <4>1, ChainStep DEF StartOf
    <3> QED
      BY <3>1 DEF SamplesFrom
  <2>4. PICK k \in 0 .. Len(later.samples) :
          /\ Ascending(later.samples, k, S)
          /\ all => k = Len(later.samples) /\ later.end = "eof"
    BY DEF Found
  <2>5. later.samples \in Seq(Nat)
    BY DEF Reads
  <2>6. read.samples = <<x>> \o later.samples /\ read.end = later.end
    BY <1>1, ReadsGrow
  <2> HIDE DEF read, S, x
  <2>7. /\ Len(read.samples) = Len(later.samples) + 1
        /\ Ascending(read.samples, k + 1, {x} \cup S)
    BY <1>1, <2>3, <2>4, <2>5, <2>6, OneMoreInFront DEF x
  <2>8. k + 1 \in 0 .. Len(read.samples)
    BY <2>5, <2>7
  <2>9. all => k + 1 = Len(read.samples) /\ read.end = "eof"
    BY <2>4, <2>6, <2>7
  <2>10. Found(read, l, i, n, all)
    BY <2>2, <2>7, <2>8, <2>9 DEF Found
  <2> QED
    BY <1>4, <2>10, Zenon DEF read, x, HandOver
<1> QED
  BY <1>3, <1>4

\* load() finds the intact records at the front of a file, and comes to the end of the
\* file when there are no others.
LEMMA LoadFindsIntact ==
  ASSUME NEW f \in Seq(Nat), NEW l \in Layouts, NEW top \in Nat, Chained(l, top),
         NEW n \in 0 .. Len(l), Intact(f, l, top, n)
  PROVE  Found(Parser!Load(f, l), l, 1, n, StartOf(l, top, n + 1) = Len(f) + 1)
<1> DEFINE all == StartOf(l, top, n + 1) = Len(f) + 1
<1>1. PICK from : Rounds(f, l, 1, from) /\ Parser!Load(f, l) = from[1]
  BY LoadIsRounds
<1> DEFINE Good == {i \in 1 .. n + 1 : Found(from[StartOf(l, top, i)], l, i, n, all)}
<1>2. n \in Nat /\ Len(f) \in Nat /\ Len(l) \in Nat /\ HeaderSize \in Nat \ {0}
  BY ChainTypes, SizesAssumption
<1>3. n + 1 \in Good
  <2> DEFINE p == StartOf(l, top, n + 1)
  <2>1. p \in 1 .. Len(f) + 1
    <3>1. PICK e \in (n + 1) .. Len(l) + 1 : StartOf(l, top, e) = Len(f) + 1
      BY DEF Intact
    <3>2. CASE n + 1 \in DOMAIN l
      <4>1. p = l[n + 1].first /\ l[n + 1].first \in Nat \ {0}
        BY <3>2, ChainTypes DEF StartOf
      <4>2. CASE e = n + 1
        BY <1>2, <3>1, <4>1, <4>2
      <4>3. CASE e # n + 1
        <5>1. e \in ((n + 1) + 1) .. Len(l) + 1
          BY <1>2, <4>3
        <5>2. l[n + 1].first < Len(f) + 1
          BY <3>1, <3>2, <5>1, ChainStep
        <5> QED
          BY <1>2, <4>1, <5>2
      <4> QED
        BY <4>2, <4>3
    <3>3. CASE n + 1 \notin DOMAIN l
      <4>1. e = n + 1
        BY <1>2, <3>3, ChainTypes
      <4> QED
        BY <1>2, <3>1, <4>1
    <3> QED
      BY <3>2, <3>3
  <2>2. from[p] \in Reads
    BY <1>1, <2>1, RoundsReturnReads
  <2>3. SamplesFrom(l, n + 1, n) = {}
    BY <1>2 DEF SamplesFrom
  <2>4. Ascending(from[p].samples, 0, {})
    <3>1. 1 .. 0 = {}
      OBVIOUS
    <3> QED
      BY <3>1, Zenon DEF Ascending
  <2>5. 0 \in 0 .. Len(from[p].samples)
    <3>1. from[p].samples \in Seq(Nat)
      BY <2>2 DEF Reads
    <3>2. Len(from[p].samples) \in Nat
      BY <3>1, LenProperties, Zenon
    <3> QED
      BY <3>2
  <2>6. ASSUME all PROVE 0 = Len(from[p].samples) /\ from[p].end = "eof"
    <3>1. p + HeaderSize > Len(f) + 1
      BY <1>2, <2>6
    <3>2. from[p] = Parser!Round(f, l, from, p) /\ RoundIs(f, l, from, p)
      BY <1>1, <1>2, <2>1, RoundCases DEF Rounds
    <3>3. from[p] = Parser!Returns("eof")
      BY <3>1, <3>2 DEF RoundIs
    <3>4. Parser!Returns("eof").samples = <<>> /\ Parser!Returns("eof").end = "eof"
      BY DEF Parser!Returns
    <3>5. from[p].samples = <<>> /\ from[p].end = "eof"
      BY <3>3, <3>4, Zenon
    <3> QED
      BY <3>5, EmptySeq, Zenon
  <2> HIDE DEF p
  <2>7. Found(from[p], l, n + 1, n, all)
    BY <2>3, <2>4, <2>5, <2>6, Zenon DEF Found
  <2> QED
    BY <1>2, <2>7 DEF p
<1>4. ASSUME NEW i \in 1 .. n + 1, \A j \in (i + 1) .. n + 1 : j \in Good
      PROVE  i \in Good
  <2>1. CASE i = n + 1
    BY <1>3, <2>1
  <2>2. CASE i # n + 1
    <3>1. i \in 1 .. n /\ i + 1 \in (i + 1) .. n + 1
      BY <1>2, <2>2
    <3>2. Found(from[StartOf(l, top, i + 1)], l, i + 1, n, all)
      BY <1>4, <3>1
    <3>3. /\ StartOf(l, top, i + 1) \in 1 .. Len(f) + 1
          /\ from[StartOf(l, top, i)] = HandOver(l[i], from[StartOf(l, top, i + 1)])
      BY <1>1, <3>1, RecordIsRead
    <3>4. from[StartOf(l, top, i + 1)] \in Reads
      BY <1>1, <3>3, RoundsReturnReads
    <3> HIDE DEF all
    <3>5. Found(from[StartOf(l, top, i)], l, i, n, all)
      BY <3>1, <3>2, <3>3, <3>4, OneMoreRecord
    <3> QED
      BY <3>5
  <2> QED
    BY <2>1, <2>2
<1>5. 1 .. n + 1 \subseteq Good
  <2>1. n + 1 \in Nat
    BY <1>2
  <2> HIDE DEF Good
  <2> QED
    BY <1>4, <2>1, DownwardInduction
<1>6. 1 \in Good
  BY <1>2, <1>5
<1>7. StartOf(l, top, 1) = 1
  BY DEF Chained
<1> QED
  BY <1>1, <1>6, <1>7

-----------------------------------------------------------------------------
(* The theorems *)

\* Type correctness of the composition: of the ring, the worker thread and what
\* store() has written.
THEOREM CacheTypeCorrect == CacheSpec => []CacheTypeOK
<1>1. CacheInit => HistoryIInv
  BY SizesAssumption DEF CacheInit, RingInit, HistoryIInv
<1>2. CacheIInv /\ HistoryIInv => CacheTypeOK
  BY DEF CacheIInv, RingIInv, WorkerIInv, CouplingIInv, HistoryIInv, CacheTypeOK
<1> QED
  BY <1>1, <1>2, CacheInitially, CacheStepKeeps, StepKeepsHistory, PTL DEF CacheSpec

\* AcceptedBeforeShutdownIsWritten: when the worker thread has ended, every byte
\* that store() reserved before shutdown() cleared is_running has its place in
\* the file, unless a writer has lapped the flusher.
THEOREM NothingIsLeftInTheRing == CacheSpec => []AcceptedBeforeShutdownIsWritten
<1>1. CacheIInv => AcceptedBeforeShutdownIsWritten
  <2> SUFFICES ASSUME CacheIInv, FileIsFinal, ~lapped PROVE Len(file) >= mark
    BY DEF AcceptedBeforeShutdownIsWritten
  <2>1. flush.stage = "idle" /\ mark =< released
    BY DEF CacheIInv, CouplingIInv, FileIsFinal, Drained
  <2>2. Len(file) + 0 = released
    BY <2>1 DEF CacheIInv, Accounting, Uncopied
  <2>3. Len(file) \in Nat
    BY DEF CacheIInv, RingIInv, RingTypeOK
  <2> QED
    BY <2>1, <2>2, <2>3, CouplingTypes
<1> QED
  BY <1>1, CacheInvariant, PTL

LEMMA LayoutInitially == CacheInit => HistoryIInv /\ LayoutIInv
<1> SUFFICES ASSUME CacheInit PROVE HistoryIInv /\ LayoutIInv
  OBVIOUS
<1>1. HistoryIInv
  BY SizesAssumption DEF CacheInit, RingInit, HistoryIInv
<1>2. layout = <<>> /\ reserved = 0 /\ released = 0
  BY DEF CacheInit, RingInit
<1>3. DOMAIN layout = {} /\ Len(layout) = 0
  BY <1>2
<1>4. StartOf(layout, reserved, 1) = 1
  BY <1>2, <1>3 DEF StartOf
<1>5. LayoutIInv
  BY <1>2, <1>3, <1>4 DEF LayoutIInv, Chained
<1> QED
  BY <1>1, <1>5

\* ShutdownDropsOnePerThread: store() tests is_running for each record, so a thread that
\* has passed the test when shutdown() clears the flag reserves one record at most that
\* no flush takes, for any number of threads and however the worker thread ends.
THEOREM ShutdownCostIsBounded == CacheSpec => []ShutdownDropsOnePerThread
<1>1. CacheInit => DropIInv
  <2> SUFFICES ASSUME CacheInit PROVE DropIInv
    OBVIOUS
  <2>1. LateSamples = {} /\ Waiting = {}
    BY DEF CacheInit, LateSamples, Waiting
  <2>2. Cardinality(LateSamples) = 0 /\ Cardinality(Waiting) = 0
    BY <2>1, FS_EmptySet
  <2>3. Cardinality(Writers) \in Nat
    BY WritersAssumption, FS_CardinalityType
  <2> QED
    BY <2>2, <2>3 DEF DropIInv
<1>2. CacheIInv /\ HistoryIInv /\ DropIInv => ShutdownDropsOnePerThread
  <2> SUFFICES ASSUME CacheIInv, HistoryIInv, DropIInv, FileIsFinal
               PROVE  Cardinality(DroppedSamples) =< Cardinality(Writers)
    BY DEF ShutdownDropsOnePerThread
  <2>1. ~is_running
    BY DEF CacheIInv, WorkerIInv, FileIInv, FileIsFinal, Ending
  <2>2. DroppedSamples \subseteq LateSamples
    BY DEF DroppedSamples, LateSamples
  <2>3. /\ Cardinality(DroppedSamples) =< Cardinality(LateSamples)
        /\ Cardinality(DroppedSamples) \in Nat
    BY <2>2, SetsAreFinite, FS_Subset, FS_CardinalityType
  <2> QED
    BY <2>1, <2>3, SetsAreFinite DEF DropIInv
<1> QED
  BY <1>1, <1>2, LayoutInitially, CacheInitially, CacheStepKeeps, StepKeepsHistory,
     StepKeepsLayout, StepKeepsDrops, PTL DEF CacheSpec

\* ParserFindsTheRecords: storage_parser::load reads the file the worker leaves back to
\* the samples of its records, whole and in the order of their reservation, fillers and
\* empty records skipped, up to the first header that was copied before it was written.
THEOREM RecordsAreFound == CacheSpec => []ParserFindsTheRecords
<1>1. CacheInit => HistoryIInv /\ LayoutIInv
  BY LayoutInitially
<1>2. CacheIInv /\ HistoryIInv /\ LayoutIInv => ParserFindsTheRecords
  <2> SUFFICES ASSUME CacheIInv, HistoryIInv, LayoutIInv, FileIsFinal, ~lapped,
                      NEW n \in 0 .. Len(layout),
                      1 .. n \subseteq {i \in DOMAIN layout :
                                          layout[i].first =< Len(file)},
                      \A i \in 1 .. n :
                         Parser!IsHeaderOf(layout[i], file, layout[i].first)
               PROVE  LET read    == Parser!Load(file, layout)
                          written == {i \in DOMAIN layout : layout[i].first =< Len(file)}
                      IN  \E k \in 0 .. Len(read.samples) :
                            /\ InOrder(read.samples, k, n)
                            /\ written = 1 .. n => k = Len(read.samples)
                                                   /\ read.end = "eof"
    BY DEF ParserFindsTheRecords
  <2> DEFINE read    == Parser!Load(file, layout)
             written == {i \in DOMAIN layout : layout[i].first =< Len(file)}
             all     == StartOf(layout, reserved, n + 1) = Len(file) + 1
  <2>1. /\ file \in Seq(Nat) /\ layout \in Layouts
        /\ reserved \in Nat /\ Chained(layout, reserved)
    BY DEF CacheIInv, RingIInv, RingTypeOK, HistoryIInv, LayoutIInv, Layouts
  <2>2. Len(file) = released /\ Len(file) \in Nat
    <3>1. Uncopied = 0
      BY DEF CacheIInv, CouplingIInv, FileIsFinal, Uncopied
    <3> QED
      BY <2>1, <3>1 DEF CacheIInv, Accounting
  <2>3. PICK e \in 1 .. Len(layout) + 1 : StartOf(layout, reserved, e) = Len(file) + 1
    BY <2>2 DEF LayoutIInv
  <2>4. /\ DOMAIN layout = 1 .. Len(layout) /\ Len(layout) \in Nat
        /\ \A i \in DOMAIN layout : /\ layout[i].first \in Nat
                                    /\ StartOf(layout, reserved, i) = layout[i].first
    BY <2>1, ChainTypes DEF StartOf
  <2>5. n < e
    <3>1. ASSUME e =< n PROVE FALSE
      <4>1. e \in 1 .. n
        BY <2>4, <3>1
      <4>2. e \in DOMAIN layout /\ layout[e].first =< Len(file)
        BY <4>1
      <4> QED
        BY <2>2, <2>3, <2>4, <4>2
    <3> QED
      BY <2>4, <3>1
  <2>6. Intact(file, layout, reserved, n)
    <3>1. e \in (n + 1) .. Len(layout) + 1
      BY <2>4, <2>5
    <3> QED
      BY <2>3, <3>1 DEF Intact
  <2>7. PICK k \in 0 .. Len(read.samples) :
          /\ Ascending(read.samples, k, SamplesFrom(layout, 1, n))
          /\ all => k = Len(read.samples) /\ read.end = "eof"
    <3>1. Found(read, layout, 1, n, all)
      BY <2>1, <2>6, LoadFindsIntact
    <3> HIDE DEF read, all
    <3> QED
      BY <3>1 DEF Found
  <2>8. InOrder(read.samples, k, n)
    <3>1. SamplesOf(n) = SamplesFrom(layout, 1, n)
      BY DEF SamplesOf, SamplesFrom
    <3> HIDE DEF read
    <3> QED
      BY <2>7, <3>1, Zenon DEF InOrder, Ascending
  <2>9. ASSUME written = 1 .. n PROVE all
    <3>1. CASE e = n + 1
      BY <2>3, <3>1
    <3>2. CASE e # n + 1
      <4>1. n + 1 \in DOMAIN layout /\ e \in ((n + 1) + 1) .. Len(layout) + 1
        BY <2>4, <2>5, <3>2
      <4>2. layout[n + 1].first < Len(file) + 1
        BY <2>1, <2>3, <4>1, ChainStep
      <4>3. n + 1 \in written
        BY <2>2, <2>4, <4>1, <4>2
      <4>4. n + 1 \notin 1 .. n
        BY <2>4
      <4> QED
        BY <2>9, <4>3, <4>4, Zenon
    <3> QED
      BY <3>1, <3>2
  <2> HIDE DEF read, written, all
  <2> QED
    BY <2>7, <2>8, <2>9, Zenon DEF read, written
<1>3. /\ CacheIInv /\ [CacheNext]_cacheVars => CacheIInv'
      /\ CacheIInv /\ HistoryIInv /\ [CacheNext]_cacheVars => HistoryIInv'
      /\ CacheIInv /\ HistoryIInv /\ LayoutIInv /\ [CacheNext]_cacheVars => LayoutIInv'
  BY CacheStepKeeps, StepKeepsHistory, StepKeepsLayout
<1> QED
  BY <1>1, <1>2, <1>3, CacheInitially, PTL DEF CacheSpec

\* The composition implements the ring: whatever is proved of BufferStorage alone
\* holds of the ring inside the running trace cache.
THEOREM CacheImplementsRing == CacheSpec => RingSpec
<1>1. CacheInit => RingInit
  BY DEF CacheInit
<1> QED
  BY <1>1, StepsOfTheRing, PTL DEF CacheSpec, RingSpec

\* So the running trace cache is an append-only log too, start() and shutdown()
\* included, as long as no writer laps the flusher.
THEOREM CacheImplementsTraceLog == CacheSpec => ImplementsTraceLog
BY CacheImplementsRing, RingImplementsTraceLog
=============================================================================
