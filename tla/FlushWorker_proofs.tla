-------------------------- MODULE FlushWorker_proofs --------------------------
(***************************************************************************)
(* Proofs of the safety properties of FlushWorker, for any set of callers  *)
(* of shutdown().                                                          *)
(*                                                                         *)
(* The inductive invariant has two parts.  FileIInv follows the trace file *)
(* and the worker thread through start, the loop, the final flush and a    *)
(* fork; its key is that is_running is never set again once it is cleared, *)
(* so a worker past its loop finds it cleared.  CallsIInv follows the      *)
(* calls of stop(): one that overlaps no other is the only one past the    *)
(* guard, and the thread it is to join is still there.                     *)
(***************************************************************************)
EXTENDS FlushWorker, TLAPS

\* The worker stages in which the thread may still write to the file.
Writing == {"test", "flush", "flushing", "check", "blocking", "waiting",
            "final", "finalizing", "close"}

\* The worker stages behind the loop.
Ending == {"final", "finalizing", "close", "finish", "notify", "done"}

FileIInv ==
    /\ is_running => started \in {"running", "yes"}
    /\ started # "yes" => worker = "none"
    /\ started = "yes" /\ ~in_child => worker # "none"
    /\ in_child => worker = "none"
    /\ started \in {"opened", "running"} => ofs = "open"
    /\ worker \in Writing => ofs = "open"
    /\ worker \in {"finish", "notify", "done"} => ofs = "closed"
    /\ worker \in Ending => ~is_running
    /\ exit_finished => /\ started = "yes"
                        /\ ofs = "closed"

CallsIInv ==
    /\ ~overlapped => \A c, d \in Callers : InStop(c) /\ InStop(d) => c = d
    /\ ~overlapped => \A c \in Callers : InStop(c) => thread = "joinable"
    /\ Crashed => overlapped
    /\ \A c \in Callers : stopping[c] = "join" => exit_finished

WorkerIInv == WorkerTypeOK /\ FileIInv /\ CallsIInv

-----------------------------------------------------------------------------
(* One lemma per group of actions *)

\* The invariant holds initially: nothing runs and the file is closed.
LEMMA WorkerInitially == WorkerInit => WorkerIInv
  BY DEF WorkerInit, WorkerIInv, WorkerTypeOK, FileIInv, CallsIInv, InStop, Crashed,
         WorkerStages, StopStages, Writing, Ending

\* start() keeps the invariant: the file is open before is_running is set.
LEMMA StartKeeps == WorkerIInv /\ Start => WorkerIInv'
<1> SUFFICES ASSUME WorkerIInv, Start PROVE WorkerIInv'
  OBVIOUS
<1> USE DEF WorkerIInv
<1>1. WorkerTypeOK'
  BY DEF WorkerTypeOK, WorkerStages, Start, StartOpens, StartThrows,
         StartSetsRunning, StartCreatesThread
<1>2. FileIInv'
  BY DEF FileIInv, WorkerTypeOK, WorkerStages, Writing, Ending, Start, StartOpens,
         StartThrows, StartSetsRunning, StartCreatesThread
<1>3. CallsIInv'
  BY DEF CallsIInv, FileIInv, InStop, Crashed, Start, StartOpens, StartThrows,
         StartSetsRunning, StartCreatesThread
<1> QED
  BY <1>1, <1>2, <1>3

\* The worker thread keeps it: it opens nothing and leaves its loop only when
\* is_running is cleared.
LEMMA WorkKeeps == WorkerIInv /\ Work => WorkerIInv'
<1> SUFFICES ASSUME WorkerIInv, Work PROVE WorkerIInv'
  OBVIOUS
<1> USE DEF WorkerIInv
<1>1. CASE LoopTest \/ WaitTest
  <2>1. WorkerTypeOK'
    BY <1>1 DEF WorkerTypeOK, WorkerStages, LoopTest, WaitTest, WorkerStep
  <2>2. FileIInv'
    BY <1>1 DEF FileIInv, WorkerTypeOK, WorkerStages, Writing, Ending, LoopTest,
                WaitTest, WorkerStep
  <2>3. CallsIInv'
    BY <1>1 DEF CallsIInv, InStop, Crashed, LoopTest, WaitTest, WorkerStep
  <2> QED
    BY <2>1, <2>2, <2>3
<1>2. CASE (\E force \in BOOLEAN : CallFlush(force)) \/ FlushReturns
  <2>1. WorkerTypeOK'
    BY <1>2 DEF WorkerTypeOK, WorkerStages, CallFlush, FlushReturns, WorkerStep
  <2>2. FileIInv'
    BY <1>2 DEF FileIInv, Writing, Ending, CallFlush, FlushReturns, WorkerStep
  <2>3. CallsIInv'
    BY <1>2 DEF CallsIInv, InStop, Crashed, CallFlush, FlushReturns, WorkerStep
  <2> QED
    BY <2>1, <2>2, <2>3
<1>3. CASE WaitBlocks \/ WaitTimesOut
  <2>1. WorkerTypeOK'
    BY <1>3 DEF WorkerTypeOK, WorkerStages, WaitBlocks, WaitTimesOut, WorkerStep
  <2>2. FileIInv'
    BY <1>3 DEF FileIInv, Writing, Ending, WaitBlocks, WaitTimesOut, WorkerStep
  <2>3. CallsIInv'
    BY <1>3 DEF CallsIInv, InStop, Crashed, WaitBlocks, WaitTimesOut, WorkerStep
  <2> QED
    BY <2>1, <2>2, <2>3
<1>4. CASE CloseFile \/ SetExitFinished
  <2>1. WorkerTypeOK'
    BY <1>4 DEF WorkerTypeOK, WorkerStages, CloseFile, SetExitFinished, WorkerStep
  <2>2. FileIInv'
    BY <1>4 DEF FileIInv, Writing, Ending, CloseFile, SetExitFinished, WorkerStep
  <2>3. CallsIInv'
    BY <1>4 DEF CallsIInv, InStop, Crashed, CloseFile, SetExitFinished, WorkerStep
  <2> QED
    BY <2>1, <2>2, <2>3
<1>5. CASE NotifyExit
  <2>1. WorkerTypeOK'
    BY <1>5 DEF WorkerTypeOK, WorkerStages, StopStages, NotifyExit, ExitWaiters
  <2>2. FileIInv'
    BY <1>5 DEF FileIInv, Writing, Ending, NotifyExit
  <2>3. \A c \in Callers : stopping'[c] # stopping[c] =>
                              stopping[c] = "waiting" /\ stopping'[c] = "check"
    BY <1>5 DEF WorkerTypeOK, NotifyExit, ExitWaiters
  <2>4. CallsIInv'
    BY <1>5, <2>3 DEF CallsIInv, InStop, Crashed, NotifyExit
  <2> QED
    BY <2>1, <2>2, <2>4
<1> QED
  BY <1>1, <1>2, <1>3, <1>4, <1>5 DEF Work

\* A call of stop() keeps it: the guard lets a second call in only while the
\* first has not cleared is_running, and that is recorded as an overlap.
LEMMA StopKeeps ==
  ASSUME WorkerIInv, NEW c \in Callers,
         StopEnters(c) \/ StopContinues(c) \/ SpuriousWakeup(c)
  PROVE  WorkerIInv'
<1> USE DEF WorkerIInv
<1>1. PICK to \in StopStages : stopping' = [stopping EXCEPT ![c] = to]
  <2>1. CASE StopEnters(c) \/ SpuriousWakeup(c) \/ StopClearsRunning(c)
    BY <2>1 DEF StopEnters, SpuriousWakeup, StopClearsRunning, StopStep, StopStages
  <2>2. CASE StopNotifies(c) \/ StopTests(c) \/ StopBlocks(c)
    BY <2>2 DEF StopNotifies, StopTests, StopBlocks, StopStep, StopStages
  <2>3. CASE StopJoins(c)
    BY <2>3 DEF StopJoins, StopStep, StopStages
  <2> QED
    BY <2>1, <2>2, <2>3 DEF StopContinues
<1>2. WorkerTypeOK'
  <2>1. stopping' \in [Callers -> StopStages]
    BY <1>1 DEF WorkerTypeOK
  <2>2. CASE StopEnters(c) \/ SpuriousWakeup(c)
    BY <2>1, <2>2 DEF WorkerTypeOK, StopEnters, SpuriousWakeup, StopStep
  <2>3. CASE StopClearsRunning(c)
    BY <2>1, <2>3 DEF WorkerTypeOK, StopClearsRunning, StopStep
  <2>4. CASE StopNotifies(c)
    BY <2>1, <2>4 DEF WorkerTypeOK, WorkerStages, StopNotifies, StopStep
  <2>5. CASE StopTests(c) \/ StopBlocks(c)
    BY <2>1, <2>5 DEF WorkerTypeOK, StopTests, StopBlocks, StopStep
  <2>6. CASE StopJoins(c)
    BY <2>1, <2>6 DEF WorkerTypeOK, StopJoins, StopStep
  <2> QED
    BY <2>2, <2>3, <2>4, <2>5, <2>6 DEF StopContinues
<1>3. FileIInv'
  <2>1. CASE StopEnters(c) \/ SpuriousWakeup(c) \/ StopTests(c) \/ StopBlocks(c)
    BY <2>1 DEF FileIInv, StopEnters, SpuriousWakeup, StopTests, StopBlocks, StopStep
  <2>2. CASE StopClearsRunning(c) \/ StopJoins(c)
    BY <2>2 DEF FileIInv, StopClearsRunning, StopJoins, StopStep
  <2>3. CASE StopNotifies(c)
    BY <2>3 DEF FileIInv, Writing, Ending, StopNotifies, StopStep
  <2> QED
    BY <2>1, <2>2, <2>3 DEF StopContinues
<1>4. stopping \in [Callers -> StopStages]
  BY DEF WorkerTypeOK
<1>5. CallsIInv'
  <2>1. CASE StopEnters(c)
    BY <2>1, <1>4 DEF CallsIInv, InStop, Crashed, StopEnters, StopStep, WorkerTypeOK
  <2>2. CASE StopTests(c)
    BY <2>2, <1>4 DEF CallsIInv, InStop, Crashed, StopTests, StopStep
  <2>3. CASE StopClearsRunning(c) \/ StopBlocks(c) \/ SpuriousWakeup(c)
    BY <2>3, <1>4 DEF CallsIInv, InStop, Crashed, StopClearsRunning, StopBlocks,
                      SpuriousWakeup, StopStep
  <2>4. CASE StopNotifies(c)
    BY <2>4, <1>4 DEF CallsIInv, InStop, Crashed, StopNotifies, StopStep
  <2>5. CASE StopJoins(c)
    BY <2>5, <1>4 DEF CallsIInv, InStop, Crashed, StopJoins, StopStep
  <2> QED
    BY <2>1, <2>2, <2>3, <2>4, <2>5 DEF StopContinues
<1> QED
  BY <1>2, <1>3, <1>5

\* A fork keeps it: no call of stop() and no worker thread is left in the child.
LEMMA ForkKeeps ==
  ASSUME WorkerIInv, NEW c \in Callers, Fork(c)
  PROVE  WorkerIInv'
  BY DEF WorkerIInv, WorkerTypeOK, FileIInv, CallsIInv, WorkerStages, StopStages,
         Writing, Ending, InStop, Crashed, Fork

\* Every step of start, the worker thread, stop and fork keeps the invariant.
LEMMA WorkerStepKeeps == WorkerIInv /\ [WorkerNext]_workerVars => WorkerIInv'
<1> SUFFICES ASSUME WorkerIInv, [WorkerNext]_workerVars PROVE WorkerIInv'
  OBVIOUS
<1>1. CASE Start \/ Work
  BY <1>1, StartKeeps, WorkKeeps
<1>2. CASE \E c \in Callers :
             StopEnters(c) \/ StopContinues(c) \/ SpuriousWakeup(c) \/ Fork(c)
  BY <1>2, StopKeeps, ForkKeeps
<1>3. CASE UNCHANGED workerVars
  BY <1>3 DEF workerVars, WorkerIInv, WorkerTypeOK, FileIInv, CallsIInv, InStop, Crashed
<1> QED
  BY <1>1, <1>2, <1>3 DEF WorkerNext

\* The inductive invariant holds in every behaviour of the flush worker.
THEOREM WorkerInvariant == WorkerSpec => []WorkerIInv
  BY WorkerInitially, WorkerStepKeeps, PTL DEF WorkerSpec

-----------------------------------------------------------------------------
(* The properties *)

\* WorkerTypeOK: flush_worker_t's state stays within its declared values.
THEOREM WorkerTypeCorrect == WorkerSpec => []WorkerTypeOK
<1>1. WorkerIInv => WorkerTypeOK
  BY DEF WorkerIInv
<1> QED
  BY WorkerInvariant, <1>1, PTL

\* JoinFindsFileClosed: once stop() is past its wait for exit_finished, the
\* final flush is in the file and the file is closed.
THEOREM JoinAfterClose == WorkerSpec => []JoinFindsFileClosed
<1>1. WorkerIInv => JoinFindsFileClosed
  BY DEF WorkerIInv, CallsIInv, FileIInv, JoinFindsFileClosed
<1> QED
  BY WorkerInvariant, <1>1, PTL

\* CrashOnlyWhenStopsOverlap: any number of calls of stop() one after the other
\* is safe; only calls that overlap can join a thread that is gone.
THEOREM SequentialStopsAreSafe == WorkerSpec => []CrashOnlyWhenStopsOverlap
<1>1. WorkerIInv => CrashOnlyWhenStopsOverlap
  BY DEF WorkerIInv, CallsIInv, CrashOnlyWhenStopsOverlap
<1> QED
  BY WorkerInvariant, <1>1, PTL

\* FileOpenWhileInUse: the worker thread never flushes into a closed file, and
\* the file is open whenever store() accepts records.
THEOREM FlushesIntoOpenFile == WorkerSpec => []FileOpenWhileInUse
<1>1. WorkerIInv => FileOpenWhileInUse
  BY DEF WorkerIInv, WorkerTypeOK, WorkerStages, FileIInv, Writing, Ending,
         FileOpenWhileInUse
<1> QED
  BY WorkerInvariant, <1>1, PTL
=============================================================================
