----------------------------- MODULE FlushWorker -----------------------------
(***************************************************************************)
(* The thread that drains the trace cache, and the calls that start and    *)
(* stop it: flush_worker_t of core/trace_cache/buffer_storage.cpp, reached *)
(* through buffer_storage::start and buffer_storage::shutdown.             *)
(*                                                                         *)
(* The two condition variables are each waited on with a mutex that is     *)
(* local to the waiter, so nothing orders a waiter's test of its predicate *)
(* and its blocking with the notifier's write and notification.  The       *)
(* actions keep these four steps apart.                                    *)
(*                                                                         *)
(* A behaviour follows one process.  Fork continues in the child: a copy   *)
(* of the memory, the forking thread, and no worker thread.                *)
(***************************************************************************)
EXTENDS Integers

CONSTANT Callers    \* the threads that may call shutdown()

VARIABLES
    is_running,       \* worker_synchronization_t::is_running
    exit_finished,    \* worker_synchronization_t::exit_finished
    in_child,         \* getpid() # origin_pid
    thread,           \* m_flushing_thread
    started,          \* how far rocprofsys_init's call of start() has come
    worker,           \* where the worker thread is
    stopping,         \* where each caller's call of stop() is
    ofs,              \* m_ofs
    overlapped        \* history: two calls of stop() were past its guard at once

workerVars == <<is_running, exit_finished, in_child, thread, started,
                worker, stopping, ofs, overlapped>>

WorkerStages == {"none", "test", "flush", "flushing", "check", "blocking",
                 "waiting", "final", "finalizing", "close", "finish", "notify",
                 "done"}
StopStages == {"idle", "clear", "notify", "check", "blocking", "waiting", "join",
               "crashed"}

WorkerTypeOK ==
    /\ is_running \in BOOLEAN
    /\ exit_finished \in BOOLEAN
    /\ in_child \in BOOLEAN
    /\ thread \in {"null", "joinable"}
    /\ started \in {"no", "opened", "running", "yes", "failed"}
    /\ worker \in WorkerStages
    /\ stopping \in [Callers -> StopStages]
    /\ ofs \in {"closed", "open"}
    /\ overlapped \in BOOLEAN

WorkerInit ==
    /\ is_running = FALSE
    /\ exit_finished = FALSE
    /\ in_child = FALSE
    /\ thread = "null"
    /\ started = "no"
    /\ worker = "none"
    /\ stopping = [c \in Callers |-> "idle"]
    /\ ofs = "closed"
    /\ overlapped = FALSE

InStop(c) == stopping[c] \notin {"idle", "crashed"}

\* A call of stop() that dereferences a thread another call has joined ends
\* the process.
Crashed == \E c \in Callers : stopping[c] = "crashed"

-----------------------------------------------------------------------------
(* start(): called once per process, by the initialization of the tooling *)

StartOpens ==
    /\ ~Crashed
    /\ ~in_child
    /\ started = "no"
    /\ ofs' = "open"
    /\ started' = "opened"
    /\ UNCHANGED <<is_running, exit_finished, in_child, thread, worker, stopping,
                   overlapped>>

\* The file cannot be opened: start() throws and nothing has changed.
StartThrows ==
    /\ ~Crashed
    /\ ~in_child
    /\ started = "no"
    /\ started' = "failed"
    /\ UNCHANGED <<is_running, exit_finished, in_child, thread, worker, stopping,
                   ofs, overlapped>>

\* is_running is set before the thread object exists.
StartSetsRunning ==
    /\ ~Crashed
    /\ ~in_child
    /\ started = "opened"
    /\ is_running' = TRUE
    /\ started' = "running"
    /\ UNCHANGED <<exit_finished, in_child, thread, worker, stopping, ofs, overlapped>>

StartCreatesThread ==
    /\ ~Crashed
    /\ ~in_child
    /\ started = "running"
    /\ thread' = "joinable"
    /\ worker' = "test"
    /\ started' = "yes"
    /\ UNCHANGED <<is_running, exit_finished, in_child, stopping, ofs, overlapped>>

-----------------------------------------------------------------------------
(* The worker thread *)

WorkerStep(from, to) ==
    /\ ~Crashed
    /\ worker = from
    /\ worker' = to
    /\ UNCHANGED <<in_child, thread, started, stopping, overlapped>>

\* A wrong form of LoopTest: the file is closed before the final flush.
LoopTestCloses ==
    /\ WorkerStep("test", IF is_running THEN "flush" ELSE "final")
    /\ ofs' = IF is_running THEN ofs ELSE "closed"
    /\ UNCHANGED <<is_running, exit_finished>>

\* while(is_running)
LoopTest ==
    /\ WorkerStep("test", IF is_running THEN "flush" ELSE "final")
    /\ UNCHANGED <<is_running, exit_finished, ofs>>

\* m_worker_function(m_ofs, force) is buffer_storage::flush.
CallFlush(force) ==
    /\ IF force THEN WorkerStep("final", "finalizing") ELSE WorkerStep("flush", "flushing")
    /\ UNCHANGED <<is_running, exit_finished, ofs>>

FlushReturns ==
    /\ WorkerStep("flushing", "check") \/ WorkerStep("finalizing", "close")
    /\ UNCHANGED <<is_running, exit_finished, ofs>>

\* wait_for tests its predicate, blocks, and comes back on a notification, a
\* spurious wakeup or after CACHE_FILE_FLUSH_TIMEOUT.
WaitTest ==
    /\ WorkerStep("check", IF is_running THEN "blocking" ELSE "test")
    /\ UNCHANGED <<is_running, exit_finished, ofs>>

WaitBlocks ==
    /\ WorkerStep("blocking", "waiting")
    /\ UNCHANGED <<is_running, exit_finished, ofs>>

\* A wrong form of WaitTimesOut: wait() for wait_for().
WaitForever == FALSE /\ UNCHANGED workerVars

WaitTimesOut ==
    /\ WorkerStep("waiting", "test")
    /\ UNCHANGED <<is_running, exit_finished, ofs>>

\* A wrong form of CloseFile: exit_finished comes first.
ExitBeforeClose ==
    /\ WorkerStep("close", "finish")
    /\ exit_finished' = TRUE
    /\ UNCHANGED <<is_running, ofs>>

\* After the final flush: m_ofs.close(), exit_finished, notify_one().  Nobody looks
\* whether close() failed.
CloseFile ==
    /\ WorkerStep("close", "finish")
    /\ ofs' = "closed"
    /\ UNCHANGED <<is_running, exit_finished>>

SetExitFinished ==
    /\ WorkerStep("finish", "notify")
    /\ exit_finished' = TRUE
    /\ UNCHANGED <<is_running, ofs>>

ExitWaiters == {c \in Callers : stopping[c] = "waiting"}

NotifyExit ==
    /\ ~Crashed
    /\ worker = "notify"
    /\ worker' = "done"
    /\ IF ExitWaiters = {}
         THEN UNCHANGED stopping
         ELSE \E c \in ExitWaiters : stopping' = [stopping EXCEPT ![c] = "check"]
    /\ UNCHANGED <<is_running, exit_finished, in_child, thread, started, ofs,
                   overlapped>>

-----------------------------------------------------------------------------
(* stop(), called by buffer_storage::shutdown *)

StopStep(c, from, to) ==
    /\ ~Crashed
    /\ stopping[c] = from
    /\ stopping' = [stopping EXCEPT ![c] = to]
    /\ UNCHANGED <<exit_finished, in_child, started, ofs>>

\* A wrong form of StopEnters: no guard.
StopEntersAlways(c) ==
    /\ StopStep(c, "idle", "clear")
    /\ overlapped' = (overlapped \/ \E d \in Callers : InStop(d))
    /\ UNCHANGED <<is_running, thread, worker>>

\* The guards of shutdown() and stop(): without a running worker they return.
StopEnters(c) ==
    /\ is_running
    /\ thread # "null"
    /\ StopStep(c, "idle", "clear")
    /\ overlapped' = (overlapped \/ \E d \in Callers : InStop(d))
    /\ UNCHANGED <<is_running, thread, worker>>

StopClearsRunning(c) ==
    /\ StopStep(c, "clear", "notify")
    /\ is_running' = FALSE
    /\ UNCHANGED <<thread, worker, overlapped>>

\* A wrong form of StopNotifies: a forked child waits too.
StopNotifiesAndWaits(c) ==
    /\ StopStep(c, "notify", "check")
    /\ worker' = IF worker = "waiting" THEN "test" ELSE worker
    /\ UNCHANGED <<is_running, thread, overlapped>>

\* is_running_condition.notify_all(); a process that did not create the
\* thread returns here.
StopNotifies(c) ==
    /\ StopStep(c, "notify", IF in_child THEN "idle" ELSE "check")
    /\ worker' = IF worker = "waiting" THEN "test" ELSE worker
    /\ UNCHANGED <<is_running, thread, overlapped>>

\* exit_finished_condition.wait tests its predicate, and blocks.
StopTests(c) ==
    /\ StopStep(c, "check", IF exit_finished THEN "join" ELSE "blocking")
    /\ UNCHANGED <<is_running, thread, worker, overlapped>>

StopBlocks(c) ==
    /\ StopStep(c, "blocking", "waiting")
    /\ UNCHANGED <<is_running, thread, worker, overlapped>>

\* The standard lets wait() return without a notification; nothing makes it.
SpuriousWakeup(c) ==
    /\ StopStep(c, "waiting", "check")
    /\ UNCHANGED <<is_running, thread, worker, overlapped>>

\* join() and reset(); the thread is gone if another call was here first.
StopJoins(c) ==
    /\ \/ /\ thread = "joinable"
          /\ worker = "done"
          /\ StopStep(c, "join", "idle")
          /\ thread' = "null"
       \/ /\ thread = "null"
          /\ StopStep(c, "join", "crashed")
          /\ UNCHANGED thread
    /\ UNCHANGED <<is_running, worker, overlapped>>

\* fork() by a thread that is in none of these calls.
Fork(c) ==
    /\ ~Crashed
    /\ ~in_child
    /\ stopping[c] = "idle"
    /\ started # "no"
    /\ in_child' = TRUE
    /\ worker' = "none"
    /\ stopping' = [d \in Callers |-> "idle"]
    /\ UNCHANGED <<is_running, exit_finished, thread, started, ofs, overlapped>>

-----------------------------------------------------------------------------
Start == StartOpens \/ StartThrows \/ StartSetsRunning \/ StartCreatesThread

\* A thread that is scheduled and never stops by itself.
Work ==
    \/ LoopTest
    \/ \E force \in BOOLEAN : CallFlush(force)
    \/ FlushReturns
    \/ WaitTest \/ WaitBlocks \/ WaitTimesOut
    \/ CloseFile \/ SetExitFinished \/ NotifyExit

\* The steps of a call of stop() after its guard.
StopContinues(c) ==
    \/ StopClearsRunning(c) \/ StopNotifies(c)
    \/ StopTests(c) \/ StopBlocks(c) \/ StopJoins(c)

WorkerNext ==
    \/ Start
    \/ Work
    \/ \E c \in Callers :
          StopEnters(c) \/ StopContinues(c) \/ SpuriousWakeup(c) \/ Fork(c)

\* Every thread runs; nothing forces a call of shutdown, a fork or a spurious
\* wakeup.
WorkerFairness ==
    /\ WF_workerVars(Start)
    /\ WF_workerVars(Work)
    /\ \A c \in Callers : WF_workerVars(StopContinues(c))

WorkerSpec == WorkerInit /\ [][WorkerNext]_workerVars /\ WorkerFairness

-----------------------------------------------------------------------------
(* Properties *)

\* A call of stop() that is past its wait for exit_finished finds the trace
\* file complete and closed, so what follows shutdown() may read it.
JoinFindsFileClosed ==
    \A c \in Callers : stopping[c] = "join" => exit_finished /\ ofs = "closed"

\* stop() may be called any number of times, by any thread: it joins the worker
\* thread a second time only when two calls overlap.
CrashOnlyWhenStopsOverlap == Crashed => overlapped

\* The worker flushes only into an open file, and leaves the file open as long
\* as the storage accepts records.
FileOpenWhileInUse ==
    /\ worker \in {"flush", "flushing", "final", "finalizing"} => ofs = "open"
    /\ is_running /\ ~in_child => ofs = "open"

\* Once is_running is cleared the worker thread makes its final flush and ends,
\* even if the notification came between its test and its wait: the wait has a
\* timeout.
WorkerFinishes ==
    started = "yes" /\ ~is_running /\ ~in_child
        ~> worker = "done" \/ in_child \/ Crashed

\* In a forked child, which has no worker thread to wait for, stop() returns.
ChildStopReturns ==
    \A c \in Callers : in_child /\ InStop(c) ~> ~InStop(c)

\* In the process that started the worker, stop() returns.
StopReturns ==
    \A c \in Callers : InStop(c) ~> ~InStop(c) \/ in_child \/ Crashed
=============================================================================
