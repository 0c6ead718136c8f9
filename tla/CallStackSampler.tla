--------------------------- MODULE CallStackSampler ---------------------------
(***************************************************************************)
(* Call-stack sampling (sampling.cpp): every thread gets a sampler when it *)
(* starts (pthread_create_gotcha) and stops it when it ends; a duration    *)
(* thread, the finalization, or both stop all of them; the fork handlers   *)
(* turn the switch that all signal handlers read.                          *)
(*                                                                         *)
(* sampler[t] is the sampler of thread t, with its timers; stop[c] is the  *)
(* place of c, the finalization or the duration thread, in                 *)
(* configure(false, 0), and left[c] the threads it has still to visit.     *)
(***************************************************************************)
EXTENDS Naturals, FiniteSets

CONSTANTS Threads,      \* the threads the application creates
          MaxForks      \* bound: calls of fork()

Main == "main"

\* The main thread exists before tooling starts; it is not one of the others.
ASSUME ThreadsAssumption == Main \notin Threads /\ MaxForks \in Nat

All == Threads \cup {Main}
Stoppers == {Main, "duration"}

VARIABLES
    state,              \* State of the process: Init, Active, Finalized
    samples,            \* trait::runtime_enabled<sampler_t>
    sampler, running,   \* get_sampler(t), get_sampler_running(t)
    pc,                 \* the place of each thread, the main thread included
    stop, left,
    duration,           \* the duration thread
    disabled,           \* get_duration_disabled()
    elapsed,            \* the clock has reached _end
    forks,              \* the forks begun
    late                \* history: the threads that were setting up a sampler when
                        \* the duration ended or the process was finalized

vars == <<state, samples, sampler, running, pc, stop, left, duration, disabled,
          elapsed, forks, late>>

ThreadStages == {"none", "new", "build", "launch", "start", "run", "fork", "leave",
                 "stop", "done"}
MainStages == {"blocked", "stopping", "join", "post_process", "output", "end"}
StopStages == {"idle", "test", "mark", "block", "own", "others", "reset", "join"}

SamplerTypeOK ==
    /\ state \in {"Init", "Active", "Finalized"} /\ samples \in BOOLEAN
    /\ sampler \in [All -> {"none", "built", "started", "stopped"}]
    /\ running \in [All -> BOOLEAN]
    /\ pc \in [All -> ThreadStages \cup MainStages]
    /\ stop \in [Stoppers -> StopStages] /\ left \in [Stoppers -> SUBSET Threads]
    /\ duration \in {"none", "created", "waiting", "woken", "stopping", "done"}
    /\ disabled \in BOOLEAN /\ elapsed \in BOOLEAN
    /\ forks \in 0 .. MaxForks /\ late \subseteq All

Init ==
    /\ state = "Init" /\ samples = TRUE
    /\ sampler = [t \in All |-> "none"] /\ running = [t \in All |-> FALSE]
    /\ pc = [t \in All |-> IF t = Main THEN "new" ELSE "none"]
    /\ stop = [c \in Stoppers |-> "idle"] /\ left = [c \in Stoppers |-> {}]
    /\ duration = "none" /\ disabled = FALSE /\ elapsed = FALSE
    /\ forks = 0 /\ late = {}

Goes(t, from, to) == pc[t] = from /\ pc' = [pc EXCEPT ![t] = to]

\* What none of the actions of a thread's own sampler touches.
Elsewhere == UNCHANGED <<stop, left, disabled, elapsed, forks>>

-----------------------------------------------------------------------------
(* configure(true, t) *)

\* The wrapper of a new thread finds the process active and sampling enabled.
ThreadBegins(t) ==
    /\ state = "Active" /\ t \in Threads /\ Goes(t, "none", "new")
    /\ UNCHANGED <<state, samples, sampler, running, duration, late>> /\ Elsewhere

\* A wrong form of SetupTests: it does not ask whether the duration has elapsed.
SetupTestsNothing(t) ==
    /\ Goes(t, "new", "build")
    /\ UNCHANGED <<state, samples, sampler, running, duration, late>> /\ Elsewhere

SetupTests(t) ==
    /\ Goes(t, "new", IF disabled THEN "run" ELSE "build")
    /\ UNCHANGED <<state, samples, sampler, running, duration, late>> /\ Elsewhere

SetupBuilds(t) ==
    /\ Goes(t, "build", "launch")
    /\ sampler' = [sampler EXCEPT ![t] = "built"]
    /\ running' = [running EXCEPT ![t] = TRUE]
    /\ UNCHANGED <<state, samples, duration, late>> /\ Elsewhere

\* start_duration_thread: one thread, unless there is none.
SetupLaunchesDuration(t) ==
    /\ Goes(t, "launch", "start")
    /\ duration' = IF duration = "none" THEN "created" ELSE duration
    /\ UNCHANGED <<state, samples, sampler, running, late>> /\ Elsewhere

\* The sampler starts, stopped in the meantime or not, and the caller unblocks
\* its signals.
SetupStarts(t) ==
    /\ Goes(t, "start", "run")
    /\ sampler' = [sampler EXCEPT ![t] = "started"]
    /\ state' = IF t = Main THEN "Active" ELSE state
    /\ UNCHANGED <<samples, running, duration, late>> /\ Elsewhere

-----------------------------------------------------------------------------
(* The end of a thread: configure(false, t) *)

\* Only before the finalization does the wrapper run its destructor actions.
ThreadLeaves(t) ==
    /\ t \in Threads /\ Goes(t, "run", IF state = "Finalized" THEN "done" ELSE "leave")
    /\ UNCHANGED <<state, samples, sampler, running, duration, late>> /\ Elsewhere

\* The flag is tested and cleared in one step.
ThreadTestsRunning(t) ==
    /\ Goes(t, "leave", IF running[t] THEN "stop" ELSE "done")
    /\ running' = [running EXCEPT ![t] = FALSE]
    /\ UNCHANGED <<state, samples, sampler, duration, late>> /\ Elsewhere

\* notify_duration_thread: it has nothing to do and waits again.  The mutex of the
\* condition variable is left out, so a notification may also come too early.
Notified == IF duration = "waiting" THEN "woken" ELSE duration

ThreadStops(t) ==
    /\ Goes(t, "stop", "done")
    /\ sampler' = [sampler EXCEPT ![t] = "stopped"]
    /\ duration' = Notified
    /\ UNCHANGED <<state, samples, running, late>> /\ Elsewhere

-----------------------------------------------------------------------------
(* configure(false, 0), by the finalization or by the duration thread *)

StopStep(c, from, to) == stop[c] = from /\ stop' = [stop EXCEPT ![c] = to]

StopTests(c) ==
    /\ stop[c] = "test"
    /\ stop' = [stop EXCEPT ![c] = IF sampler[Main] # "none" /\ running[Main]
                                     THEN "mark" ELSE "idle"]
    /\ UNCHANGED <<state, samples, sampler, running, pc, left, duration, disabled,
                   elapsed, forks, late>>

StopMarks(c) ==
    /\ StopStep(c, "mark", "block")
    /\ running' = [running EXCEPT ![Main] = FALSE]
    /\ duration' = IF c = Main THEN Notified ELSE duration
    /\ UNCHANGED <<state, samples, sampler, pc, left, disabled, elapsed, forks, late>>

\* block_samples, then the sampler of the main thread.
StopBlocks(c) ==
    /\ StopStep(c, "block", "own")
    /\ samples' = FALSE
    /\ UNCHANGED <<state, sampler, running, pc, left, duration, disabled, elapsed,
                   forks, late>>

\* A wrong form of StopOwn: the loop over the others begins at 0.
StopOwnAgain(c) ==
    /\ StopStep(c, "own", "others")
    /\ sampler' = [sampler EXCEPT ![Main] = "stopped"]
    /\ left' = [left EXCEPT ![c] = All]
    /\ UNCHANGED <<state, samples, running, pc, duration, disabled, elapsed, forks, late>>

StopOwn(c) ==
    /\ StopStep(c, "own", "others")
    /\ sampler' = [sampler EXCEPT ![Main] = "stopped"]
    /\ left' = [left EXCEPT ![c] = Threads]
    /\ UNCHANGED <<state, samples, running, pc, duration, disabled, elapsed, forks, late>>

\* A wrong form of StopOther: the samplers of the other threads are not stopped.
StopOtherNever(c, t) ==
    /\ stop[c] = "others" /\ t \in left[c]
    /\ left' = [left EXCEPT ![c] = @ \ {t}]
    /\ UNCHANGED <<state, samples, sampler, running, pc, stop, duration, disabled,
                   elapsed, forks, late>>

StopOther(c, t) ==
    /\ stop[c] = "others" /\ t \in left[c]
    /\ left' = [left EXCEPT ![c] = @ \ {t}]
    /\ sampler' = IF sampler[t] = "started" THEN [sampler EXCEPT ![t] = "stopped"]
                                            ELSE sampler
    /\ UNCHANGED <<state, samples, running, pc, stop, duration, disabled, elapsed,
                   forks, late>>

StopResets(c) ==
    /\ left[c] = {} /\ StopStep(c, "others", "reset")
    /\ running' = [t \in All |-> running[t] /\ (t = Main \/ sampler[t] = "none")]
    /\ UNCHANGED <<state, samples, sampler, pc, left, duration, disabled, elapsed,
                   forks, late>>

\* stop_duration_thread, which does nothing in the duration thread itself.
StopNotifies(c) ==
    /\ stop[c] = "reset"
    /\ IF c = Main /\ duration # "none"
       THEN StopStep(c, "reset", "join") /\ duration' = Notified
       ELSE StopStep(c, "reset", "idle") /\ UNCHANGED duration
    /\ UNCHANGED <<state, samples, sampler, running, pc, left, disabled, elapsed, forks,
                   late>>

StopJoins(c) ==
    /\ StopStep(c, "join", "idle")
    /\ duration = "done" /\ duration' = "none"
    /\ UNCHANGED <<state, samples, sampler, running, pc, left, disabled, elapsed, forks,
                   late>>

StopRuns(c) ==
    \/ StopTests(c) \/ StopMarks(c) \/ StopBlocks(c) \/ StopOwn(c) \/ StopResets(c)
    \/ StopNotifies(c) \/ StopJoins(c) \/ \E t \in Threads : StopOther(c, t)

-----------------------------------------------------------------------------
(* The duration thread *)

InSetup == {t \in All : pc[t] \in {"new", "build", "launch", "start"}}

NotDuration == UNCHANGED <<state, samples, sampler, running, pc, left, forks>>

TimeElapses ==
    /\ duration # "none" /\ ~elapsed /\ elapsed' = TRUE
    /\ UNCHANGED <<duration, disabled, stop, late>> /\ NotDuration

\* It waits without a look at the state: a notification before is lost.
DurationWaits ==
    /\ duration = "created" /\ duration' = "waiting"
    /\ UNCHANGED <<elapsed, disabled, stop, late>> /\ NotDuration

\* A wrong form of DurationTimesOut: a wait without a deadline.
DurationNeverTimesOut == FALSE /\ UNCHANGED vars

DurationTimesOut ==
    /\ duration = "waiting" /\ elapsed /\ duration' = "woken"
    /\ UNCHANGED <<elapsed, disabled, stop, late>> /\ NotDuration

DurationWakes ==
    /\ duration = "woken"
    /\ \/ /\ state = "Finalized" /\ duration' = "done"
          /\ UNCHANGED <<disabled, stop, late>>
       \/ /\ state # "Finalized" /\ ~elapsed /\ duration' = "created"
          /\ UNCHANGED <<disabled, stop, late>>
       \/ /\ state # "Finalized" /\ elapsed /\ duration' = "stopping"
          /\ disabled' = TRUE /\ stop' = [stop EXCEPT !["duration"] = "test"]
          /\ late' = late \cup InSetup
    /\ UNCHANGED elapsed /\ NotDuration

DurationEnds ==
    /\ duration = "stopping" /\ stop["duration"] = "idle" /\ duration' = "done"
    /\ UNCHANGED <<elapsed, disabled, stop, late>> /\ NotDuration

DurationRuns ==
    DurationWaits \/ DurationTimesOut \/ DurationWakes \/ DurationEnds
        \/ StopRuns("duration")

-----------------------------------------------------------------------------
(* The finalization, by the main thread *)

NotMain == UNCHANGED <<sampler, running, left, disabled, elapsed, forks>>

FinalizeBlocks ==
    /\ Goes(Main, "run", "blocked") /\ samples' = FALSE
    /\ UNCHANGED <<state, stop, duration, late>> /\ NotMain

\* state = Finalized, and later sampling::shutdown.
FinalizeShutsDown ==
    /\ Goes(Main, "blocked", "stopping")
    /\ state' = "Finalized" /\ stop' = [stop EXCEPT ![Main] = "test"]
    /\ late' = late \cup InSetup
    /\ UNCHANGED <<samples, duration>> /\ NotMain

\* A wrong form of FinalizeStopsDuration: shutdown relies on configure.
FinalizeSkipsDuration ==
    /\ stop[Main] = "idle" /\ Goes(Main, "stopping", "join")
    /\ UNCHANGED <<state, samples, stop, duration, late>> /\ NotMain

\* shutdown stops the duration thread even if configure had nothing to stop.
FinalizeStopsDuration ==
    /\ stop[Main] = "idle" /\ Goes(Main, "stopping", "join")
    /\ stop' = [stop EXCEPT ![Main] = "reset"]
    /\ UNCHANGED <<state, samples, duration, late>> /\ NotMain

\* post_process calls configure(false, 0) once more before it reads.
FinalizePostProcesses ==
    /\ stop[Main] = "idle" /\ Goes(Main, "join", "post_process")
    /\ stop' = [stop EXCEPT ![Main] = "test"]
    /\ UNCHANGED <<state, samples, duration, late>> /\ NotMain

FinalizeReads ==
    /\ stop[Main] = "idle" /\ Goes(Main, "post_process", "output")
    /\ UNCHANGED <<state, samples, stop, duration, late>> /\ NotMain

FinalizeEnds ==
    /\ Goes(Main, "output", "end")
    /\ UNCHANGED <<state, samples, stop, duration, late>> /\ NotMain

MainFinalizes ==
    FinalizeShutsDown \/ FinalizeStopsDuration \/ FinalizePostProcesses
        \/ FinalizeReads \/ FinalizeEnds \/ StopRuns(Main)

-----------------------------------------------------------------------------
(* fork() in an application thread: block_samples and unblock_samples *)

ForkBegins(t) ==
    /\ t \in Threads /\ forks < MaxForks /\ Goes(t, "run", "fork")
    /\ forks' = forks + 1 /\ samples' = FALSE
    /\ UNCHANGED <<state, sampler, running, stop, left, duration, disabled, elapsed, late>>

ForkReturns(t) ==
    /\ Goes(t, "fork", "run") /\ samples' = TRUE
    /\ UNCHANGED <<state, sampler, running, stop, left, duration, disabled, elapsed,
                   forks, late>>

-----------------------------------------------------------------------------
ThreadRuns(t) ==
    \/ SetupTests(t) \/ SetupBuilds(t) \/ SetupLaunchesDuration(t) \/ SetupStarts(t)
    \/ ThreadTestsRunning(t) \/ ThreadStops(t) \/ ForkReturns(t)

Next ==
    \/ \E t \in All :
          ThreadBegins(t) \/ ThreadRuns(t) \/ ThreadLeaves(t) \/ ForkBegins(t)
    \/ TimeElapses \/ DurationRuns \/ FinalizeBlocks \/ MainFinalizes

\* Time passes and threads run; nothing makes a thread end or fork, and nothing
\* makes the application finalize.
Fairness ==
    /\ WF_vars(TimeElapses) /\ WF_vars(DurationRuns) /\ WF_vars(MainFinalizes)
    /\ \A t \in All : WF_vars(ThreadRuns(t))

Spec == Init /\ [][Next]_vars /\ Fairness

-----------------------------------------------------------------------------
(* Properties *)

\* A signal of thread t would be recorded.
Sampled(t) == samples /\ sampler[t] = "started" /\ pc[t] \in {"run", "fork", "done"}

\* ROCPROFSYS_SAMPLING_DURATION, "time (in seconds) to sample before stopping":
\* when all samplers have been stopped after it, no thread is sampled.
StopsReturned == \A c \in Stoppers : stop[c] \in {"idle", "join"}

DurationStopsSampling == disabled /\ StopsReturned => \A t \in All : ~Sampled(t)

\* What the code achieves: forks or not, only a thread whose sampler was being
\* set up at that moment goes on.
DurationStopsSettledThreads ==
    disabled /\ StopsReturned => \A t \in All \ late : ~Sampled(t)

\* The samples are read when the duration thread, which stops samplers itself,
\* has ended; only a thread that was in its setup then makes a new one.
DurationThreadIsJoined ==
    pc[Main] \in {"output", "end"} /\ duration # "none" => late # {}

\* While the samples are read, no settled thread adds to them.
OutputFindsSamplersStopped ==
    pc[Main] \in {"output", "end"} => \A t \in All \ late : ~Sampled(t)

\* The finalization does not wait for ever for the duration thread, although its
\* notification may be lost.
FinalizationEnds == pc[Main] = "blocked" ~> pc[Main] = "end"
=============================================================================
