----------------------------- MODULE TraceWindow -----------------------------
(***************************************************************************)
(* The thread that opens and closes the periods in which data is collected *)
(* (ROCPROFSYS_TRACE_DELAY, _DURATION and _PERIODS): categories::setup of  *)
(* core/categories.cpp and spec::operator() of core/constraint.cpp; and    *)
(* the main thread, whose initialization creates it and whose finalization *)
(* switches the categories on for the output.                              *)
(*                                                                         *)
(* Clocks are abstracted: a wait may end at any time, and its sleeps look  *)
(* at the state of the process in between.                                 *)
(***************************************************************************)
EXTENDS Categories, Sequences

CONSTANT Settings  \* the values of the settings: sequences of periods, each with its
                   \* delay, TRUE above 1.0e-3, duration, TRUE if positive, and
                   \* repeat, where 0 repeats for ever

ASSUME SettingsAssumption ==
    \A s \in Settings : s \in Seq([delay : BOOLEAN, duration : BOOLEAN, repeat : Nat])

ASSUME ActorsAssumption == {"main", "window"} \subseteq Actors

VARIABLES
    Specs,     \* get_trace_specs(), configured before the initialization
    main,      \* where the main thread is
    window,    \* where the thread of categories::setup is
    spec,      \* index of the period specification it executes
    round      \* how often it has executed it

windowVars == <<Specs, main, window, spec, round>>

MainStages == {"setup", "waiting", "ready", "active", "blocked", "finalizing",
               "output", "closing", "done", "gone"}
WindowStages == {"none", "created", "disabling", "spin", "init", "initializing",
                 "wait", "start", "starting", "collect", "stop", "stopping", "done"}

WindowTypeOK ==
    /\ CategoriesTypeOK
    /\ Specs \in Settings
    /\ main \in MainStages
    /\ window \in WindowStages
    /\ spec \in 1 .. Len(Specs) + 1
    /\ round \in Nat

WindowInit ==
    /\ CategoriesInit
    /\ Specs \in Settings
    /\ main = "setup"
    /\ window = "none"
    /\ spec = 1
    /\ round = 0

-----------------------------------------------------------------------------
(* The main thread *)

MainStep(from, to) ==
    /\ main = from
    /\ Swept("main")
    /\ main' = to
    /\ UNCHANGED <<Specs, spec, round>>

\* categories::setup: without a specification there is no thread.
SetupCategories ==
    /\ MainStep("setup", IF Specs = <<>> THEN "ready" ELSE "waiting")
    /\ window' = IF Specs = <<>> THEN "none" ELSE "created"
    /\ UNCHANGED catVars

\* The future's wait_for(1 s) ends by the promise or by the timeout.
SetupReturns ==
    /\ MainStep("waiting", "ready")
    /\ UNCHANGED <<window, catVars>>

\* The last operation of the initialization.
BecomeActive ==
    /\ MainStep("ready", "active")
    /\ state' = "Active"
    /\ UNCHANGED <<window, enabled, sweep, samples>>

\* rocprofsys_finalize: block_samples, set_state, enable_categories.
BlockSamples ==
    /\ MainStep("active", "blocked")
    /\ samples' = FALSE
    /\ UNCHANGED <<window, state, enabled, sweep>>

Finalize ==
    /\ MainStep("blocked", "finalizing")
    /\ state' = "Finalized"
    /\ SweepFrom("main", TRUE)
    /\ UNCHANGED <<window, enabled, samples>>

\* The flags are set and the components write what they hold.
WriteOutput ==
    /\ MainStep("finalizing", "output")
    /\ UNCHANGED <<window, catVars>>

\* categories::shutdown, at the end of the finalization.
ShutdownCategories ==
    /\ MainStep("output", "closing")
    /\ SweepFrom("main", FALSE)
    /\ UNCHANGED <<window, state, enabled, samples>>

FinalizeReturns ==
    /\ MainStep("closing", "done")
    /\ UNCHANGED <<window, catVars>>

MainNext ==
    \/ SetupCategories \/ SetupReturns \/ BecomeActive
    \/ BlockSamples \/ Finalize \/ WriteOutput \/ ShutdownCategories \/ FinalizeReturns

-----------------------------------------------------------------------------
(* The thread *)

Spec == Specs[spec]

WindowStep(from, to) ==
    /\ window = from
    /\ Swept("window")
    /\ window' = to
    /\ UNCHANGED <<Specs, main, spec, round>>

\* Nothing is recorded before the first period if it has a delay.
WindowStarts ==
    /\ WindowStep("created", "disabling")
    /\ IF Spec.delay THEN SweepFrom("window", FALSE) ELSE UNCHANGED sweep
    /\ UNCHANGED <<state, enabled, samples>>

\* The promise is set; the specifications are executed one after the other.
WindowSignals ==
    /\ WindowStep("disabling", "spin")
    /\ UNCHANGED catVars

\* A wrong form of LeaveSpec: the broken loop is entered again.
LeaveSpecNever ==
    /\ Swept("window")
    /\ window' = "spin"
    /\ round' = 0
    /\ UNCHANGED <<Specs, main, catVars, spec>>

\* The loop over the rounds is over or broken: on to the next specification.
LeaveSpec ==
    /\ Swept("window")
    /\ window' = IF spec = Len(Specs) THEN "done" ELSE "spin"
    /\ spec' = spec + 1
    /\ round' = 0
    /\ UNCHANGED <<Specs, main, catVars>>

\* while(get_state() < State::Active) sleep
PeriodBegins ==
    /\ state \in {"Active", "Finalized"}
    /\ WindowStep("spin", "init")
    /\ UNCHANGED catVars

\* stages.init: a period with a delay starts disabled, whatever the state.
InitPeriod ==
    /\ WindowStep("init", "initializing")
    /\ IF Spec.delay THEN SweepFrom("window", FALSE) ELSE UNCHANGED sweep
    /\ UNCHANGED <<state, enabled, samples>>

\* Each stage returns get_state() < State::Finalized; false breaks the loop.
InitReturns ==
    \/ /\ state # "Finalized"
       /\ WindowStep("initializing", "wait")
       /\ UNCHANGED catVars
    \/ window = "initializing" /\ state = "Finalized" /\ LeaveSpec

\* The delay is over, or one of its sleeps found the process finalized.
WaitEnds ==
    \/ WindowStep("wait", "start") /\ UNCHANGED catVars
    \/ window = "wait" /\ Spec.delay /\ state = "Finalized" /\ LeaveSpec

\* stages.start
StartPeriod ==
    /\ WindowStep("start", "starting")
    /\ SweepFrom("window", TRUE)
    /\ UNCHANGED <<state, enabled, samples>>

StartReturns ==
    \/ /\ state # "Finalized"
       /\ WindowStep("starting", "collect")
       /\ UNCHANGED catVars
    \/ window = "starting" /\ state = "Finalized" /\ LeaveSpec

\* stages.collect: without a duration the wait is over at once.
CollectEnds ==
    \/ WindowStep("collect", "stop") /\ UNCHANGED catVars
    \/ window = "collect" /\ Spec.duration /\ state = "Finalized" /\ LeaveSpec

\* stages.stop: disables unless the process is finalized, and looks again.
StopPeriod ==
    /\ WindowStep("stop", "stopping")
    /\ IF state # "Finalized" THEN SweepFrom("window", FALSE) ELSE UNCHANGED sweep
    /\ UNCHANGED <<state, enabled, samples>>

StopReturns ==
    /\ window = "stopping"
    /\ Swept("window")
    /\ \/ /\ state # "Finalized"
          /\ Spec.repeat = 0 \/ round + 1 < Spec.repeat
          /\ window' = "init"
          /\ round' = IF Spec.repeat = 0 THEN 0 ELSE round + 1
          /\ UNCHANGED <<Specs, main, spec, catVars>>
       \/ /\ state = "Finalized" \/ round + 1 = Spec.repeat
          /\ LeaveSpec

WindowRuns ==
    \/ WindowStarts \/ WindowSignals \/ PeriodBegins
    \/ InitPeriod \/ InitReturns \/ WaitEnds
    \/ StartPeriod \/ StartReturns \/ CollectEnds
    \/ StopPeriod \/ StopReturns
=============================================================================
