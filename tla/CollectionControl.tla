-------------------------- MODULE CollectionControl --------------------------
(***************************************************************************)
(* Who decides what is collected, and when: the period thread of           *)
(* TraceWindow, the fork handlers of ForkGotcha and the initialization and *)
(* finalization, which all write the same flags.                           *)
(***************************************************************************)
EXTENDS TraceWindow, ForkGotcha

VARIABLE forked     \* history: fork() has been called

controlVars == <<catVars, windowVars, forkVars, forked>>

ControlTypeOK == WindowTypeOK /\ ForkTypeOK /\ forked \in BOOLEAN

ControlInit == WindowInit /\ ForkInit /\ forked = FALSE

\* A sweep over the flags goes on: the step belongs to the actor's action.
ActorSetsFlag(a) ==
    /\ SetFlag(a)
    /\ UNCHANGED <<windowVars, forkVars, forked>>

MainRuns == MainNext /\ UNCHANGED <<forkVars, forked>>

WindowThreadRuns == WindowRuns /\ UNCHANGED <<forkVars, forked>>

ThreadForks(t) == CallFork(t) /\ forked' = TRUE /\ UNCHANGED windowVars

ForkHandlersRun(t) == ForkRuns(t) /\ UNCHANGED <<windowVars, forked>>

\* Neither the main thread nor the period thread is copied to the child.
ChildAppears(t) ==
    /\ ForkInChild(t)
    /\ main' = "gone"
    /\ window' = IF window = "none" THEN "none" ELSE "done"
    /\ UNCHANGED <<Specs, spec, round, forked>>

ControlNext ==
    \/ \E a \in Actors : ActorSetsFlag(a)
    \/ MainRuns
    \/ WindowThreadRuns
    \/ \E t \in Forkers : ThreadForks(t) \/ ForkHandlersRun(t) \/ ChildAppears(t)

\* All threads are scheduled, and waits end; nothing makes a thread fork and
\* nothing makes the application end.
ControlFairness ==
    /\ \A a \in Actors : WF_controlVars(ActorSetsFlag(a))
    /\ WF_controlVars(MainRuns /\ main # "active")
    /\ WF_controlVars(WindowThreadRuns)
    /\ \A t \in Forkers : WF_controlVars(ForkHandlersRun(t))

ControlSpec == ControlInit /\ [][ControlNext]_controlVars /\ ControlFairness

-----------------------------------------------------------------------------
(* Properties *)

\* Between the start of the tool and its finalization, and until a fork, a delay
\* and the end of a period are respected: flags are set only while a period is
\* open, and all of them are set while data is to be collected.
PeriodsGovernCollection ==
    state = "Active" /\ Specs # <<>> /\ ~forked =>
        /\ window = "collect" => enabled = All
        /\ Specs[1].delay /\ window \in {"spin", "wait", "done"} => enabled = {}

\* After the process is finalized the period thread does not go on for ever.
PeriodThreadEnds == state = "Finalized" ~> window \in {"none", "done"}

\* A period with a delay and no duration starts collecting after its delay and
\* goes on until the finalization: ROCPROFSYS_TRACE_DELAY set by itself.
DelayAloneCollects ==
    /\ \A i \in 1 .. Len(Specs) : ~Specs[i].duration
    /\ window = "done" /\ state = "Active"
        => enabled = All

\* While the components write their data at the end, no category is off.
OutputFindsCategoriesEnabled == main = "output" => enabled = All

NobodyForks == \A t \in Forkers : fork[t] = <<"idle">>

\* Until the finalization, which switches the categories on for the output, and
\* without a period thread, fork() itself is called with the collection off.
ForkSeesNothingEnabled ==
    \A t \in Forkers : state = "Active" /\ Specs = <<>> /\ fork[t] = <<"fork">> =>
        enabled = {} /\ (UseSampling => ~samples)

\* When all calls of fork() have returned, a process that was collecting is
\* collecting again.
ForksLeaveCollectionOn ==
    process = "root" /\ state = "Active" /\ NobodyForks /\ Specs = <<>>
        => enabled = All /\ (main = "active" => samples)

\* A child is finalized and collects nothing, as long as it does not fork.
ChildStaysQuiet ==
    process = "child" /\ (\E t \in Forkers : fork[t] = <<"idle">>)
        => state = "Finalized" /\ enabled = {}
=============================================================================
