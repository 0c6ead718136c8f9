------------------------ MODULE CallStackSampler_proofs ------------------------
(***************************************************************************)
(* Proofs about call-stack sampling, for every number of threads and of    *)
(* calls of fork().                                                        *)
(*                                                                         *)
(* The properties say that no settled thread is sampled once the stoppers  *)
(* have returned.  A stopper that finds running[Main] already cleared      *)
(* returns without stopping anything, so the invariant has to say who has  *)
(* cleared it: a stopper that is still on its way through the samplers, or *)
(* one that has been through (CoverIInv); and that no sampler is started   *)
(* behind its back but by a thread of `late' (SettledIInv).                *)
(***************************************************************************)
EXTENDS CallStackSampler, TLAPS

\* Sampling is over: the duration has elapsed, or the process is finalized.
Over == disabled \/ state = "Finalized"

SetupStages == {"new", "build", "launch", "start"}

\* Where the main thread is tells the state of the process; the other threads, and
\* the duration thread, exist only when it has set up its own sampler.
MainIInv ==
    /\ pc[Main] \in SetupStages \cup {"run"} \cup MainStages
    /\ state = "Init" <=> pc[Main] \in SetupStages
    /\ state = "Finalized" <=> pc[Main] \in MainStages \ {"blocked"}
    /\ \A t \in Threads : pc[t] \in ThreadStages /\ (pc[t] # "none" => state # "Init")
    /\ duration # "none" \/ disabled => pc[Main] \notin {"new", "build", "launch"}
    /\ sampler[Main] = "none" => ~running[Main]
    /\ ~Over /\ pc[Main] \notin {"new", "build"} => running[Main]

\* When the two stoppers are inside configure(false, 0), and that each has seen to
\* running[Main] when it is past its test.
StopIInv ==
    /\ duration = "stopping" => disabled
    /\ duration # "stopping" => stop["duration"] = "idle"
    /\ pc[Main] \notin {"stopping", "join", "post_process"} => stop[Main] = "idle"
    /\ pc[Main] = "join" => stop[Main] \in {"reset", "join", "idle"}
    /\ disabled /\ stop["duration"] \notin {"test", "mark"} => ~running[Main]
    /\ state = "Finalized" /\ stop[Main] \notin {"test", "mark"} => ~running[Main]

\* The finalization has joined the duration thread.
Joined ==
    \/ pc[Main] = "join" /\ stop[Main] = "idle"
    \/ pc[Main] \in {"post_process", "output", "end"}

JoinIInv == Joined => duration # "stopping" /\ (duration = "none" \/ late # {})

\* Threads that do not count as late set up no sampler any more.
SettledIInv ==
    Over => \A t \in All \ late : /\ pc[t] \notin {"build", "launch", "start"}
                                  /\ pc[t] = "new" => disabled

\* A stopper is on its way through the samplers of configure(false, 0), or has been
\* through when the main thread's sampler no longer counts as running.
CoverIInv ==
    /\ \A c \in Stoppers : stop[c] = "others" =>
         \A t \in All \ late : t \notin left[c] => sampler[t] # "started"
    /\ Over /\ ~running[Main] =>
         \/ \A t \in All \ late : sampler[t] # "started"
         \/ \E c \in Stoppers : stop[c] \in {"block", "own", "others"}

SamplerIInv ==
    SamplerTypeOK /\ MainIInv /\ StopIInv /\ JoinIInv /\ SettledIInv /\ CoverIInv

\* The constants and the names of the threads that stop the samplers.
LEMMA Names ==
    /\ Main \notin Threads /\ All = Threads \cup {Main} /\ Main # "duration"
    /\ Stoppers = {Main, "duration"} /\ MaxForks \in Nat
BY ThreadsAssumption DEF Main, All, Stoppers

\* The steps by who takes them: a thread, a stopper inside configure(false, 0), the
\* duration thread outside of it, the finalization outside of it.
ThreadMoves(t) == ThreadBegins(t) \/ ThreadRuns(t) \/ ThreadLeaves(t) \/ ForkBegins(t)

DurationMoves ==
    TimeElapses \/ DurationWaits \/ DurationTimesOut \/ DurationWakes \/ DurationEnds

FinalizeMoves ==
    \/ FinalizeBlocks \/ FinalizeShutsDown \/ FinalizeStopsDuration
    \/ FinalizePostProcesses \/ FinalizeReads \/ FinalizeEnds

\* Every step is a step of one of them.
LEMMA Movers ==
  ASSUME Next
  PROVE  \/ \E t \in All : ThreadMoves(t)
         \/ \E c \in Stoppers : StopRuns(c)
         \/ DurationMoves \/ FinalizeMoves
BY Names DEF Next, DurationRuns, MainFinalizes, ThreadMoves, DurationMoves, FinalizeMoves

\* The type invariant, in the parts that one step changes.
LEMMA TypeKept == ASSUME SamplerIInv, Next PROVE SamplerTypeOK'
<1>0. SamplerTypeOK
  BY DEF SamplerIInv
<1>1. ASSUME NEW t \in All, ThreadMoves(t) PROVE SamplerTypeOK'
  <2> USE <1>1 DEF ThreadMoves, ThreadBegins, ThreadRuns, ThreadLeaves, ForkBegins,
                   SetupTests, SetupBuilds, SetupLaunchesDuration, SetupStarts,
                   ThreadTestsRunning, ThreadStops, ForkReturns, Goes, Elsewhere, Notified
  <2>1. pc' \in [All -> ThreadStages \cup MainStages]
    BY <1>0 DEF SamplerTypeOK, ThreadStages
  <2>2. sampler' \in [All -> {"none", "built", "started", "stopped"}]
    BY <1>0 DEF SamplerTypeOK
  <2>3. running' \in [All -> BOOLEAN]
    BY <1>0 DEF SamplerTypeOK
  <2>4. /\ state' \in {"Init", "Active", "Finalized"} /\ samples' \in BOOLEAN
        /\ duration' \in {"none", "created", "waiting", "woken", "stopping", "done"}
    BY <1>0 DEF SamplerTypeOK
  <2>5. forks' \in 0 .. MaxForks
    <3>1. forks \in Nat /\ forks =< MaxForks /\ MaxForks \in Nat
      BY <1>0, Names DEF SamplerTypeOK
    <3>2. forks' = forks \/ (forks < MaxForks /\ forks' = forks + 1)
      OBVIOUS
    <3> QED
      BY <3>1, <3>2
  <2>6. UNCHANGED <<stop, left, disabled, elapsed, late>>
    OBVIOUS
  <2> QED
    BY <1>0, <2>1, <2>2, <2>3, <2>4, <2>5, <2>6 DEF SamplerTypeOK
<1>2. ASSUME NEW c \in Stoppers, StopRuns(c) PROVE SamplerTypeOK'
  <2> USE <1>2 DEF StopRuns, StopTests, StopMarks, StopBlocks, StopOwn, StopResets,
                   StopNotifies, StopJoins, StopOther, StopStep, Notified
  <2>1. stop' \in [Stoppers -> StopStages] /\ left' \in [Stoppers -> SUBSET Threads]
    BY <1>0 DEF SamplerTypeOK, StopStages
  <2>2. /\ sampler' \in [All -> {"none", "built", "started", "stopped"}]
        /\ running' \in [All -> BOOLEAN]
    BY <1>0 DEF SamplerTypeOK
  <2>3. /\ samples' \in BOOLEAN
        /\ duration' \in {"none", "created", "waiting", "woken", "stopping", "done"}
    BY <1>0 DEF SamplerTypeOK
  <2>4. UNCHANGED <<state, pc, disabled, elapsed, forks, late>>
    OBVIOUS
  <2> QED
    BY <1>0, <2>1, <2>2, <2>3, <2>4 DEF SamplerTypeOK
<1>3. ASSUME DurationMoves \/ FinalizeMoves PROVE SamplerTypeOK'
  <2> USE <1>3 DEF DurationMoves, TimeElapses, DurationWaits, DurationTimesOut,
                   DurationWakes, DurationEnds, InSetup, NotDuration, FinalizeMoves,
                   FinalizeBlocks, FinalizeShutsDown, FinalizeStopsDuration,
                   FinalizePostProcesses, FinalizeReads, FinalizeEnds, Goes, NotMain
  <2>1. stop' \in [Stoppers -> StopStages] /\ late' \subseteq All
    BY <1>0 DEF SamplerTypeOK, StopStages
  <2>2. pc' \in [All -> ThreadStages \cup MainStages]
    BY <1>0 DEF SamplerTypeOK, MainStages
  <2>3. /\ state' \in {"Init", "Active", "Finalized"}
        /\ samples' \in BOOLEAN /\ disabled' \in BOOLEAN /\ elapsed' \in BOOLEAN
        /\ duration' \in {"none", "created", "waiting", "woken", "stopping", "done"}
    BY <1>0 DEF SamplerTypeOK
  <2>4. UNCHANGED <<sampler, running, left, forks>>
    OBVIOUS
  <2> QED
    BY <1>0, <2>1, <2>2, <2>3, <2>4 DEF SamplerTypeOK
<1> QED
  BY <1>1, <1>2, <1>3, Movers

\* The main thread is past its own setup before there is anything to stop.
LEMMA MainKept == ASSUME SamplerIInv, Next PROVE MainIInv'
<1>1. ASSUME NEW t \in All, ThreadMoves(t) PROVE MainIInv'
  BY <1>1, Names DEF SamplerIInv, SamplerTypeOK, MainIInv, StopIInv, Over,
         ThreadStages, MainStages, SetupStages, StopStages, ThreadMoves,
         ThreadBegins, ThreadRuns, ThreadLeaves, ForkBegins, SetupTests,
         SetupBuilds, SetupLaunchesDuration, SetupStarts, ThreadTestsRunning,
         ThreadStops, ForkReturns, Goes, Elsewhere, Notified
<1>2. ASSUME NEW c \in Stoppers, StopRuns(c) PROVE MainIInv'
  BY <1>2, Names DEF SamplerIInv, SamplerTypeOK, MainIInv, StopIInv, Over,
         ThreadStages, MainStages, SetupStages, StopStages, StopRuns, StopTests,
         StopMarks, StopBlocks, StopOwn, StopResets, StopNotifies, StopJoins,
         StopOther, StopStep, Notified
<1>3. ASSUME DurationMoves PROVE MainIInv'
  BY <1>3, Names DEF SamplerIInv, SamplerTypeOK, MainIInv, StopIInv, Over,
         ThreadStages, MainStages, SetupStages, StopStages, DurationMoves,
         TimeElapses, DurationWaits, DurationTimesOut, DurationWakes, DurationEnds,
         InSetup, NotDuration
<1>4. ASSUME FinalizeMoves PROVE MainIInv'
  BY <1>4, Names DEF SamplerIInv, SamplerTypeOK, MainIInv, StopIInv, Over,
         ThreadStages, MainStages, SetupStages, StopStages, FinalizeMoves,
         FinalizeBlocks, FinalizeShutsDown, FinalizeStopsDuration,
         FinalizePostProcesses, FinalizeReads, FinalizeEnds, Goes, NotMain, InSetup
<1> QED
  BY <1>1, <1>2, <1>3, <1>4, Movers

\* A stopper is past its test only with running[Main] cleared, by itself or before.
LEMMA StopKept == ASSUME SamplerIInv, Next PROVE StopIInv'
<1>1. ASSUME NEW t \in All, ThreadMoves(t) PROVE StopIInv'
  BY <1>1, Names DEF SamplerIInv, SamplerTypeOK, MainIInv, StopIInv, StopStages,
         MainStages, ThreadMoves, ThreadBegins, ThreadRuns, ThreadLeaves,
         ForkBegins, SetupTests, SetupBuilds, SetupLaunchesDuration, SetupStarts,
         ThreadTestsRunning, ThreadStops, ForkReturns, Goes, Elsewhere, Notified
<1>2. ASSUME NEW c \in Stoppers, StopRuns(c) PROVE StopIInv'
  BY <1>2, Names DEF SamplerIInv, SamplerTypeOK, MainIInv, StopIInv, StopStages,
         MainStages, StopRuns, StopTests, StopMarks, StopBlocks, StopOwn,
         StopResets, StopNotifies, StopJoins, StopOther, StopStep, Notified
<1>3. ASSUME DurationMoves PROVE StopIInv'
  BY <1>3, Names DEF SamplerIInv, SamplerTypeOK, MainIInv, StopIInv, StopStages,
         MainStages, DurationMoves, TimeElapses, DurationWaits, DurationTimesOut,
         DurationWakes, DurationEnds, InSetup, NotDuration
<1>4. ASSUME FinalizeMoves PROVE StopIInv'
  BY <1>4, Names DEF SamplerIInv, SamplerTypeOK, MainIInv, StopIInv, StopStages,
         MainStages, FinalizeMoves, FinalizeBlocks, FinalizeShutsDown,
         FinalizeStopsDuration, FinalizePostProcesses, FinalizeReads, FinalizeEnds,
         Goes, NotMain, InSetup
<1> QED
  BY <1>1, <1>2, <1>3, <1>4, Movers

\* Once joined, the duration thread comes back only through a late thread.
LEMMA JoinKept == ASSUME SamplerIInv, Next PROVE JoinIInv'
<1>1. ASSUME NEW t \in All, ThreadMoves(t) PROVE JoinIInv'
  BY <1>1, Names DEF SamplerIInv, SamplerTypeOK, MainIInv, StopIInv, JoinIInv,
         Joined, SettledIInv, Over, MainStages, StopStages, ThreadMoves,
         ThreadBegins, ThreadRuns, ThreadLeaves, ForkBegins, SetupTests,
         SetupBuilds, SetupLaunchesDuration, SetupStarts, ThreadTestsRunning,
         ThreadStops, ForkReturns, Goes, Elsewhere, Notified
<1>2. ASSUME NEW c \in Stoppers, StopRuns(c) PROVE JoinIInv'
  BY <1>2, Names DEF SamplerIInv, SamplerTypeOK, MainIInv, StopIInv, JoinIInv,
         Joined, SettledIInv, Over, MainStages, StopStages, StopRuns, StopTests,
         StopMarks, StopBlocks, StopOwn, StopResets, StopNotifies, StopJoins,
         StopOther, StopStep, Notified
<1>3. ASSUME DurationMoves PROVE JoinIInv'
  BY <1>3, Names DEF SamplerIInv, SamplerTypeOK, MainIInv, StopIInv, JoinIInv,
         Joined, SettledIInv, Over, MainStages, StopStages, DurationMoves,
         TimeElapses, DurationWaits, DurationTimesOut, DurationWakes, DurationEnds,
         InSetup, NotDuration
<1>4. ASSUME FinalizeMoves PROVE JoinIInv'
  BY <1>4, Names DEF SamplerIInv, SamplerTypeOK, MainIInv, StopIInv, JoinIInv,
         Joined, SettledIInv, Over, MainStages, StopStages, FinalizeMoves,
         FinalizeBlocks, FinalizeShutsDown, FinalizeStopsDuration,
         FinalizePostProcesses, FinalizeReads, FinalizeEnds, Goes, NotMain, InSetup
<1> QED
  BY <1>1, <1>2, <1>3, <1>4, Movers

\* The threads that begin or are still in their setup when sampling is over are late,
\* or find the duration disabled.
LEMMA SettledKept == ASSUME SamplerIInv, Next PROVE SettledIInv'
<1>1. ASSUME NEW t \in All, ThreadMoves(t) PROVE SettledIInv'
  BY <1>1, Names DEF SamplerIInv, SamplerTypeOK, MainIInv, SettledIInv, Over,
         MainStages, ThreadMoves, ThreadBegins, ThreadRuns, ThreadLeaves,
         ForkBegins, SetupTests, SetupBuilds, SetupLaunchesDuration, SetupStarts,
         ThreadTestsRunning, ThreadStops, ForkReturns, Goes, Elsewhere, Notified
<1>2. ASSUME NEW c \in Stoppers, StopRuns(c) PROVE SettledIInv'
  BY <1>2, Names DEF SamplerIInv, SamplerTypeOK, MainIInv, SettledIInv, Over,
         MainStages, StopRuns, StopTests, StopMarks, StopBlocks, StopOwn,
         StopResets, StopNotifies, StopJoins, StopOther, StopStep, Notified
<1>3. ASSUME DurationMoves PROVE SettledIInv'
  BY <1>3, Names DEF SamplerIInv, SamplerTypeOK, MainIInv, SettledIInv, Over,
         MainStages, DurationMoves, TimeElapses, DurationWaits, DurationTimesOut,
         DurationWakes, DurationEnds, InSetup, NotDuration
<1>4. ASSUME FinalizeMoves PROVE SettledIInv'
  BY <1>4, Names DEF SamplerIInv, SamplerTypeOK, MainIInv, SettledIInv, Over,
         MainStages, FinalizeMoves, FinalizeBlocks, FinalizeShutsDown,
         FinalizeStopsDuration, FinalizePostProcesses, FinalizeReads, FinalizeEnds,
         Goes, NotMain, InSetup
<1> QED
  BY <1>1, <1>2, <1>3, <1>4, Movers

\* A stopper leaves no settled sampler started behind it.
LEMMA CoverKept == ASSUME SamplerIInv, Next PROVE CoverIInv'
<1>1. ASSUME NEW t \in All, ThreadMoves(t) PROVE CoverIInv'
  BY <1>1, Names DEF SamplerIInv, SamplerTypeOK, MainIInv, StopIInv, SettledIInv,
         CoverIInv, Over, MainStages, StopStages, SetupStages, ThreadMoves,
         ThreadBegins, ThreadRuns, ThreadLeaves, ForkBegins, SetupTests,
         SetupBuilds, SetupLaunchesDuration, SetupStarts, ThreadTestsRunning,
         ThreadStops, ForkReturns, Goes, Elsewhere, Notified
<1>2. ASSUME NEW c \in Stoppers, StopRuns(c) PROVE CoverIInv'
  BY <1>2, Names DEF SamplerIInv, SamplerTypeOK, MainIInv, StopIInv, SettledIInv,
         CoverIInv, Over, MainStages, StopStages, SetupStages, StopRuns, StopTests,
         StopMarks, StopBlocks, StopOwn, StopResets, StopNotifies, StopJoins,
         StopOther, StopStep, Notified
<1>3. ASSUME DurationMoves PROVE CoverIInv'
  BY <1>3, Names DEF SamplerIInv, SamplerTypeOK, MainIInv, StopIInv, SettledIInv,
         CoverIInv, Over, MainStages, StopStages, SetupStages, DurationMoves,
         TimeElapses, DurationWaits, DurationTimesOut, DurationWakes, DurationEnds,
         InSetup, NotDuration
<1>4. ASSUME FinalizeMoves PROVE CoverIInv'
  BY <1>4, Names DEF SamplerIInv, SamplerTypeOK, MainIInv, StopIInv, SettledIInv,
         CoverIInv, Over, MainStages, StopStages, SetupStages, FinalizeMoves,
         FinalizeBlocks, FinalizeShutsDown, FinalizeStopsDuration,
         FinalizePostProcesses, FinalizeReads, FinalizeEnds, Goes, NotMain, InSetup
<1> QED
  BY <1>1, <1>2, <1>3, <1>4, Movers

LEMMA InitIInv == Init => SamplerIInv
<1> SUFFICES ASSUME Init PROVE SamplerIInv
  OBVIOUS
<1>1. SamplerTypeOK
  <2>1. pc \in [All -> ThreadStages \cup MainStages]
    BY DEF Init, ThreadStages
  <2>2. stop \in [Stoppers -> StopStages] /\ left \in [Stoppers -> SUBSET Threads]
    BY DEF Init, StopStages
  <2>3. 0 \in 0 .. MaxForks
    BY Names
  <2> QED
    BY <2>1, <2>2, <2>3 DEF Init, SamplerTypeOK
<1>2. /\ pc[Main] = "new" /\ \A t \in Threads : pc[t] = "none"
      /\ sampler[Main] = "none" /\ ~running[Main]
      /\ stop[Main] = "idle" /\ stop["duration"] = "idle"
  BY Names DEF Init
<1>3. MainIInv
  BY <1>2 DEF Init, MainIInv, SetupStages, MainStages, ThreadStages, Over
<1>4. StopIInv
  BY <1>2 DEF Init, StopIInv
<1>5. JoinIInv /\ SettledIInv /\ CoverIInv
  BY <1>2, Names DEF Init, JoinIInv, Joined, SettledIInv, CoverIInv, Over
<1> QED
  BY <1>1, <1>3, <1>4, <1>5 DEF SamplerIInv

\* The invariant is inductive.
LEMMA NextIInv == SamplerIInv /\ [Next]_vars => SamplerIInv'
<1>1. CASE Next
  BY <1>1, TypeKept, MainKept, StopKept, JoinKept, SettledKept, CoverKept DEF SamplerIInv
<1>2. CASE UNCHANGED vars
  BY <1>2 DEF vars, SamplerIInv, SamplerTypeOK, MainIInv, StopIInv, JoinIInv, Joined,
              SettledIInv, CoverIInv, Over
<1> QED
  BY <1>1, <1>2

LEMMA AlwaysIInv == Spec => []SamplerIInv
BY InitIInv, NextIInv, PTL DEF Spec

-----------------------------------------------------------------------------
(* The theorems *)

\* Type correctness of the samplers, the threads and the two stoppers.
THEOREM CallStackTypeCorrect == Spec => []SamplerTypeOK
<1>1. SamplerIInv => SamplerTypeOK
  BY DEF SamplerIInv
<1> QED
  BY <1>1, AlwaysIInv, PTL

\* When the stoppers have returned, no settled sampler is started: the one of them
\* that found running[Main] cleared was preceded by the one that stopped them all.
LEMMA StoppedWhenReturned ==
  ASSUME SamplerIInv, Over, ~running[Main],
         \A c \in Stoppers : stop[c] \in {"idle", "join"}
  PROVE  \A t \in All \ late : ~Sampled(t)
BY DEF SamplerIInv, CoverIInv, Sampled

\* DurationStopsSettledThreads: when the duration has elapsed and every call of
\* configure(false, 0) has returned, only threads that were in their setup at the
\* time are sampled, whatever the finalization and fork() do meanwhile.
THEOREM DurationIsKept == Spec => []DurationStopsSettledThreads
<1>1. SamplerIInv => DurationStopsSettledThreads
  <2> SUFFICES ASSUME SamplerIInv, disabled, StopsReturned
               PROVE  \A t \in All \ late : ~Sampled(t)
    BY DEF DurationStopsSettledThreads
  <2>1. \A c \in Stoppers : stop[c] \in {"idle", "join"}
    BY DEF StopsReturned
  <2>2. ~running[Main]
    BY <2>1, Names DEF SamplerIInv, StopIInv
  <2> QED
    BY <2>1, <2>2, StoppedWhenReturned DEF Over
<1> QED
  BY <1>1, AlwaysIInv, PTL

\* DurationThreadIsJoined: the samples are read with no duration thread about, but
\* for one that a late thread has created after the join.
THEOREM DurationEndsBeforeOutput == Spec => []DurationThreadIsJoined
<1>1. SamplerIInv => DurationThreadIsJoined
  BY DEF SamplerIInv, JoinIInv, Joined, DurationThreadIsJoined
<1> QED
  BY <1>1, AlwaysIInv, PTL

\* OutputFindsSamplersStopped: no settled thread is sampled while post_process reads
\* what the samplers have recorded, whichever of the two stoppers came first.
THEOREM OutputIsUndisturbed == Spec => []OutputFindsSamplersStopped
<1>1. SamplerIInv => OutputFindsSamplersStopped
  <2> SUFFICES ASSUME SamplerIInv, pc[Main] \in {"output", "end"}
               PROVE  \A t \in All \ late : ~Sampled(t)
    BY DEF OutputFindsSamplersStopped
  <2>1. state = "Finalized"
    BY DEF SamplerIInv, MainIInv, MainStages
  <2>2. duration # "stopping"
    BY DEF SamplerIInv, JoinIInv, Joined
  <2>3. \A c \in Stoppers : stop[c] = "idle"
    BY <2>2, Names DEF SamplerIInv, StopIInv
  <2>4. ~running[Main]
    BY <2>1, <2>3, Names DEF SamplerIInv, StopIInv
  <2> QED
    BY <2>1, <2>3, <2>4, StoppedWhenReturned DEF Over
<1> QED
  BY <1>1, AlwaysIInv, PTL
=============================================================================
