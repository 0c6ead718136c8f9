------------------------- MODULE ProcessSampler_proofs -------------------------
(***************************************************************************)
(* Proofs about ProcessSampler, for every set of devices and any number of *)
(* forks.                                                                  *)
(***************************************************************************)
EXTENDS ProcessSampler, TLAPS

\* The owner of the lock is where it claims to be.
LockIInv ==
    /\ poll \in {"devices", "call"} => smi_lock = "poll" /\ todo \subseteq device_list
    /\ \A c \in Callers : smi[c] # <<>> /\ Head(smi[c]) = "closing" => smi_lock = c

Setup == {"setup", "spawn", "activate", "start"}
LateStages == {"lock", "devices", "call", "cpu_freq", "top", "done", "gone"}

\* The polling thread lives between MainSpawns and MainJoinsPoll, and after the
\* finalization it is on its way out of its loop.
PollIInv ==
    /\ main \in {"setup", "spawn"} => poll = "none"
    /\ main \in {"post_process", "end"} => poll = "done"
    /\ main \in Setup => state = "Init"
    /\ late > 0 => late = 1 /\ state = "Finalized" /\ poll \in LateStages

\* Without forks only the main thread sets amd_smi up and shuts it down; while
\* the state is Active and there are devices, the library is open.
LibraryIInv ==
    forks = 0 =>
      /\ smi["fork"] = <<>>
      /\ smi["main"] \in {<<>>, <<"open">>, <<"close">>, <<"closing">>}
      /\ main \in {"setup", "run"} => smi["main"] = <<>>
      /\ main \in Setup \cup {"run", "tool_fini"} => smi["main"] \in {<<>>, <<"open">>}
      /\ main = "setup" \/ smi["main"] = <<"open">> =>
            ~once /\ ~initialized /\ device_list = {} /\ library = "closed"
      /\ main \in Setup \cup {"run", "tool_fini"} => library = "open" \/ device_list = {}
      /\ main \notin Setup \cup {"run", "tool_fini"} => smi["main"] # <<"open">>
      /\ smi["main"] # <<>> /\ Head(smi["main"]) = "closing" => amd # "Active"
      /\ amd = "Active" => library = "open" \/ device_list = {}
      /\ poll = "call" => library = "open"

\* The type invariant in two parts: the flags, and everything else.
FlagsOK ==
    initialized \in BOOLEAN /\ once \in BOOLEAN /\ gpu_ready \in BOOLEAN /\ failed \in BOOLEAN

StagesOK ==
    /\ state \in {"Init", "Active", "Finalized"}
    /\ sampler \in {"PreInit", "Active", "Finalized"}
    /\ poll \in PollStages /\ todo \subseteq Devices
    /\ instances \in {"none", "set", "cleared"}
    /\ main \in MainStages
    /\ process \in {"parent", "child"} /\ forks \in 0 .. MaxForks
    /\ amd \in {"PreInit", "Active", "Disabled", "Finalized"}
    /\ device_list \in {{}, Devices}
    /\ library \in {"closed", "open"}
    /\ tool \in {"none", "active", "finished"}
    /\ smi \in [Callers -> Calls]
    /\ smi_lock \in {"free", "poll"} \cup Callers
    /\ late \in 0 .. 2

SamplerIInv == SamplerTypeOK /\ LockIInv /\ PollIInv /\ LibraryIInv

LEMMA TypeParts == SamplerTypeOK <=> FlagsOK /\ StagesOK
  BY Zenon DEF SamplerTypeOK, FlagsOK, StagesOK

LEMMA InitIInv == Init => SamplerIInv
  <1> SUFFICES ASSUME Init PROVE SamplerIInv
    OBVIOUS
  <1> USE ForksAssumption DEF Init
  <1>1. SamplerTypeOK
    <2>1. smi \in [Callers -> Calls]
      BY DEF Calls
    <2>2. FlagsOK
      BY Zenon DEF FlagsOK
    <2>3. StagesOK
      BY <2>1 DEF StagesOK, MainStages, PollStages
    <2> QED BY <2>2, <2>3, TypeParts
  <1>2. \A c \in Callers : smi[c] = <<>>
    OBVIOUS
  <1>3. LockIInv /\ PollIInv
    BY <1>2 DEF LockIInv, PollIInv, Setup
  <1>4. LibraryIInv
    BY <1>2 DEF LibraryIInv, Callers, Setup
  <1> QED BY <1>1, <1>3, <1>4 DEF SamplerIInv

\* The calls a thread has still to make.
LEMMA CallsLeft ==
    ASSUME NEW s \in Calls, s # <<>>
    PROVE  /\ Head(s) \in {"open", "close", "closing"}
           /\ Tail(s) \in {<<>>, <<"open">>}
           /\ Head(s) = "close" =>
                [s EXCEPT ![1] = "closing"] \in {<<"closing">>, <<"closing", "open">>}
  <1>1. CASE s = <<"open">>
    BY <1>1
  <1>2. CASE s = <<"close">>
    BY <1>2
  <1>3. CASE s = <<"closing">>
    BY <1>3
  <1>4. CASE s = <<"close", "open">>
    BY <1>4
  <1>5. CASE s = <<"closing", "open">>
    BY <1>5
  <1> QED BY <1>1, <1>2, <1>3, <1>4, <1>5 DEF Calls

LEMMA Heads ==
    /\ <<"open">> # <<>> /\ Head(<<"open">>) = "open"
    /\ <<"close">> # <<>> /\ Head(<<"close">>) = "close"
    /\ <<"closing">> # <<>> /\ Head(<<"closing">>) = "closing"
    /\ <<"close", "open">> # <<>> /\ Head(<<"close", "open">>) = "close"
    /\ <<"closing", "open">> # <<>> /\ Head(<<"closing", "open">>) = "closing"
  OBVIOUS

-----------------------------------------------------------------------------
(* Type correctness *)

LEMMA FlagsKept == ASSUME FlagsOK, Next PROVE FlagsOK'
  <1> USE DEF FlagsOK
  <1>1. CASE PollRuns
    <2>1. failed' \in BOOLEAN
      BY <1>1, Zenon DEF PollRuns, PollConfigTests, PollConfigCalls, PollLoop, PollWakes,
           PollBegins, PollLocks, PollDeviceTests, PollDeviceCalls, PollUnlocks,
           PollCpuFreq, PollOnlyMoves, LibraryCall
    <2>2. UNCHANGED <<initialized, once, gpu_ready>>
      BY <1>1, Zenon DEF PollRuns, PollConfigTests, PollConfigCalls, PollLoop, PollWakes,
           PollBegins, PollLocks, PollDeviceTests, PollDeviceCalls, PollUnlocks,
           PollCpuFreq, PollOnlyMoves, NotPolls
    <2> QED BY <2>1, <2>2, Zenon
  <1>2. CASE MainRuns
    BY <1>2, Zenon DEF MainRuns, MainSetsUp, MainSpawns, MainActivates, MainFinalizes,
         MainEndsTool, MainStopsSampler, MainJoinsPoll, MainPostProcesses, MainMoves
  <1>3. CASE ToolInit \/ ForkInParent \/ ForkInChild
    BY <1>3, Zenon DEF ToolInit, ForkInParent, ForkInChild, smiVars
  <1>4. ASSUME NEW c \in Callers, SmiSetup(c) PROVE FlagsOK'
    <2>1. CASE UNCHANGED <<initialized, once, gpu_ready>>
      BY <1>4, <2>1, Zenon DEF SmiSetup
    <2>2. CASE \E ok \in BOOLEAN : OpenLibrary(ok)
      <3>1. once' \in BOOLEAN /\ gpu_ready' \in BOOLEAN
        BY <2>2, Zenon DEF OpenLibrary
      <3>2. initialized' \in BOOLEAN /\ UNCHANGED failed
        BY <1>4, Zenon DEF SmiSetup
      <3> QED BY <3>1, <3>2, Zenon
    <2> QED BY <1>4, <2>1, <2>2, Zenon DEF SmiSetup
  <1>5. ASSUME NEW c \in Callers, SmiShutdown(c) \/ SmiCloses(c) PROVE FlagsOK'
    BY <1>5, Zenon DEF SmiShutdown, SmiCloses
  <1> QED BY <1>1, <1>2, <1>3, <1>4, <1>5, Zenon DEF Next, SmiRuns

LEMMA StagesKept == ASSUME StagesOK, Next PROVE StagesOK'
  <1> USE ForksAssumption DEF StagesOK
  <1>1. CASE PollRuns
    <2>1. UNCHANGED NotPolls
      BY <1>1 DEF PollRuns, PollConfigTests, PollConfigCalls, PollLoop, PollWakes,
           PollBegins, PollLocks, PollDeviceTests, PollDeviceCalls, PollUnlocks,
           PollCpuFreq, PollOnlyMoves
    <2>2. /\ poll' \in PollStages /\ todo' \subseteq Devices /\ late' \in 0 .. 2
          /\ amd' \in {"PreInit", "Active", "Disabled", "Finalized"}
          /\ smi_lock' \in {"free", "poll"} \cup Callers
      BY <1>1 DEF PollRuns, PollConfigTests, PollConfigCalls, PollLoop, PollWakes,
           PollBegins, PollLocks, PollDeviceTests, PollDeviceCalls, PollUnlocks,
           PollCpuFreq, PollOnlyMoves, PollStep, PollStages, LibraryCall
    <2> QED BY <2>1, <2>2 DEF NotPolls
  <1>2. CASE MainRuns
    <2>1. smi' \in [Callers -> Calls]
      BY <1>2 DEF MainRuns, MainSetsUp, MainSpawns, MainActivates, MainFinalizes,
           MainEndsTool, MainStopsSampler, MainJoinsPoll, MainPostProcesses, MainCalls,
           Calls, Callers
    <2> QED BY <1>2, <2>1 DEF MainRuns, MainSetsUp, MainSpawns, MainActivates,
              MainFinalizes, MainEndsTool, MainStopsSampler, MainJoinsPoll,
              MainPostProcesses, MainMoves, MainStages, PollStages
  <1>3. CASE ToolInit
    BY <1>3 DEF ToolInit, samplerVars
  <1>4. CASE ForkInParent
    <2>1. smi' \in [Callers -> Calls]
      BY <1>4 DEF ForkInParent, Calls
    <2> QED BY <1>4, <2>1 DEF ForkInParent, smiVars
  <1>5. CASE ForkInChild
    <2>1. smi' \in [Callers -> Calls]
      BY <1>5 DEF ForkInChild, Calls
    <2> QED BY <1>5, <2>1 DEF ForkInChild, MainStages, PollStages
  <1>6. ASSUME NEW c \in Callers, SmiNext(c), smi[c] # <<>>
        PROVE  smi' \in [Callers -> Calls]
    <2>1. Tail(smi[c]) \in Calls
      BY <1>6, CallsLeft DEF Calls
    <2> QED BY <1>6, <2>1 DEF SmiNext
  <1>7. ASSUME NEW c \in Callers, SmiSetup(c) PROVE StagesOK'
    <2>1. smi' \in [Callers -> Calls]
      BY <1>6, <1>7 DEF SmiSetup
    <2> QED BY <1>7, <2>1 DEF SmiSetup, OpenLibrary, samplerVars
  <1>8. ASSUME NEW c \in Callers, SmiShutdown(c) PROVE StagesOK'
    <2>1. smi' \in [Callers -> Calls]
      <3>1. CASE SmiNext(c)
        BY <1>6, <1>8, <3>1 DEF SmiShutdown
      <3>2. CASE smi' = [smi EXCEPT ![c][1] = "closing"]
        <4>1. [smi[c] EXCEPT ![1] = "closing"] \in Calls
          BY <1>8, CallsLeft DEF SmiShutdown, Calls
        <4> QED BY <3>2, <4>1
      <3> QED BY <1>8, <3>1, <3>2 DEF SmiShutdown
    <2> QED BY <1>8, <2>1 DEF SmiShutdown, samplerVars
  <1>9. ASSUME NEW c \in Callers, SmiCloses(c) PROVE StagesOK'
    <2>1. smi' \in [Callers -> Calls]
      BY <1>6, <1>9 DEF SmiCloses
    <2> QED BY <1>9, <2>1 DEF SmiCloses, samplerVars
  <1> QED BY <1>1, <1>2, <1>3, <1>4, <1>5, <1>7, <1>8, <1>9 DEF Next, SmiRuns

-----------------------------------------------------------------------------
(* The polling thread and its rounds *)

LEMMA PollKept == ASSUME SamplerIInv, Next PROVE PollIInv'
  <1> USE DEF PollIInv, Setup, LateStages
  <1>1. PollIInv /\ StagesOK
    BY TypeParts DEF SamplerIInv
  <1>2. CASE PollRuns
    <2>1. UNCHANGED <<state, main>>
      BY <1>2 DEF PollRuns, PollConfigTests, PollConfigCalls, PollLoop, PollWakes,
           PollBegins, PollLocks, PollDeviceTests, PollDeviceCalls, PollUnlocks,
           PollCpuFreq, PollOnlyMoves, NotPolls
    <2>2. CASE PollBegins
      BY <1>1, <2>1, <2>2 DEF PollBegins, PollStep, StagesOK
    <2>3. CASE ~PollBegins
      <3>1. UNCHANGED late /\ poll \notin {"none", "done"}
        BY <1>2, <2>3 DEF PollRuns, PollConfigTests, PollConfigCalls, PollLoop, PollWakes,
             PollLocks, PollDeviceTests, PollDeviceCalls, PollUnlocks, PollCpuFreq,
             PollOnlyMoves, PollStep
      <3>2. poll \in LateStages /\ state = "Finalized" => poll' \in LateStages
        BY <1>2, <2>3 DEF PollRuns, PollConfigTests, PollConfigCalls, PollLoop, PollWakes,
             PollLocks, PollDeviceTests, PollDeviceCalls, PollUnlocks, PollCpuFreq,
             PollOnlyMoves, PollStep
      <3> QED BY <1>1, <2>1, <3>1, <3>2
    <2> QED BY <2>2, <2>3
  <1>3. CASE MainRuns
    BY <1>1, <1>3 DEF MainRuns, MainSetsUp, MainSpawns, MainActivates, MainFinalizes,
         MainEndsTool, MainStopsSampler, MainJoinsPoll, MainPostProcesses, MainMoves,
         StagesOK
  <1>4. CASE ToolInit \/ ForkInParent
    BY <1>1, <1>4 DEF ToolInit, ForkInParent, samplerVars
  <1>5. CASE ForkInChild
    BY <1>1, <1>5 DEF ForkInChild
  <1>6. ASSUME NEW c \in Callers, SmiRuns(c) PROVE PollIInv'
    BY <1>1, <1>6 DEF SmiRuns, SmiSetup, SmiShutdown, SmiCloses, samplerVars
  <1> QED BY <1>2, <1>3, <1>4, <1>5, <1>6 DEF Next

-----------------------------------------------------------------------------
(* The lock *)

Closing(c) == smi[c] # <<>> /\ Head(smi[c]) = "closing"

\* A call that returns leaves nothing to close behind.
LEMMA NextNotClosing ==
    ASSUME StagesOK, NEW c \in Callers, smi[c] # <<>>, SmiNext(c)
    PROVE  ~Closing(c)' /\ \A b \in Callers \ {c} : smi'[b] = smi[b]
  <1>1. smi'[c] = Tail(smi[c])
    BY DEF SmiNext, StagesOK
  <1>2. smi'[c] \in {<<>>, <<"open">>}
    BY <1>1, CallsLeft DEF StagesOK
  <1>3. ~Closing(c)'
    BY <1>2, Heads DEF Closing
  <1> QED BY <1>3 DEF SmiNext, StagesOK

\* shutdown closes the library once it has the lock, and not before.
LEMMA ShutdownCloses ==
    ASSUME StagesOK, NEW c \in Callers, SmiShutdown(c)
    PROVE  /\ \A b \in Callers : Closing(b)' => smi_lock' = b \/ Closing(b)
           /\ smi_lock = "free" /\ smi_lock' \in {"free", c}
           /\ \A b \in Callers \ {c} : smi'[b] = smi[b]
           /\ smi'[c] \in {Tail(smi[c]), [smi[c] EXCEPT ![1] = "closing"]}
           /\ Closing(c)' => amd' = "Finalized"
  <1>1. CASE SmiNext(c) /\ UNCHANGED <<amd, smi_lock>>
    <2>1. ~Closing(c)' /\ \A b \in Callers \ {c} : smi'[b] = smi[b]
      BY <1>1, NextNotClosing DEF SmiShutdown
    <2>2. smi'[c] = Tail(smi[c])
      BY <1>1 DEF SmiNext, StagesOK
    <2> QED BY <1>1, <2>1, <2>2 DEF SmiShutdown, Closing
  <1>2. CASE /\ amd' = "Finalized" /\ smi_lock' = c
             /\ smi' = [smi EXCEPT ![c][1] = "closing"]
    <2>1. smi'[c] = [smi[c] EXCEPT ![1] = "closing"]
      BY <1>2 DEF StagesOK
    <2>3. \A b \in Callers \ {c} : smi'[b] = smi[b]
      BY <1>2 DEF StagesOK
    <2> QED BY <1>2, <2>1, <2>3 DEF SmiShutdown, Closing
  <1> QED BY <1>1, <1>2 DEF SmiShutdown

LEMMA LockKept == ASSUME SamplerIInv, Next PROVE LockIInv'
  <1>1. LockIInv /\ StagesOK
    BY TypeParts DEF SamplerIInv
  <1>2. \A c \in Callers : c # "poll" /\ c # "free"
    BY DEF Callers
  <1>3. ASSUME UNCHANGED smi PROVE \A c \in Callers : Closing(c)' = Closing(c)
    BY <1>3 DEF Closing
  <1>4. CASE PollRuns
    <2>1. UNCHANGED <<smi, device_list>>
      BY <1>4 DEF PollRuns, PollConfigTests, PollConfigCalls, PollLoop, PollWakes,
           PollBegins, PollLocks, PollDeviceTests, PollDeviceCalls, PollUnlocks,
           PollCpuFreq, PollOnlyMoves, NotPolls
    <2>2. poll' \in {"devices", "call"} => smi_lock' = "poll" /\ todo' \subseteq device_list
      <3>1. CASE PollLocks
        BY <3>1 DEF PollLocks
      <3>2. CASE \E d \in Devices : PollDeviceTests(d)
        <4>1. PICK d \in todo : poll = "devices" /\ todo' = todo \ {d} /\ UNCHANGED smi_lock
          BY <3>2 DEF PollDeviceTests, PollOnlyMoves
        <4> QED BY <1>1, <4>1 DEF LockIInv
      <3>4. CASE PollDeviceCalls
        <4>1. poll = "call" /\ UNCHANGED <<todo, smi_lock>>
          BY <3>4 DEF PollDeviceCalls, PollStep
        <4> QED BY <1>1, <4>1 DEF LockIInv
      <3>3. CASE \/ PollConfigTests \/ PollConfigCalls \/ PollLoop \/ PollWakes
                 \/ PollBegins \/ PollUnlocks \/ PollCpuFreq
        BY <1>1, <3>3 DEF PollConfigTests, PollConfigCalls, PollLoop, PollWakes, PollBegins,
             PollUnlocks, PollCpuFreq, PollStep, StagesOK
      <3> QED BY <1>4, <3>1, <3>2, <3>3, <3>4 DEF PollRuns
    <2>3. smi_lock' = smi_lock \/ smi_lock \in {"free", "poll"}
      BY <1>1, <1>4 DEF PollRuns, PollConfigTests, PollConfigCalls, PollLoop, PollWakes,
           PollBegins, PollLocks, PollDeviceTests, PollDeviceCalls, PollUnlocks,
           PollCpuFreq, PollOnlyMoves, PollStep, LockIInv
    <2> QED BY <1>1, <1>2, <2>1, <2>2, <2>3 DEF LockIInv
  <1>5. CASE MainRuns
    <2>1. UNCHANGED <<todo, device_list, smi_lock>> /\ smi["main"] = <<>>
      BY <1>5 DEF MainRuns, MainSetsUp, MainSpawns, MainActivates, MainFinalizes,
           MainEndsTool, MainStopsSampler, MainJoinsPoll, MainPostProcesses, MainMoves
    <2>2. poll' \in {"devices", "call"} => poll = poll'
      BY <1>5 DEF MainRuns, MainSetsUp, MainSpawns, MainActivates, MainFinalizes,
           MainEndsTool, MainStopsSampler, MainJoinsPoll, MainPostProcesses, MainMoves
    <2>3. \/ UNCHANGED smi
          \/ smi' = [smi EXCEPT !["main"] = <<"open">>]
          \/ smi' = [smi EXCEPT !["main"] = <<"close">>]
      BY <1>5 DEF MainRuns, MainSetsUp, MainSpawns, MainActivates, MainFinalizes,
           MainEndsTool, MainStopsSampler, MainJoinsPoll, MainPostProcesses, MainCalls
    <2>4. \A c \in Callers : Closing(c)' => Closing(c)
      BY <1>1, <2>3, Heads DEF Closing, StagesOK
    <2> QED BY <1>1, <2>1, <2>2, <2>4 DEF LockIInv, Closing
  <1>6. CASE ToolInit
    BY <1>1, <1>6 DEF ToolInit, samplerVars, LockIInv
  <1>7. CASE ForkInParent
    <2>1. \A c \in Callers : Closing(c)' => Closing(c)
      BY <1>1, <1>7, Heads DEF ForkInParent, Closing, StagesOK
    <2> QED BY <1>1, <1>7, <2>1 DEF ForkInParent, smiVars, LockIInv, Closing
  <1>8. CASE ForkInChild
    <2>1. \A c \in Callers : smi'[c] = <<>>
      BY <1>8 DEF ForkInChild
    <2> QED BY <1>8, <2>1 DEF ForkInChild, LockIInv
  <1>9. ASSUME NEW c \in Callers, SmiSetup(c) PROVE LockIInv'
    <2>1. ~Closing(c)' /\ \A b \in Callers \ {c} : smi'[b] = smi[b]
      BY <1>1, <1>9, NextNotClosing DEF SmiSetup
    <2>2. UNCHANGED <<poll, smi_lock>> /\ smi_lock = "free"
      BY <1>9 DEF SmiSetup, samplerVars
    <2> QED BY <1>1, <2>1, <2>2 DEF LockIInv, Closing
  <1>10. ASSUME NEW c \in Callers, SmiShutdown(c) PROVE LockIInv'
    <2>1. UNCHANGED <<poll, todo, device_list>> /\ smi_lock = "free"
      BY <1>10 DEF SmiShutdown, samplerVars
    <2>2. ASSUME NEW b \in Callers, Closing(b)' PROVE smi_lock' = b
      <3>1. smi_lock' = b \/ Closing(b)
        BY <1>1, <1>10, <2>2, ShutdownCloses
      <3> QED BY <1>1, <1>2, <2>1, <3>1 DEF LockIInv, Closing
    <2> QED BY <1>1, <2>1, <2>2 DEF LockIInv, Closing
  <1>11. ASSUME NEW c \in Callers, SmiCloses(c) PROVE LockIInv'
    <2>1. ~Closing(c)' /\ \A b \in Callers \ {c} : smi'[b] = smi[b]
      BY <1>1, <1>11, NextNotClosing DEF SmiCloses
    <2>2. UNCHANGED <<poll, todo, device_list>> /\ smi_lock = c
      BY <1>1, <1>11 DEF SmiCloses, samplerVars, LockIInv
    <2>3. \A b \in Callers : ~Closing(b)'
      BY <1>1, <2>1, <2>2 DEF LockIInv, Closing
    <2> QED BY <1>1, <1>2, <2>2, <2>3 DEF LockIInv, Closing
  <1> QED BY <1>4, <1>5, <1>6, <1>7, <1>8, <1>9, <1>10, <1>11 DEF Next, SmiRuns

-----------------------------------------------------------------------------
(* The library *)

\* The main thread before it ends the tool.
Early == Setup \cup {"run", "tool_fini"}

LEMMA LibraryKept == ASSUME SamplerIInv, Next PROVE LibraryIInv'
  <1>1. LockIInv /\ PollIInv /\ LibraryIInv /\ StagesOK
    BY TypeParts DEF SamplerIInv
  <1> SUFFICES ASSUME forks' = 0 PROVE LibraryIInv'
    BY DEF LibraryIInv
  <1>2. forks = 0
    BY <1>1 DEF Next, PollRuns, PollConfigTests, PollConfigCalls, PollLoop, PollWakes,
       PollBegins, PollLocks, PollDeviceTests, PollDeviceCalls, PollUnlocks, PollCpuFreq,
       PollOnlyMoves, NotPolls, MainRuns, MainSetsUp, MainSpawns, MainActivates,
       MainFinalizes, MainEndsTool, MainStopsSampler, MainJoinsPoll, MainPostProcesses,
       MainMoves, ToolInit, ForkInParent, ForkInChild, SmiRuns, SmiSetup, SmiShutdown,
       SmiCloses, samplerVars, StagesOK
  <1> USE <1>2 DEF LibraryIInv, Setup
  <1>3. CASE PollRuns
    <2>1. UNCHANGED <<main, once, initialized, device_list, library, smi>>
      BY <1>3 DEF PollRuns, PollConfigTests, PollConfigCalls, PollLoop, PollWakes,
           PollBegins, PollLocks, PollDeviceTests, PollDeviceCalls, PollUnlocks,
           PollCpuFreq, PollOnlyMoves, NotPolls
    <2>2. amd' = amd \/ amd' = "Disabled"
      BY <1>3 DEF PollRuns, PollConfigTests, PollConfigCalls, PollLoop, PollWakes,
           PollBegins, PollLocks, PollDeviceTests, PollDeviceCalls, PollUnlocks,
           PollCpuFreq, PollOnlyMoves, LibraryCall
    <2>3. poll' = "call" => library = "open"
      <3>1. CASE \E d \in Devices : PollDeviceTests(d)
        <4>1. PICK d \in todo : poll = "devices" /\ (poll' = "call" => amd = "Active")
          BY <3>1 DEF PollDeviceTests
        <4>2. device_list # {}
          BY <1>1, <4>1 DEF LockIInv
        <4> QED BY <1>1, <4>1, <4>2
      <3>2. CASE ~ \E d \in Devices : PollDeviceTests(d)
        BY <1>1, <1>3, <3>2 DEF PollRuns, PollConfigTests, PollConfigCalls, PollLoop,
             PollWakes, PollBegins, PollLocks, PollDeviceCalls, PollUnlocks, PollCpuFreq,
             PollStep, StagesOK
      <3> QED BY <3>1, <3>2
    <2> QED BY <1>1, <2>1, <2>2, <2>3
  <1>4. CASE MainRuns
    <2>1. /\ smi["main"] = <<>> /\ smi \in [Callers -> Calls] /\ {"main", "fork"} = Callers
          /\ UNCHANGED <<once, initialized, device_list, library, amd>>
          /\ poll' # "call" \/ poll' = poll
      BY <1>1, <1>4 DEF MainRuns, MainSetsUp, MainSpawns, MainActivates, MainFinalizes,
           MainEndsTool, MainStopsSampler, MainJoinsPoll, MainPostProcesses, MainMoves,
           StagesOK, Callers
    <2>2. CASE MainSetsUp
      <3>1. smi'["main"] = <<"open">> /\ smi'["fork"] = smi["fork"]
        BY <2>1, <2>2 DEF MainSetsUp, MainCalls
      <3>2. main = "setup" /\ main' = "spawn"
        BY <2>2 DEF MainSetsUp, MainMoves
      <3> QED BY <1>1, <2>1, <3>1, <3>2, Heads
    <2>3. CASE MainSpawns \/ MainActivates \/ MainFinalizes \/ MainJoinsPoll \/ MainPostProcesses
      <3>1. UNCHANGED smi
        BY <2>3 DEF MainSpawns, MainActivates, MainFinalizes, MainJoinsPoll, MainPostProcesses
      <3>2. \/ main \in Early /\ main' \in Early \ {"setup"}
            \/ main \notin Early /\ main' \notin Early
        BY <2>3 DEF MainSpawns, MainActivates, MainFinalizes, MainJoinsPoll,
                    MainPostProcesses, MainMoves, Early
      <3>3. smi'["main"] = <<>> /\ smi'["main"] # <<"open">>
        BY <2>1, <3>1
      <3> QED BY <1>1, <2>1, <3>1, <3>2, <3>3 DEF Early
    <2>4. CASE MainEndsTool \/ MainStopsSampler
      <3>1. smi'["main"] \in {<<>>, <<"close">>} /\ smi'["fork"] = smi["fork"]
        BY <2>1, <2>4 DEF MainEndsTool, MainStopsSampler, MainCalls
      <3>2. main' \notin Early
        BY <2>4 DEF MainEndsTool, MainStopsSampler, MainMoves, Early
      <3>3. smi'["main"] # <<"open">> /\ ~Closing("main")'
        BY <3>1, Heads DEF Closing
      <3> QED BY <1>1, <2>1, <3>1, <3>2, <3>3 DEF Early, Closing
    <2> QED BY <1>4, <2>2, <2>3, <2>4 DEF MainRuns
  <1>5. CASE ToolInit
    <2>1. main = "run" /\ UNCHANGED <<main, poll, once, initialized, device_list, library, smi>>
      BY <1>5 DEF ToolInit, samplerVars
    <2> QED BY <1>1, <2>1
  <1>6. CASE ForkInParent \/ ForkInChild
    BY <1>1, <1>6 DEF ForkInParent, ForkInChild, StagesOK
  <1>7. ASSUME NEW c \in Callers, SmiRuns(c) PROVE LibraryIInv'
    <2>1. c = "main" /\ UNCHANGED <<main, poll>> /\ smi["main"] # <<>>
      BY <1>1, <1>7 DEF SmiRuns, SmiSetup, SmiShutdown, SmiCloses, samplerVars, Callers
    <2>2. \A b \in Callers : b # "main" => b = "fork"
      BY DEF Callers
    <2>3. CASE SmiSetup(c)
      <3>1. ~Closing(c)' /\ \A b \in Callers \ {c} : smi'[b] = smi[b]
        BY <1>1, <2>1, <2>3, NextNotClosing DEF SmiSetup
      <3>2. smi'["main"] = <<>> /\ smi["main"] = <<"open">>
        <4>1. smi["main"] \in Calls /\ Head(smi["main"]) = "open"
          BY <1>1, <2>1, <2>3 DEF SmiSetup, StagesOK
        <4>2. smi["main"] = <<"open">>
          BY <2>1, <4>1, Heads DEF Calls
        <4>3. smi'["main"] = Tail(smi["main"])
          BY <1>1, <2>1, <2>3 DEF SmiSetup, SmiNext, StagesOK
        <4> QED BY <4>2, <4>3
      <3>3. ~once /\ ~initialized /\ device_list = {} /\ main # "setup"
        BY <1>1, <2>1, <3>2
      <3>4. library' = "open" \/ device_list' = {}
        BY <2>3, <3>3 DEF SmiSetup, OpenLibrary
      <3>5. poll # "call"
        BY <1>1, <2>3 DEF SmiSetup, LockIInv
      <3>6. smi'["fork"] = <<>> /\ smi'["main"] # <<"open">>
        BY <1>1, <2>1, <3>1, <3>2 DEF Callers
      <3> QED BY <1>1, <2>1, <3>2, <3>3, <3>4, <3>5, <3>6
    <2>4. CASE SmiShutdown(c)
      <3>1. /\ UNCHANGED <<library, device_list, once, initialized>>
            /\ smi["main"] # <<"open">>
            /\ amd' = amd \/ amd' = "Finalized"
        BY <2>1, <2>4, Heads DEF SmiShutdown
      <3>2. main \notin Early
        BY <1>1, <2>1, <3>1 DEF Early
      <3>3. /\ smi'["fork"] = <<>> /\ smi'["main"] \in {<<>>, <<"closing">>}
            /\ Closing("main")' => amd' = "Finalized"
        <4>1. /\ smi'["fork"] = smi["fork"]
              /\ Closing("main")' => amd' = "Finalized"
              /\ smi'["main"] \in {Tail(smi["main"]), [smi["main"] EXCEPT ![1] = "closing"]}
          BY <1>1, <2>1, <2>4, ShutdownCloses DEF Callers
        <4>2. smi["main"] = <<"close">>
          BY <1>1, <2>1, <2>4, Heads DEF SmiShutdown
        <4>3. /\ Tail(smi["main"]) = <<>>
              /\ [smi["main"] EXCEPT ![1] = "closing"] = <<"closing">>
          BY <4>2
        <4>4. smi'["main"] \in {<<>>, <<"closing">>}
          <5>1. CASE smi'["main"] = Tail(smi["main"])
            BY <4>3, <5>1
          <5>2. CASE smi'["main"] = [smi["main"] EXCEPT ![1] = "closing"]
            BY <4>3, <5>2
          <5> QED BY <4>1, <5>1, <5>2
        <4> QED BY <1>1, <4>1, <4>4
      <3> QED BY <1>1, <2>1, <3>1, <3>2, <3>3 DEF Early, Closing
    <2>5. CASE SmiCloses(c)
      <3>1. Closing("main") /\ amd # "Active" /\ UNCHANGED amd
        BY <1>1, <2>1, <2>5 DEF SmiCloses, Closing
      <3>2. poll # "call"
        <4>1. smi_lock = "main"
          BY <1>1, <2>1, <3>1 DEF LockIInv, Closing
        <4> QED BY <1>1, <4>1 DEF LockIInv
      <3>3. smi'["main"] = <<>> /\ smi'["fork"] = smi["fork"]
        <4>1. smi["main"] = <<"closing">>
          BY <1>1, <3>1, Heads DEF Closing
        <4>2. /\ smi'["main"] = Tail(smi["main"]) /\ smi'["fork"] = smi["fork"]
          BY <1>1, <2>1, <2>5 DEF SmiCloses, SmiNext, StagesOK, Callers
        <4>3. Tail(<<"closing">>) = <<>>
          OBVIOUS
        <4> QED BY <4>1, <4>2, <4>3
      <3>4. main \notin Early /\ UNCHANGED <<once, device_list>>
        BY <1>1, <2>5, <3>1, Heads DEF SmiCloses, Closing, Early
      <3> QED BY <1>1, <2>1, <3>1, <3>2, <3>3, <3>4 DEF Early
    <2> QED BY <1>7, <2>3, <2>4, <2>5 DEF SmiRuns
  <1> QED BY <1>3, <1>4, <1>5, <1>6, <1>7 DEF Next

-----------------------------------------------------------------------------
(* The theorems *)

LEMMA NextIInv == SamplerIInv /\ [Next]_vars => SamplerIInv'
  <1> SUFFICES ASSUME SamplerIInv, [Next]_vars PROVE SamplerIInv'
    OBVIOUS
  <1>1. CASE Next
    <2>1. FlagsOK' /\ StagesOK'
      BY <1>1, TypeParts, FlagsKept, StagesKept DEF SamplerIInv
    <2>2. SamplerTypeOK'
      BY <2>1, Zenon DEF SamplerTypeOK, FlagsOK, StagesOK
    <2> QED BY <1>1, <2>2, LockKept, PollKept, LibraryKept DEF SamplerIInv
  <1>2. CASE UNCHANGED vars
    <2>1. /\ UNCHANGED <<state, sampler, poll, todo, instances, main, process, forks, late>>
          /\ UNCHANGED <<amd, initialized, device_list, once, gpu_ready, library, tool,
                         smi, smi_lock, failed>>
      BY <1>2 DEF vars, samplerVars, smiVars
    <2>2. SamplerTypeOK'
      <3>1. FlagsOK'
        BY <2>1, TypeParts, Zenon DEF SamplerIInv, FlagsOK
      <3>2. StagesOK'
        BY <2>1, TypeParts DEF SamplerIInv, StagesOK
      <3> QED BY <3>1, <3>2, Zenon DEF SamplerTypeOK, FlagsOK, StagesOK
    <2>3. LockIInv' /\ PollIInv' /\ LibraryIInv'
      BY <2>1 DEF SamplerIInv, LockIInv, PollIInv, LibraryIInv
    <2> QED BY <2>2, <2>3 DEF SamplerIInv
  <1> QED BY <1>1, <1>2

LEMMA AlwaysIInv == Spec => []SamplerIInv
  BY InitIInv, NextIInv, PTL DEF Spec

\* Type correctness of the background sampler (process_sampler.cpp, amd_smi.cpp).
THEOREM SamplerTypeCorrect == Spec => []SamplerTypeOK
  <1>1. SamplerIInv => SamplerTypeOK
    BY DEF SamplerIInv
  <1> QED BY <1>1, AlwaysIInv, PTL

\* amd_smi::shutdown, by the tool or by the sampler, waits for the round in flight.
THEOREM NoCallAfterShutdown == Spec => []LockedCallFindsLibraryOpen
  <1>1. SamplerIInv => LockedCallFindsLibraryOpen
    BY DEF SamplerIInv, LibraryIInv, LockedCallFindsLibraryOpen
  <1> QED BY <1>1, AlwaysIInv, PTL

\* sampler::poll looks at the states between any two rounds.
THEOREM OneLateRound == Spec => []AtMostOneLateRound
  <1>1. SamplerIInv => AtMostOneLateRound
    <2>1. StagesOK /\ PollIInv => late <= 1
      BY DEF StagesOK, PollIInv
    <2> QED BY <2>1, TypeParts DEF SamplerIInv, AtMostOneLateRound
  <1> QED BY <1>1, AlwaysIInv, PTL

-----------------------------------------------------------------------------
(* The shutdowns that overlap *)

\* Whoever closes the library has found it initialized, and nobody has closed it since.
CloseIInv == \A c \in Callers : Closing(c) => initialized

\* Only the owner of the lock closes.
LEMMA OwnerCloses ==
    ASSUME SamplerIInv, NEW c \in Callers, Closing(c)
    PROVE  smi_lock = c /\ smi_lock # "free" /\ smi_lock # "poll"
  BY DEF SamplerIInv, LockIInv, Closing, Callers

LEMMA CloseKept == SamplerIInv /\ CloseIInv /\ [Next]_vars => CloseIInv'
  <1> SUFFICES ASSUME SamplerIInv, CloseIInv, [Next]_vars PROVE CloseIInv'
    OBVIOUS
  <1>1. StagesOK
    BY TypeParts DEF SamplerIInv
  <1>2. ASSUME UNCHANGED initialized, \A c \in Callers : Closing(c)' => Closing(c)
        PROVE  CloseIInv'
    BY <1>2, Zenon DEF CloseIInv
  <1>3. ASSUME \A c \in Callers : ~Closing(c)' PROVE CloseIInv'
    BY <1>3, Zenon DEF CloseIInv
  <1>4. CASE PollRuns \/ ToolInit \/ UNCHANGED vars
    <2>1. UNCHANGED <<initialized, smi>>
      BY <1>4, Zenon DEF PollRuns, PollConfigTests, PollConfigCalls, PollLoop, PollWakes,
           PollBegins, PollLocks, PollDeviceTests, PollDeviceCalls, PollUnlocks,
           PollCpuFreq, PollOnlyMoves, NotPolls, ToolInit, vars, smiVars
    <2> QED BY <1>2, <2>1, Zenon DEF Closing
  <1>5. CASE MainRuns \/ ForkInParent
    <2>1. UNCHANGED initialized
      BY <1>5, Zenon DEF MainRuns, MainSetsUp, MainSpawns, MainActivates, MainFinalizes,
           MainEndsTool, MainStopsSampler, MainJoinsPoll, MainPostProcesses, MainMoves,
           ForkInParent, smiVars
    <2>2. \/ UNCHANGED smi
          \/ smi' = [smi EXCEPT !["main"] = <<"open">>]
          \/ smi' = [smi EXCEPT !["main"] = <<"close">>]
          \/ smi' = [smi EXCEPT !["fork"] = <<"close", "open">>]
      BY <1>5, Zenon DEF MainRuns, MainSetsUp, MainSpawns, MainActivates, MainFinalizes,
           MainEndsTool, MainStopsSampler, MainJoinsPoll, MainPostProcesses, MainCalls,
           ForkInParent
    <2>3. \A c \in Callers : Closing(c)' => Closing(c)
      BY <1>1, <2>2, Heads DEF Closing, StagesOK
    <2> QED BY <1>2, <2>1, <2>3
  <1>6. CASE ForkInChild
    BY <1>3, <1>6 DEF ForkInChild, Closing
  <1>7. ASSUME NEW c \in Callers, SmiSetup(c) \/ SmiCloses(c) PROVE CloseIInv'
    <2>1. ~Closing(c)' /\ \A b \in Callers \ {c} : smi'[b] = smi[b]
      BY <1>1, <1>7, NextNotClosing DEF SmiSetup, SmiCloses
    <2>2. \A b \in Callers \ {c} : ~Closing(b)
      BY <1>7, OwnerCloses DEF SmiSetup, SmiCloses, Closing
    <2> QED BY <1>3, <2>1, <2>2 DEF Closing
  <1>8. ASSUME NEW c \in Callers, SmiShutdown(c) PROVE CloseIInv'
    <2>1. /\ UNCHANGED initialized /\ smi_lock = "free"
          /\ \A b \in Callers \ {c} : smi'[b] = smi[b]
      BY <1>1, <1>8, ShutdownCloses, Zenon DEF SmiShutdown
    <2>2. \A b \in Callers \ {c} : ~Closing(b)'
      BY <2>1, OwnerCloses DEF Closing
    <2>3. CASE initialized
      BY <2>1, <2>3, Zenon DEF CloseIInv
    <2>4. CASE ~initialized
      <3>1. ~Closing(c)'
        BY <1>1, <1>8, <2>4, NextNotClosing DEF SmiShutdown
      <3> QED BY <1>3, <2>2, <3>1
    <2> QED BY <2>3, <2>4
  <1> QED BY <1>4, <1>5, <1>6, <1>7, <1>8, Zenon DEF Next, SmiRuns

\* amd_smi::shutdown tests is_initialized and calls amdsmi_shut_down under the same
\* lock: of the shutdowns that overlap one closes the library, and never in the middle
\* of a sample, forks included.
THEOREM ShutdownsCloseOnce == Spec => OneShutdownCloses
  <1>1. Init => CloseIInv
    BY DEF Init, CloseIInv, Closing
  <1>2. ASSUME SamplerIInv, CloseIInv, NEW c \in Callers, SmiCloses(c)
        PROVE  initialized /\ poll # "call"
    <2>1. Closing(c)
      BY <1>2 DEF SmiCloses, Closing
    <2>2. initialized
      BY <1>2, <2>1, Zenon DEF CloseIInv
    <2>3. poll # "call"
      BY <1>2, <2>1, OwnerCloses DEF SamplerIInv, LockIInv
    <2> QED BY <2>2, <2>3
  <1>3. SamplerIInv /\ CloseIInv /\ [Next]_vars
          => [\A c \in Callers : SmiCloses(c) => initialized /\ poll # "call"]_vars
    BY <1>2, Zenon
  <1> QED BY <1>1, <1>3, CloseKept, AlwaysIInv, PTL DEF Spec, OneShutdownCloses

-----------------------------------------------------------------------------
(* The failures of the library *)

Sampling == poll \in {"config_call", "call"}

\* Nothing is sampled before the tool of rocprofiler has activated amd_smi, which
\* it does once; a failure disables the state, and only an activation would take
\* it back: neither the shutdowns nor the setups around a fork do.
FailureIInv ==
    /\ tool = "none" => amd # "Active" /\ ~Sampling /\ ~failed
    /\ failed => amd # "Active" /\ ~Sampling

LEMMA FailureKept == SamplerIInv /\ FailureIInv /\ [Next]_vars => FailureIInv'
  <1> SUFFICES ASSUME SamplerIInv, FailureIInv, [Next]_vars PROVE FailureIInv'
    OBVIOUS
  <1>1. CASE PollConfigTests \/ \E d \in Devices : PollDeviceTests(d)
    <2>1. UNCHANGED <<tool, amd, failed>> /\ (Sampling' => amd = "Active")
      BY <1>1, SMT DEF PollConfigTests, PollDeviceTests, PollOnlyMoves, NotPolls, Sampling
    <2> QED BY <2>1, Zenon DEF FailureIInv
  <1>2. CASE PollConfigCalls \/ PollDeviceCalls
    <2>1. UNCHANGED tool /\ ~Sampling' /\ Sampling
      BY <1>2 DEF PollConfigCalls, PollDeviceCalls, PollStep, NotPolls, Sampling
    <2>2. CASE UNCHANGED <<amd, failed>>
      BY <2>1, <2>2, Zenon DEF FailureIInv
    <2>3. CASE amd' = "Disabled"
      BY <2>1, <2>3, Zenon DEF FailureIInv
    <2> QED BY <1>2, <2>2, <2>3, Zenon DEF PollConfigCalls, PollDeviceCalls, LibraryCall
  <1>3. CASE PollLoop \/ PollWakes \/ PollBegins \/ PollLocks \/ PollUnlocks \/ PollCpuFreq
    <2>0. StagesOK
      BY TypeParts DEF SamplerIInv
    <2>1. ~Sampling'
      BY <1>3, <2>0 DEF StagesOK, PollLoop, PollWakes, PollBegins, PollLocks,
           PollUnlocks, PollCpuFreq, PollStep, Sampling
    <2>2. UNCHANGED <<tool, amd, failed>>
      BY <1>3, Zenon DEF PollLoop, PollWakes, PollBegins, PollLocks, PollUnlocks,
           PollCpuFreq, PollOnlyMoves, NotPolls
    <2> QED BY <2>1, <2>2, Zenon DEF FailureIInv
  <1>4. CASE MainRuns
    <2>1. UNCHANGED <<amd, failed>> /\ (tool' = "none" => tool = "none")
      BY <1>4, Zenon DEF MainRuns, MainSetsUp, MainSpawns, MainActivates, MainFinalizes,
           MainEndsTool, MainStopsSampler, MainJoinsPoll, MainPostProcesses, MainMoves
    <2>2. Sampling' => Sampling
      BY <1>4 DEF MainRuns, MainSetsUp, MainSpawns, MainActivates, MainFinalizes,
           MainEndsTool, MainStopsSampler, MainJoinsPoll, MainPostProcesses, Sampling
    <2> QED BY <2>1, <2>2, Zenon DEF FailureIInv
  <1>5. CASE ToolInit
    <2>1. tool = "none" /\ tool' = "active" /\ UNCHANGED failed
      BY <1>5, Zenon DEF ToolInit
    <2> QED BY <2>1, Zenon DEF FailureIInv
  <1>6. CASE ForkInParent \/ ForkInChild
    <2>1. UNCHANGED <<tool, failed>> /\ (amd' = amd \/ amd' = "Finalized")
      BY <1>6, Zenon DEF ForkInParent, ForkInChild, smiVars
    <2>2. Sampling' => Sampling
      BY <1>6 DEF ForkInParent, ForkInChild, Sampling
    <2> QED BY <2>1, <2>2, Zenon DEF FailureIInv
  <1>7. ASSUME NEW c \in Callers, SmiRuns(c) PROVE FailureIInv'
    <2>1. UNCHANGED <<tool, failed, poll>> /\ amd' \in {amd, "PreInit", "Finalized"}
      BY <1>7, Zenon DEF SmiRuns, SmiSetup, SmiShutdown, SmiCloses, samplerVars
    <2> QED BY <2>1, Zenon DEF FailureIInv, Sampling
  <1>8. CASE UNCHANGED vars
    BY <1>8, Zenon DEF vars, samplerVars, smiVars, FailureIInv, Sampling
  <1> QED BY <1>1, <1>2, <1>3, <1>4, <1>5, <1>6, <1>7, <1>8, Zenon DEF Next, PollRuns

LEMMA AlwaysFailureIInv == Spec => []FailureIInv
  <1>1. Init => FailureIInv
    BY Zenon DEF Init, FailureIInv, Sampling
  <1> QED BY <1>1, FailureKept, AlwaysIInv, PTL DEF Spec

\* data::sample (amd_smi.cpp) disables the state when a call of the library fails,
\* and nothing activates it again, whatever forks and shutdowns follow.
THEOREM FailuresAreFinal == Spec => FailureDisablesSampling
  <1>1. FailureIInv /\ [Next]_vars => [PollDeviceCalls \/ PollConfigCalls => ~failed]_vars
    BY Zenon DEF FailureIInv, Sampling, PollDeviceCalls, PollConfigCalls, PollStep
  <1> QED BY <1>1, AlwaysFailureIInv, PTL DEF Spec, FailureDisablesSampling
=============================================================================
