---------------------------- MODULE ProcessSampler ----------------------------
(***************************************************************************)
(* The background sampler (process_sampler.cpp): one thread that polls its *)
(* instances, the AMD SMI sampler (amd_smi.cpp) and cpu_freq, while the    *)
(* main thread sets them up and shuts them down, the ROCm tool activates   *)
(* the first, and an application thread forks.                             *)
(*                                                                         *)
(* poll is the place of the polling thread, smi[c] the calls of amd_smi    *)
(* that thread c has still to make, smi_lock the owner of                  *)
(* type_mutex<category::amd_smi>.  The library below AMD SMI is external:  *)
(* it is open or closed, and a call of it may fail at any time.            *)
(***************************************************************************)
EXTENDS Naturals, Sequences

CONSTANTS Devices,      \* the GPUs
          MaxForks      \* bound: calls of fork()

ASSUME ForksAssumption == MaxForks \in Nat

VARIABLES
    state,              \* State of the process: Init, Active, Finalized
    sampler,            \* get_sampler_state()
    poll, todo,         \* the polling thread, the devices left in its round
    instances,          \* the registered instances: none, set or cleared
    main,               \* the main thread
    process, forks,     \* parent or child, and the forks made
    amd, initialized,   \* amd_smi: get_state(), is_initialized()
    device_list,        \* amd_smi: data::device_list
    once, gpu_ready,    \* gpu: amdsmi_once has run, _amdsmi_is_initialized()
    library,            \* the AMD SMI library: closed or open
    tool,               \* the tool of rocprofiler: none, active, finished
    smi, smi_lock,
    failed,             \* history: a call of the library has failed
    late                \* history: rounds begun after the finalization

samplerVars == <<state, sampler, poll, todo, instances, main, process, forks>>
smiVars == <<amd, initialized, device_list, once, gpu_ready, library, tool>>
vars == <<samplerVars, smiVars, smi, smi_lock, failed, late>>

Callers == {"main", "fork"}
MainStages == {"setup", "spawn", "activate", "start", "run", "tool_fini", "stop",
               "join", "post_process", "end", "gone"}
PollStages == {"none", "config", "config_call", "top", "slept", "round", "lock",
               "devices", "call", "cpu_freq", "done", "gone"}

\* setup is "open", shutdown "close", and "closing" once it holds the lock.
Calls == {<<>>, <<"open">>, <<"close">>, <<"closing">>, <<"close", "open">>,
          <<"closing", "open">>}

SamplerTypeOK ==
    /\ state \in {"Init", "Active", "Finalized"}
    /\ sampler \in {"PreInit", "Active", "Finalized"}
    /\ poll \in PollStages /\ todo \subseteq Devices
    /\ instances \in {"none", "set", "cleared"}
    /\ main \in MainStages
    /\ process \in {"parent", "child"} /\ forks \in 0 .. MaxForks
    /\ amd \in {"PreInit", "Active", "Disabled", "Finalized"}
    /\ initialized \in BOOLEAN /\ device_list \in {{}, Devices}
    /\ once \in BOOLEAN /\ gpu_ready \in BOOLEAN
    /\ library \in {"closed", "open"}
    /\ tool \in {"none", "active", "finished"}
    /\ smi \in [Callers -> Calls]
    /\ smi_lock \in {"free", "poll"} \cup Callers
    /\ failed \in BOOLEAN /\ late \in 0 .. 2

Init ==
    /\ state = "Init" /\ sampler = "PreInit"
    /\ poll = "none" /\ todo = {} /\ instances = "none" /\ main = "setup"
    /\ process = "parent" /\ forks = 0
    /\ amd = "PreInit" /\ initialized = FALSE /\ device_list = {}
    /\ once = FALSE /\ gpu_ready = FALSE /\ library = "closed" /\ tool = "none"
    /\ smi = [c \in Callers |-> <<>>] /\ smi_lock = "free"
    /\ failed = FALSE /\ late = 0

-----------------------------------------------------------------------------
(* amd_smi: setup and shutdown, each under the lock *)

SmiNext(c) == smi' = [smi EXCEPT ![c] = Tail(@)]

\* gpu::initialize_amdsmi: call_once, so a closed library is not opened again.
OpenLibrary(ok) ==
    /\ once' = TRUE
    /\ gpu_ready' = IF once THEN gpu_ready ELSE ok
    /\ library' = IF ~once /\ ok THEN "open" ELSE library

SmiSetup(c) ==
    /\ smi[c] # <<>> /\ Head(smi[c]) = "open" /\ smi_lock = "free"
    /\ SmiNext(c)
    /\ \/ /\ initialized
          /\ UNCHANGED <<amd, initialized, device_list, once, gpu_ready, library>>
       \/ /\ ~initialized
          /\ \E ok \in BOOLEAN : OpenLibrary(ok)
          /\ IF gpu_ready'
             THEN /\ device_list' = Devices /\ initialized' = TRUE
                  /\ amd' = "PreInit"
             ELSE UNCHANGED <<amd, initialized, device_list>>
    /\ UNCHANGED <<samplerVars, tool, smi_lock, failed, late>>

\* A wrong form of SmiShutdown: without the lock.
SmiShutdownUnlocked(c) ==
    /\ smi[c] # <<>> /\ Head(smi[c]) = "close" /\ initialized
    /\ amd' = "Finalized" /\ smi' = [smi EXCEPT ![c][1] = "closing"]
    /\ UNCHANGED <<samplerVars, initialized, device_list, once, gpu_ready, library,
                   tool, smi_lock, failed, late>>

\* A wrong form of SmiShutdown: the lock protects the test only.
SmiShutdownLocksTest(c) ==
    /\ smi[c] # <<>> /\ Head(smi[c]) = "close" /\ smi_lock = "free"
    /\ IF initialized
       THEN amd' = "Finalized" /\ smi' = [smi EXCEPT ![c][1] = "closing"]
       ELSE SmiNext(c) /\ UNCHANGED amd
    /\ UNCHANGED <<samplerVars, initialized, device_list, once, gpu_ready, library,
                   tool, smi_lock, failed, late>>

SmiShutdown(c) ==
    /\ smi[c] # <<>> /\ Head(smi[c]) = "close" /\ smi_lock = "free"
    /\ IF initialized
       THEN /\ amd' = "Finalized"
            /\ smi_lock' = c /\ smi' = [smi EXCEPT ![c][1] = "closing"]
       ELSE SmiNext(c) /\ UNCHANGED <<amd, smi_lock>>
    /\ UNCHANGED <<samplerVars, initialized, device_list, once, gpu_ready, library,
                   tool, failed, late>>

SmiCloses(c) ==
    /\ smi[c] # <<>> /\ Head(smi[c]) = "closing"
    /\ library' = "closed" /\ initialized' = FALSE
    /\ smi_lock' = "free" /\ SmiNext(c)
    /\ UNCHANGED <<samplerVars, amd, device_list, once, gpu_ready, tool, failed, late>>

\* The runtime loads the tool after the initialization has returned.
ToolInit ==
    /\ tool = "none" /\ state = "Active" /\ main = "run" /\ process = "parent"
    /\ tool' = "active" /\ amd' = "Active"
    /\ UNCHANGED <<samplerVars, initialized, device_list, once, gpu_ready, library,
                   smi, smi_lock, failed, late>>

-----------------------------------------------------------------------------
(* The polling thread *)

PollStep(from, to) == poll = from /\ poll' = to

NotPolls == <<state, sampler, instances, main, process, forks, initialized,
              device_list, once, gpu_ready, library, tool, smi>>

PollOnlyMoves == UNCHANGED <<NotPolls, amd, smi_lock, failed, late>>

\* config samples each device once, without the lock.
PollConfigTests ==
    /\ poll = "config"
    /\ poll' = IF amd = "Active" /\ device_list # {} THEN "config_call" ELSE "top"
    /\ UNCHANGED todo /\ PollOnlyMoves

\* A wrong form of LibraryCall: a failure does not disable the sampler.
LibraryCallGoesOn ==
    /\ \/ library = "open" /\ UNCHANGED failed
       \/ failed' = TRUE
    /\ UNCHANGED amd

\* The calls of the library one sample of a device makes, in one step: of a closed
\* library they fail.
LibraryCall ==
    \/ library = "open" /\ UNCHANGED <<amd, failed>>
    \/ amd' = "Disabled" /\ failed' = TRUE

PollConfigCalls ==
    /\ PollStep("config_call", "top") /\ LibraryCall
    /\ UNCHANGED <<NotPolls, todo, smi_lock, late>>

\* A wrong form of PollLoop: it does not look at the states.
PollLoopForever == PollStep("top", "slept") /\ UNCHANGED todo /\ PollOnlyMoves

PollLoop ==
    /\ poll = "top"
    /\ poll' = IF sampler = "Finalized" \/ state = "Finalized" THEN "done" ELSE "slept"
    /\ UNCHANGED todo /\ PollOnlyMoves

\* After the sleep: once more both states, and a round only if both are active.
PollWakes ==
    /\ poll = "slept"
    /\ poll' = CASE sampler # "Active" -> "top"
                 [] sampler = "Active" /\ state = "Finalized" -> "done"
                 [] sampler = "Active" /\ state = "Init" -> "top"
                 [] sampler = "Active" /\ state = "Active" -> "round"
    /\ UNCHANGED todo /\ PollOnlyMoves

PollBegins ==
    /\ PollStep("round", "lock")
    /\ late' = IF state = "Finalized" /\ late < 2 THEN late + 1 ELSE late
    /\ UNCHANGED <<NotPolls, todo, amd, smi_lock, failed>>

PollLocks ==
    /\ PollStep("lock", "devices")
    /\ smi_lock = "free" /\ smi_lock' = "poll"
    /\ todo' = device_list
    /\ UNCHANGED <<NotPolls, amd, failed, late>>

\* sample() skips a device unless the state is Active, and data::sample reads
\* the state once more before its calls.
PollDeviceTests(d) ==
    /\ poll = "devices" /\ d \in todo
    /\ todo' = todo \ {d}
    /\ poll' = IF amd = "Active" THEN "call" ELSE "devices"
    /\ PollOnlyMoves

PollDeviceCalls ==
    /\ PollStep("call", "devices") /\ LibraryCall
    /\ UNCHANGED <<NotPolls, todo, smi_lock, late>>

PollUnlocks ==
    /\ todo = {} /\ PollStep("devices", "cpu_freq")
    /\ smi_lock' = "free"
    /\ UNCHANGED <<NotPolls, todo, amd, failed, late>>

\* A wrong form of PollCpuFreq: the next round begins without a test.
PollCpuFreqAgain ==
    /\ poll = "cpu_freq" /\ poll' \in {"round", "done"}
    /\ UNCHANGED todo /\ PollOnlyMoves

\* cpu_freq::sample, the end of the round; a configured duration ends the thread.
PollCpuFreq ==
    /\ poll = "cpu_freq" /\ poll' \in {"top", "done"}
    /\ UNCHANGED todo /\ PollOnlyMoves

PollRuns ==
    \/ PollConfigTests \/ PollConfigCalls \/ PollLoop \/ PollWakes \/ PollBegins
    \/ PollLocks \/ (\E d \in Devices : PollDeviceTests(d)) \/ PollDeviceCalls
    \/ PollUnlocks \/ PollCpuFreq

-----------------------------------------------------------------------------
(* The main thread: setup and activation, finalization *)

\* The calls of amd_smi it has begun have returned.
MainMoves(from, to) ==
    /\ main = from /\ smi["main"] = <<>> /\ main' = to
    /\ UNCHANGED <<process, forks, todo, amd, initialized, device_list, once,
                   gpu_ready, library, smi_lock, failed, late>>

MainCalls(calls) == smi' = [smi EXCEPT !["main"] = calls]

MainSetsUp ==
    /\ MainMoves("setup", "spawn")
    /\ instances' = "set" /\ MainCalls(<<"open">>)
    /\ UNCHANGED <<state, sampler, poll, tool>>

MainSpawns ==
    /\ MainMoves("spawn", "activate")
    /\ sampler' = "PreInit" /\ poll' = "config"
    /\ UNCHANGED <<state, instances, tool, smi>>

MainActivates ==
    \/ /\ MainMoves("activate", "start") /\ sampler' = "Active"
       /\ UNCHANGED <<state, poll, instances, tool, smi>>
    \/ /\ MainMoves("start", "run") /\ state' = "Active"
       /\ UNCHANGED <<sampler, poll, instances, tool, smi>>

MainFinalizes ==
    /\ MainMoves("run", "tool_fini") /\ state' = "Finalized"
    /\ UNCHANGED <<sampler, poll, instances, tool, smi>>

\* rocprofiler_sdk::shutdown: tool_fini shuts amd_smi down before the sampler.
MainEndsTool ==
    /\ MainMoves("tool_fini", "stop")
    /\ IF tool = "active" THEN tool' = "finished" /\ MainCalls(<<"close">>)
                          ELSE UNCHANGED <<tool, smi>>
    /\ UNCHANGED <<state, sampler, poll, instances>>

MainStopsSampler ==
    /\ MainMoves("stop", "join")
    /\ sampler' = "Finalized" /\ MainCalls(<<"close">>)
    /\ UNCHANGED <<state, poll, instances, tool>>

\* The waits for is_sampling and for polling_finished are bounded; join is not.
MainJoinsPoll ==
    /\ MainMoves("join", "post_process") /\ poll = "done"
    /\ UNCHANGED <<state, sampler, poll, instances, tool, smi>>

MainPostProcesses ==
    /\ MainMoves("post_process", "end")
    /\ instances' = "cleared"
    /\ UNCHANGED <<state, sampler, poll, tool, smi>>

MainRuns ==
    \/ MainSetsUp \/ MainSpawns \/ MainActivates \/ MainFinalizes \/ MainEndsTool
    \/ MainStopsSampler \/ MainJoinsPoll \/ MainPostProcesses

-----------------------------------------------------------------------------
(* fork() by an application thread *)

ForkInParent ==
    /\ state # "Init" /\ smi["fork"] = <<>> /\ forks < MaxForks
    /\ forks' = forks + 1
    /\ smi' = [smi EXCEPT !["fork"] = <<"close", "open">>]
    /\ UNCHANGED <<state, sampler, poll, todo, instances, main, process, smiVars,
                   smi_lock, failed, late>>

\* The child has the forking thread alone, and the lock as it was.
ForkInChild ==
    /\ state # "Init" /\ smi["fork"] = <<>> /\ forks < MaxForks
    /\ forks' = forks + 1
    /\ process' = "child" /\ state' = "Finalized"
    /\ poll' = "gone" /\ main' = "gone" /\ smi' = [c \in Callers |-> <<>>]
    /\ amd' = "Finalized" /\ initialized' = FALSE /\ device_list' = {}
    /\ UNCHANGED <<sampler, todo, instances, once, gpu_ready, library, tool, smi_lock,
                   failed, late>>

-----------------------------------------------------------------------------
SmiRuns(c) == SmiSetup(c) \/ SmiShutdown(c) \/ SmiCloses(c)

Next ==
    \/ PollRuns \/ MainRuns \/ ToolInit \/ ForkInParent \/ ForkInChild
    \/ \E c \in Callers : SmiRuns(c)

\* Threads are scheduled and the lock is fair enough that nobody waits for ever.
Fairness ==
    /\ WF_vars(PollRuns) /\ WF_vars(MainRuns /\ main # "run")
    /\ SF_vars(PollLocks)
    /\ \A c \in Callers : SF_vars(SmiRuns(c))

Spec == Init /\ [][Next]_vars /\ Fairness

-----------------------------------------------------------------------------
(* Properties *)

\* Before any fork, a call of the library made under the lock finds it open:
\* shutdown, from the tool or from the sampler, waits for the round in flight.
LockedCallFindsLibraryOpen == poll = "call" /\ forks = 0 => library = "open"

\* The tool, the sampler's shutdown and the parent's fork handler may shut amd_smi
\* down at the same time.  For each setup one of them closes the library, and none
\* while the polling thread is between the calls of a sample, forks included.
OneShutdownCloses ==
    [][\A c \in Callers : SmiCloses(c) => initialized /\ poll # "call"]_vars

\* After the process is finalized at most one more round of samples begins.
AtMostOneLateRound == late <= 1

\* "Disabling future samples": after a sample in which a call failed no other
\* sample is taken, forks and the calls that close and reopen the library included.
FailureDisablesSampling == [][PollDeviceCalls \/ PollConfigCalls => ~failed]_vars

\* A finalization that has begun joins the thread and goes on to its output.
ShutdownReturns == main = "stop" ~> main \in {"end", "gone"}

\* postfork_parent_reinit: "Reinitialize AMD SMI to get fresh device handles".
ReinitOpensLibrary == initialized => library = "open"

=============================================================================
