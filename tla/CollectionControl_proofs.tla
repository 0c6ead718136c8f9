----------------------- MODULE CollectionControl_proofs -----------------------
(***************************************************************************)
(* Proofs about who decides what is collected: the periods, the fork       *)
(* handlers, the initialization and the finalization, for every number of  *)
(* categories, every setting of the periods and every number of threads.   *)
(*                                                                         *)
(* The flags are written one by one without a lock, so the invariants say  *)
(* how far each call of configure_categories has come (Progress) and that  *)
(* no other call is under way that could undo it.  What is said of a       *)
(* process that forks in just one thread has that as its hypothesis: with  *)
(* two such threads TLC finds it violated.                                 *)
(***************************************************************************)
EXTENDS CollectionControl, TLAPS

\* The flags that a's call of configure_categories has come to are as it wants.
Progress(a) ==
    \A c \in All : c < sweep[a].next => (c \in enabled <=> sweep[a].enable)

\* The name of the place in fork().
Stage(t) == fork[t][1]

\* Where the main thread is tells the state of the process; a child has no main
\* thread, and before the first fork() nothing has touched the handlers' flags.
StateIInv ==
    /\ state = "Init" <=> main \in {"setup", "waiting", "ready"}
    /\ main \in {"active", "blocked"} => state = "Active"
    /\ main \in {"finalizing", "output", "closing", "done"} => state = "Finalized"
    /\ main = "gone" <=> process # "root"
    /\ state = "Init" => ~forked
    /\ main = "setup" => window = "none"
    /\ ~forked => /\ \A t \in Forkers : fork[t] = <<"idle">>
                  /\ process = "root" /\ ~prefork_lock
                  /\ main \in {"setup", "waiting", "ready", "active"} => samples

\* The place of the period thread in the sequence of the specifications.
SpecIInv ==
    /\ window \notin {"none", "done"} => spec =< Len(Specs)
    /\ window \in {"none", "created", "disabling"} => spec = 1
    /\ window # "none" => Specs # <<>>
    /\ process # "root" => window \in {"none", "done"}

\* Before a fork and the finalization only the period thread writes the flags.
WindowIInv ==
    ~forked /\ state # "Finalized" =>
      /\ \A a \in Actors : a # "window" => Swept(a)
      /\ window \notin {"disabling", "initializing", "starting", "stopping"} =>
           Swept("window")
      /\ window \in {"none", "created", "collect", "stop"} => enabled = All
      /\ window = "disabling" /\ Specs[1].delay =>
           ~sweep["window"].enable /\ Progress("window")
      /\ window \in {"spin", "init", "initializing", "wait", "start", "done"}
           /\ Specs[1].delay => enabled = {}
      /\ window = "initializing" /\ ~Swept("window") => ~sweep["window"].enable
      /\ window = "starting" => sweep["window"].enable /\ Progress("window")
      /\ window = "stopping" => ~sweep["window"].enable /\ Progress("window")

\* The thread that forked, in the child: the handlers of the child come first, and
\* from their end on the state is Finalized and no flag is set.
ChildAt(t) ==
    /\ Stage(t) \notin {"post", "postBody", "postSwept", "postLocked"}
    /\ fork[t] = <<"child", "atfork">> => ~postfork_child_lock
    /\ Stage(t) = "childSwept" =>
         state = "Finalized" /\ ~sweep[t].enable /\ Progress(t)
    /\ \/ fork[t] = <<"child", "atfork">>
       \/ Stage(t) \in {"childBody", "childSwept"}
       \/ /\ state = "Finalized" /\ enabled = {}
          /\ Swept(t) \/ ~sweep[t].enable

ChildStages == {"child", "childBody", "childSwept", "childLocked", "gone"}

\* In a child nothing runs but the thread that forked.
ChildIInv ==
    /\ process = "root" =>
         ~postfork_child_lock /\ \A t \in Forkers : Stage(t) \notin ChildStages
    /\ process # "root" =>
         /\ \A t, u \in Forkers : Stage(t) # "gone" /\ Stage(u) # "gone" => t = u
         /\ \A a \in Actors : ~Swept(a) => a \in Forkers /\ Stage(a) # "gone"
    /\ process = "child that forked" => state = "Finalized"
    /\ process = "child" => \A t \in Forkers : Stage(t) # "gone" => ChildAt(t)

\* The flags while t, the one thread that forks, is at each place of fork() in a
\* process that is collecting.
Layer(t) == fork[t][2]

OpenAt(t) ==
    /\ enabled = All /\ Swept(t)
    /\ ~prefork_lock
    /\ main = "active" => samples

ShutAt(t) ==
    /\ enabled = {} /\ Swept(t)
    /\ prefork_lock /\ ~postfork_parent_lock
    /\ UseSampling => ~samples

ForkPlace(t) ==
    /\ Stage(t) \in {"preBody", "preSwept", "preLocked", "preParent"} =>
         Layer(t) = "gotcha"
    /\ Stage(t) \in {"postBody", "postSwept", "postLocked"} => Layer(t) = "atfork"
    /\ Stage(t) = "idle" => OpenAt(t)
    /\ Stage(t) = "pre" /\ Layer(t) = "gotcha" => OpenAt(t)
    /\ Stage(t) = "preSwept" =>
         ~sweep[t].enable /\ Progress(t) /\ (UseSampling => ~samples)
    /\ Stage(t) = "preLocked" =>
         enabled = {} /\ Swept(t) /\ prefork_lock /\ (UseSampling => ~samples)
    /\ Stage(t) \in {"preParent", "fork", "postBody"} => ShutAt(t)
    /\ Stage(t) = "pre" /\ Layer(t) = "atfork" => ShutAt(t)
    /\ Stage(t) = "post" /\ Layer(t) = "atfork" => ShutAt(t)
    /\ Stage(t) = "postSwept" => sweep[t].enable /\ Progress(t)
    /\ Stage(t) = "postLocked" =>
         /\ enabled = All /\ Swept(t)
         /\ postfork_parent_lock
         /\ main = "active" => samples
    /\ Stage(t) = "post" /\ Layer(t) = "gotcha" => OpenAt(t) /\ postfork_parent_lock

ForkIInv(t) ==
    process = "root" /\ state = "Active" /\ Specs = <<>> =>
      /\ \A a \in Actors : a # t => Swept(a)
      /\ main = "active" /\ ~UseSampling => samples
      /\ ForkPlace(t)

ControlIInv == ControlTypeOK /\ StateIInv /\ SpecIInv /\ WindowIInv /\ ChildIInv

-----------------------------------------------------------------------------
(* configure_categories *)

\* A step of a call keeps the flags it has come to, and the other calls.
LEMMA FlagStep ==
  ASSUME CategoriesTypeOK, NEW a \in Actors, SetFlag(a)
  PROVE  /\ CategoriesTypeOK' /\ UNCHANGED <<state, samples>>
         /\ \A b \in Actors : sweep'[b].enable = sweep[b].enable
         /\ \A b \in Actors : b # a => sweep'[b] = sweep[b]
         /\ ~Swept(a)
         /\ Progress(a) => Progress(a)'
         /\ enabled = {} /\ ~sweep[a].enable => enabled' = {}
<1>1. /\ sweep \in [Actors -> [enable : BOOLEAN, next : 1 .. NumCategories + 1]]
      /\ NumCategories \in Nat
  BY CategoriesAssumption DEF CategoriesTypeOK
<1>2. /\ sweep[a].next \in 1 .. NumCategories /\ sweep[a].enable \in BOOLEAN
      /\ ~Swept(a)
      /\ enabled' = IF sweep[a].enable THEN enabled \cup {sweep[a].next}
                                       ELSE enabled \ {sweep[a].next}
      /\ sweep' = [sweep EXCEPT ![a].next = @ + 1]
      /\ UNCHANGED <<state, samples>>
  BY <1>1 DEF SetFlag, Swept
<1>3. /\ sweep'[a].next = sweep[a].next + 1 /\ sweep'[a].enable = sweep[a].enable
      /\ \A b \in Actors : b # a => sweep'[b] = sweep[b]
      /\ sweep' \in [Actors -> [enable : BOOLEAN, next : 1 .. NumCategories + 1]]
  BY <1>1, <1>2
<1>4. CategoriesTypeOK'
  BY <1>2, <1>3 DEF CategoriesTypeOK, All
<1>5. ASSUME Progress(a) PROVE Progress(a)'
  BY <1>1, <1>2, <1>3, <1>5 DEF Progress, All
<1> QED
  BY <1>2, <1>3, <1>4, <1>5

\* A call that has returned has set, or cleared, every flag.
LEMMA SweptFlags ==
  ASSUME CategoriesTypeOK, NEW a \in Actors, Progress(a), Swept(a)
  PROVE  enabled = IF sweep[a].enable THEN All ELSE {}
<1>1. \A c \in All : c < sweep[a].next
  BY CategoriesAssumption DEF CategoriesTypeOK, Swept, All
<1> QED
  BY <1>1 DEF Progress, CategoriesTypeOK

\* A new call has come to no flag yet.
LEMMA SweepStarts ==
  ASSUME CategoriesTypeOK, NEW a \in Actors, NEW e \in BOOLEAN, SweepFrom(a, e)
  PROVE  /\ sweep' \in [Actors -> [enable : BOOLEAN, next : 1 .. NumCategories + 1]]
         /\ sweep'[a].enable = e /\ ~Swept(a)' /\ Progress(a)'
         /\ \A b \in Actors : b # a => sweep'[b] = sweep[b]
<1>1. /\ sweep \in [Actors -> [enable : BOOLEAN, next : 1 .. NumCategories + 1]]
      /\ NumCategories \in Nat \ {0}
  BY CategoriesAssumption DEF CategoriesTypeOK
<1>2. /\ sweep'[a] = [enable |-> e, next |-> 1]
      /\ \A b \in Actors : b # a => sweep'[b] = sweep[b]
      /\ sweep' \in [Actors -> [enable : BOOLEAN, next : 1 .. NumCategories + 1]]
  BY <1>1 DEF SweepFrom
<1> QED
  BY <1>1, <1>2 DEF Swept, Progress, All

\* The copy of the sweeps that a child gets: none is under way.
LEMMA SweepsEnd ==
  ASSUME CategoriesTypeOK,
         sweep' = [a \in Actors |-> [sweep[a] EXCEPT !.next = NumCategories + 1]]
  PROVE  /\ sweep' \in [Actors -> [enable : BOOLEAN, next : 1 .. NumCategories + 1]]
         /\ \A a \in Actors : Swept(a)'
<1>1. NumCategories \in Nat
  BY CategoriesAssumption
<1>2. /\ NumCategories + 1 \in 1 .. NumCategories + 1
      /\ NumCategories + 1 > NumCategories
  BY <1>1
<1>3. \A S, r, n : r \in [enable : BOOLEAN, next : S] /\ n \in S
        => [r EXCEPT !.next = n] \in [enable : BOOLEAN, next : S]
             /\ [r EXCEPT !.next = n].next = n
  OBVIOUS
<1>4. sweep \in [Actors -> [enable : BOOLEAN, next : 1 .. NumCategories + 1]]
  BY DEF CategoriesTypeOK
<1> DEFINE N == NumCategories + 1
<1>5. N \in 1 .. N /\ N > NumCategories
  BY <1>2
<1> HIDE DEF N
<1>6. \A a \in Actors :
        /\ [sweep[a] EXCEPT !.next = N] \in [enable : BOOLEAN, next : 1 .. N]
        /\ [sweep[a] EXCEPT !.next = N].next = N
  BY <1>3, <1>4, <1>5 DEF N
<1>7. sweep' = [a \in Actors |-> [sweep[a] EXCEPT !.next = N]]
  BY DEF N
<1>8. /\ sweep' \in [Actors -> [enable : BOOLEAN, next : 1 .. N]]
      /\ \A a \in Actors : sweep'[a].next = N
  BY <1>6, <1>7
<1> QED
  BY <1>5, <1>8 DEF Swept, N

-----------------------------------------------------------------------------
(* Types and the places of the threads *)

\* What none of the actions of a thread other than its sweep changes.
LEMMA Lengths ==
  ASSUME WindowTypeOK
  PROVE  /\ Specs \in Seq([delay : BOOLEAN, duration : BOOLEAN, repeat : Nat])
         /\ Len(Specs) \in Nat /\ spec \in Nat /\ spec >= 1 /\ round \in Nat
         /\ Specs # <<>> => Len(Specs) >= 1
         /\ {"main", "window"} \subseteq Actors
BY SettingsAssumption, ActorsAssumption DEF WindowTypeOK

\* A step of the main thread in a child is none: it has no such thread.
LEMMA MainTypes ==
  ASSUME ControlIInv, MainRuns
  PROVE  ControlTypeOK'
<1>1. ControlTypeOK /\ WindowTypeOK /\ CategoriesTypeOK
  BY DEF ControlIInv, ControlTypeOK, WindowTypeOK
<1>2. CategoriesTypeOK'
  <2>1. ASSUME NEW e \in BOOLEAN, SweepFrom("main", e)
        PROVE  sweep' \in [Actors -> [enable : BOOLEAN, next : 1 .. NumCategories + 1]]
    BY <1>1, <2>1, SweepStarts, Lengths
  <2> QED
    BY <1>1, <2>1 DEF MainRuns, MainNext, SetupCategories, SetupReturns, BecomeActive,
       BlockSamples, Finalize, WriteOutput, ShutdownCategories, FinalizeReturns,
       catVars, CategoriesTypeOK
<1>3. /\ main' \in MainStages /\ window' \in WindowStages
      /\ UNCHANGED <<Specs, spec, round, forkVars, forked>>
  BY <1>1 DEF MainRuns, MainNext, SetupCategories, SetupReturns, BecomeActive,
     BlockSamples, Finalize, WriteOutput, ShutdownCategories, FinalizeReturns,
     MainStep, MainStages, WindowStages, WindowTypeOK
<1> QED
  BY <1>1, <1>2, <1>3 DEF ControlTypeOK, WindowTypeOK, ForkTypeOK, forkVars, lockVars

LEMMA WindowTypes ==
  ASSUME ControlIInv, WindowThreadRuns
  PROVE  ControlTypeOK' /\ SpecIInv'
<1>1. ControlTypeOK /\ WindowTypeOK /\ CategoriesTypeOK /\ SpecIInv
  BY DEF ControlIInv, ControlTypeOK, WindowTypeOK
<1> USE DEF WindowThreadRuns, WindowRuns, WindowStarts, WindowSignals, PeriodBegins,
            InitPeriod, InitReturns, WaitEnds, StartPeriod, StartReturns, CollectEnds,
            StopPeriod, StopReturns, WindowStep, LeaveSpec
<1>a. /\ window \notin {"none", "done"}
      /\ UNCHANGED <<state, enabled, samples, Specs, main, forkVars, forked>>
  BY DEF catVars
<1>b. (\E e \in BOOLEAN : SweepFrom("window", e)) \/ UNCHANGED sweep
  BY DEF catVars
<1>2. /\ UNCHANGED <<state, enabled, samples, Specs, main, forkVars, forked>>
      /\ (\E e \in BOOLEAN : SweepFrom("window", e)) \/ UNCHANGED sweep
  BY <1>a, <1>b
<1>3. sweep' \in [Actors -> [enable : BOOLEAN, next : 1 .. NumCategories + 1]]
  BY <1>1, <1>2, SweepStarts, Lengths DEF CategoriesTypeOK
<1>4. window' \in WindowStages
  BY DEF WindowStages
<1>5. spec =< Len(Specs)
  BY <1>1, <1>a DEF SpecIInv
<1>n. round \in Nat /\ spec \in Nat /\ spec >= 1 /\ Len(Specs) \in Nat
  BY <1>1, Lengths
<1>6. round' \in Nat
  <2>1. round' \in {0, round, round + 1}
    OBVIOUS
  <2> QED
    BY <1>n, <2>1
<1>7. /\ spec' \in 1 .. Len(Specs) + 1
      /\ window' \notin {"none", "done"} => spec' =< Len(Specs)
      /\ window' \in {"none", "created", "disabling"} => spec' = 1
  <2>1. \/ spec' = spec /\ window' \notin {"none", "created", "done"}
           /\ (window' = "disabling" => window = "created")
        \/ spec' = spec + 1 /\ window' = IF spec = Len(Specs) THEN "done" ELSE "spin"
    OBVIOUS
  <2>2. window = "created" => spec = 1
    BY <1>1 DEF SpecIInv
  <2> HIDE DEF WindowThreadRuns
  <2> QED
    BY <1>n, <1>5, <2>1, <2>2
<1>8. SpecIInv'
  BY <1>1, <1>2, <1>7 DEF SpecIInv, forkVars
<1> QED
  BY <1>1, <1>2, <1>3, <1>4, <1>6, <1>7, <1>8
     DEF ControlTypeOK, WindowTypeOK, CategoriesTypeOK, ForkTypeOK, forkVars, lockVars

\* The steps of a thread that forks.
ForkMoves(t) == ThreadForks(t) \/ ForkHandlersRun(t) \/ ChildAppears(t)

LEMMA Movers ==
  ASSUME ControlNext
  PROVE  \/ \E a \in Actors : ActorSetsFlag(a)
         \/ MainRuns \/ WindowThreadRuns
         \/ \E t \in Forkers : ForkMoves(t)
BY DEF ControlNext, ForkMoves

\* Where the handlers lead to.
LEMMA Returns ==
  ASSUME NEW l \in Layers, NEW h \in Handler
  PROVE  /\ <<h, l>> \in ForkStages /\ <<"idle">> \in ForkStages
         /\ <<"fork">> \in ForkStages /\ <<"gone">> \in ForkStages
         /\ PreforkReturn(l) \in ForkStages /\ PostforkReturn(h, l) \in ForkStages
BY DEF ForkStages, Layers, Handler, PreforkReturn, PostforkReturn

LEMMA ForkTypes ==
  ASSUME ControlIInv, NEW t \in Forkers, ForkMoves(t)
  PROVE  ControlTypeOK'
<1>1. /\ ControlTypeOK /\ WindowTypeOK /\ CategoriesTypeOK /\ ForkTypeOK
      /\ t \in Actors
  BY ForkersAssumption DEF ControlIInv, ControlTypeOK, WindowTypeOK
<1>2. fork' \in [Forkers -> ForkStages]
  <2>1. fork \in [Forkers -> ForkStages]
    BY <1>1 DEF ForkTypeOK
  <2>2. ASSUME NEW from, NEW to \in ForkStages, ForkStep(t, from, to)
        PROVE  fork' \in [Forkers -> ForkStages]
    BY <2>1, <2>2 DEF ForkStep
  <2>3. ASSUME NEW l \in Layers, Prefork(t, l) PROVE fork' \in [Forkers -> ForkStages]
    BY <2>2, <2>3, Returns DEF Prefork, PreforkTest, PreforkBody, PreforkLocks,
       PreforkUnlocksParent, PreforkUnlocksChild, Handler
  <2>4. ASSUME NEW l \in Layers, PostforkParent(t, l)
        PROVE  fork' \in [Forkers -> ForkStages]
    BY <2>2, <2>4, Returns DEF PostforkParent, PostforkParentTest, PostforkParentBody,
       PostforkParentLocks, PostforkParentUnlocks, Handler
  <2>5. ASSUME NEW l \in Layers, PostforkChild(t, l)
        PROVE  fork' \in [Forkers -> ForkStages]
    BY <2>2, <2>5, Returns DEF PostforkChild, PostforkChildTest, PostforkChildBody,
       PostforkChildLocks, PostforkChildUnlocks, Handler
  <2>6. CASE CallFork(t)
    BY <2>2, <2>6, Returns DEF CallFork, Handler, Layers
  <2>7. CASE ForkInParent(t) \/ ForkInChild(t)
    <3>1. /\ <<"post", "atfork">> \in ForkStages /\ <<"child", "atfork">> \in ForkStages
          /\ <<"gone">> \in ForkStages
      BY Returns DEF Handler, Layers
    <3> QED
      BY <2>1, <2>7, <3>1 DEF ForkInParent, ForkInChild
  <2> QED
    BY <2>3, <2>4, <2>5, <2>6, <2>7
       DEF ForkMoves, ThreadForks, ForkHandlersRun, ForkRuns, ChildAppears
<1> USE DEF ForkMoves, ThreadForks, CallFork, ForkHandlersRun, ForkRuns, Prefork,
            PreforkTest, PreforkBody, PreforkLocks, PreforkUnlocksParent,
            PreforkUnlocksChild, PostforkParent, PostforkParentTest,
            PostforkParentBody, PostforkParentLocks, PostforkParentUnlocks,
            PostforkChild, PostforkChildTest, PostforkChildBody, PostforkChildLocks,
            PostforkChildUnlocks, ForkInParent, ChildAppears, ForkInChild, ForkStep
<1>3. /\ {prefork_lock', postfork_parent_lock', postfork_child_lock'} \subseteq BOOLEAN
      /\ process' \in {"root", "child", "child that forked"}
      /\ forked' \in BOOLEAN
  BY <1>1 DEF ControlTypeOK, ForkTypeOK, lockVars
<1>4. /\ state' \in {"Init", "Active", "Finalized"} /\ samples' \in BOOLEAN
      /\ UNCHANGED enabled
  BY <1>1 DEF CategoriesTypeOK, catVars
<1>5. sweep' \in [Actors -> [enable : BOOLEAN, next : 1 .. NumCategories + 1]]
  <2>1. /\ sweep \in [Actors -> [enable : BOOLEAN, next : 1 .. NumCategories + 1]]
        /\ NumCategories \in Nat
    BY <1>1, CategoriesAssumption DEF CategoriesTypeOK
  <2>2. ASSUME NEW e \in BOOLEAN, SweepFrom(t, e)
        PROVE  sweep' \in [Actors -> [enable : BOOLEAN, next : 1 .. NumCategories + 1]]
    BY <1>1, <2>2, SweepStarts
  <2>3. CASE sweep' = [a \in Actors |-> [sweep[a] EXCEPT !.next = NumCategories + 1]]
    BY <1>1, <2>3, SweepsEnd
  <2>4. \/ (\E e \in BOOLEAN : SweepFrom(t, e)) \/ UNCHANGED sweep
        \/ sweep' = [a \in Actors |-> [sweep[a] EXCEPT !.next = NumCategories + 1]]
    BY DEF catVars
  <2> QED
    BY <2>1, <2>2, <2>3, <2>4
<1>6. /\ main' \in MainStages /\ window' \in WindowStages
      /\ UNCHANGED <<Specs, spec, round>>
  BY <1>1 DEF WindowTypeOK, MainStages, WindowStages, windowVars
<1> QED
  BY <1>1, <1>2, <1>3, <1>4, <1>5, <1>6
     DEF ControlTypeOK, WindowTypeOK, CategoriesTypeOK, ForkTypeOK

LEMMA TypeKept == ASSUME ControlIInv, ControlNext PROVE ControlTypeOK'
<1>1. ASSUME NEW a \in Actors, ActorSetsFlag(a) PROVE ControlTypeOK'
  <2>1. CategoriesTypeOK'
    BY <1>1, FlagStep DEF ActorSetsFlag, ControlIInv, ControlTypeOK, WindowTypeOK
  <2> QED
    BY <1>1, <2>1 DEF ActorSetsFlag, ControlIInv, ControlTypeOK, WindowTypeOK, ForkTypeOK,
       windowVars, forkVars, lockVars
<1> QED
  BY <1>1, Movers, MainTypes, WindowTypes, ForkTypes

-----------------------------------------------------------------------------
(* The states and the places *)

\* The places of a call of fork().
LEMMA StepPlace ==
  ASSUME NEW t \in Forkers, NEW h, NEW l, NEW to, ForkStep(t, <<h, l>>, to)
  PROVE  Stage(t) = h
BY DEF Stage, ForkStep

\* What the handlers do to the variables of the other parts: only the one of the child
\* writes the state of the process.
LEMMA HandlerSteps ==
  ASSUME NEW t \in Forkers, ForkHandlersRun(t)
  PROVE  /\ Stage(t) \notin {"idle", "gone"} /\ fork[t] # <<"idle">>
         /\ state' = state \/ (Stage(t) = "childBody" /\ state' = "Finalized")
         /\ UNCHANGED <<windowVars, enabled, forked>>
<1>1. ASSUME NEW l \in Layers, Prefork(t, l)
      PROVE  Stage(t) \notin {"idle", "gone"} /\ UNCHANGED <<state, enabled>>
  BY <1>1, StepPlace DEF Prefork, PreforkTest, PreforkBody, PreforkLocks,
     PreforkUnlocksParent, PreforkUnlocksChild, catVars
<1>2. ASSUME NEW l \in Layers, PostforkParent(t, l)
      PROVE  Stage(t) \notin {"idle", "gone"} /\ UNCHANGED <<state, enabled>>
  BY <1>2, StepPlace DEF PostforkParent, PostforkParentTest, PostforkParentBody,
     PostforkParentLocks, PostforkParentUnlocks, catVars
<1>3. ASSUME NEW l \in Layers, PostforkChild(t, l)
      PROVE  /\ Stage(t) \notin {"idle", "gone"} /\ UNCHANGED enabled
             /\ state' = state \/ (Stage(t) = "childBody" /\ state' = "Finalized")
  BY <1>3, StepPlace DEF PostforkChild, PostforkChildTest, PostforkChildBody,
     PostforkChildLocks, PostforkChildUnlocks, catVars
<1>4. ASSUME ForkInParent(t)
      PROVE  Stage(t) \notin {"idle", "gone"} /\ UNCHANGED <<state, enabled>>
  <2>1. fork[t] = <<"fork">> /\ UNCHANGED <<state, enabled>>
    BY <1>4 DEF ForkInParent, catVars
  <2> QED
    BY <2>1 DEF Stage
<1>5. /\ Stage(t) \notin {"idle", "gone"} /\ UNCHANGED enabled
      /\ state' = state \/ (Stage(t) = "childBody" /\ state' = "Finalized")
  BY <1>1, <1>2, <1>3, <1>4 DEF ForkHandlersRun, ForkRuns
<1>6. fork[t] # <<"idle">>
  BY <1>5 DEF Stage
<1> QED
  BY <1>5, <1>6 DEF ForkHandlersRun

\* No handler tells a child from the root process, and back.
LEMMA SameProcess ==
  ASSUME ControlTypeOK, NEW t \in Forkers, ThreadForks(t) \/ ForkHandlersRun(t)
  PROVE  /\ (process' = "root") <=> (process = "root")
         /\ process' = process \/ (Stage(t) = "fork" /\ process' = "child that forked")
<1>1. ASSUME NEW l \in Layers, Prefork(t, l) \/ PostforkParent(t, l)
                                  \/ PostforkChild(t, l)
      PROVE  process' = process
  BY <1>1 DEF Prefork, PreforkTest, PreforkBody, PreforkLocks, PreforkUnlocksParent,
     PreforkUnlocksChild, PostforkParent, PostforkParentTest, PostforkParentBody,
     PostforkParentLocks, PostforkParentUnlocks, PostforkChild, PostforkChildTest,
     PostforkChildBody, PostforkChildLocks, PostforkChildUnlocks, ForkStep
<1>2. CASE ForkInParent(t)
  <2>1. fork[t] = <<"fork">>
    BY <1>2 DEF ForkInParent
  <2>2. Stage(t) = "fork"
    BY <2>1 DEF Stage
  <2> QED
    BY <1>2, <2>2 DEF ForkInParent, ControlTypeOK, ForkTypeOK
<1>3. CASE ThreadForks(t)
  BY <1>3 DEF ThreadForks, CallFork, ForkStep
<1> QED
  BY <1>1, <1>2, <1>3 DEF ForkHandlersRun, ForkRuns

\* A fork begins when the tool is active; only then do the handlers run.
LEMMA StateKept == ASSUME ControlIInv, ControlNext PROVE StateIInv'
<1>0. StateIInv /\ SpecIInv /\ ChildIInv /\ ControlTypeOK
  BY DEF ControlIInv
<1>1. ASSUME NEW a \in Actors, ActorSetsFlag(a) PROVE StateIInv'
  BY <1>0, <1>1 DEF ActorSetsFlag, SetFlag, windowVars, forkVars, lockVars, StateIInv
<1>2. CASE MainRuns
  BY <1>0, <1>2 DEF StateIInv, forkVars, lockVars, MainRuns, MainNext, SetupCategories,
     SetupReturns, BecomeActive, BlockSamples, Finalize, WriteOutput,
     ShutdownCategories, FinalizeReturns, MainStep, catVars
<1>3. CASE WindowThreadRuns
  BY <1>0, <1>3 DEF StateIInv, forkVars, lockVars, WindowThreadRuns, WindowRuns,
     WindowStarts, WindowSignals, PeriodBegins, InitPeriod, InitReturns, WaitEnds,
     StartPeriod, StartReturns, CollectEnds, StopPeriod, StopReturns, WindowStep,
     LeaveSpec, catVars
<1>4. ASSUME NEW t \in Forkers, ThreadForks(t) \/ ForkHandlersRun(t) PROVE StateIInv'
  <2>1. UNCHANGED main /\ UNCHANGED window
    BY <1>4 DEF ThreadForks, ForkHandlersRun, windowVars
  <2>2. forked' /\ (forked \/ state # "Init")
    <3>1. CASE ThreadForks(t)
      BY <3>1 DEF ThreadForks, CallFork
    <3>2. CASE ForkHandlersRun(t)
      <4>1. fork[t] # <<"idle">> /\ UNCHANGED forked
        BY <3>2, HandlerSteps
      <4> QED
        BY <1>0, <4>1 DEF StateIInv, ControlTypeOK
    <3> QED
      BY <1>4, <3>1, <3>2
  <2>3. (process' = "root") <=> (process = "root")
    BY <1>0, <1>4, SameProcess
  <2>4. state' = state \/ (state' = "Finalized" /\ process # "root")
    <3>1. state' = state \/ (state' = "Finalized" /\ Stage(t) = "childBody")
      BY <1>4, HandlerSteps DEF ThreadForks, CallFork, catVars
    <3> QED
      BY <1>0, <3>1 DEF ChildIInv, ChildStages
  <2> QED
    BY <1>0, <2>1, <2>2, <2>3, <2>4 DEF StateIInv
<1>5. ASSUME NEW t \in Forkers, ChildAppears(t) PROVE StateIInv'
  <2>1. forked /\ forked' /\ process' # "root" /\ main' = "gone" /\ state' = state
    <3>1. fork[t] # <<"idle">>
      BY <1>5 DEF ChildAppears, ForkInChild
    <3> QED
      BY <1>0, <1>5, <3>1 DEF ChildAppears, ForkInChild, StateIInv, ControlTypeOK
  <2> QED
    BY <1>0, <2>1 DEF StateIInv
<1> QED
  BY <1>1, <1>2, <1>3, <1>4, <1>5, Movers DEF ForkMoves

LEMMA SpecKept == ASSUME ControlIInv, ControlNext PROVE SpecIInv'
<1>0. StateIInv /\ SpecIInv /\ ControlTypeOK /\ WindowTypeOK
  BY DEF ControlIInv, ControlTypeOK
<1>1. ASSUME NEW a \in Actors, ActorSetsFlag(a) PROVE SpecIInv'
  BY <1>0, <1>1 DEF ActorSetsFlag, windowVars, forkVars, SpecIInv
<1>2. CASE MainRuns
  <2>1. \/ UNCHANGED <<window, Specs, spec, process>>
        \/ /\ window = "none" /\ window' = IF Specs = <<>> THEN "none" ELSE "created"
           /\ UNCHANGED <<Specs, spec, process>> /\ process = "root"
    BY <1>0, <1>2 DEF StateIInv, forkVars, MainRuns, MainNext, SetupCategories,
       SetupReturns, BecomeActive, BlockSamples, Finalize, WriteOutput,
       ShutdownCategories, FinalizeReturns, MainStep, catVars
  <2>2. spec = 1 \/ window # "none"
    BY <1>0 DEF SpecIInv
  <2> QED
    BY <1>0, <2>1, <2>2, Lengths DEF SpecIInv
<1>3. CASE WindowThreadRuns
  BY <1>3, WindowTypes
<1>4. ASSUME NEW t \in Forkers, ThreadForks(t) \/ ForkHandlersRun(t) PROVE SpecIInv'
  <2>1. (process' = "root") <=> (process = "root")
    BY <1>0, <1>4, SameProcess
  <2>2. UNCHANGED windowVars
    BY <1>4 DEF ThreadForks, ForkHandlersRun
  <2> QED
    BY <1>0, <2>1, <2>2 DEF SpecIInv, windowVars
<1>5. ASSUME NEW t \in Forkers, ChildAppears(t) PROVE SpecIInv'
  BY <1>0, <1>5 DEF ChildAppears, SpecIInv
<1> QED
  BY <1>1, <1>2, <1>3, <1>4, <1>5, Movers DEF ForkMoves

-----------------------------------------------------------------------------
(* The periods *)

\* While it waits for a call of configure_categories or for the time, the period
\* thread is the only one whose flags change.
LEMMA PeriodKept ==
  ASSUME ControlIInv, WindowThreadRuns, ~forked, state # "Finalized"
  PROVE  WindowIInv'
<1>1. /\ CategoriesTypeOK /\ ControlTypeOK /\ WindowTypeOK /\ "window" \in Actors
      /\ WindowIInv /\ SpecIInv
  BY Lengths DEF ControlIInv, ControlTypeOK, WindowTypeOK
<1>2. /\ \A a \in Actors : a # "window" => Swept(a)
      /\ UNCHANGED <<state, enabled, forked, Specs>>
  BY <1>1 DEF WindowIInv, WindowThreadRuns, WindowRuns, WindowStarts, WindowSignals,
     PeriodBegins, InitPeriod, InitReturns, WaitEnds, StartPeriod, StartReturns,
     CollectEnds, StopPeriod, StopReturns, WindowStep, LeaveSpec, catVars
<1>3. ASSUME NEW e \in BOOLEAN, SweepFrom("window", e)
      PROVE  /\ sweep'["window"].enable = e /\ ~Swept("window")' /\ Progress("window")'
             /\ \A a \in Actors : a # "window" => Swept(a)'
  BY <1>1, <1>2, <1>3, SweepStarts DEF Swept
<1>4. UNCHANGED <<sweep, enabled>> =>
        /\ \A a \in Actors : Swept(a)' <=> Swept(a)
        /\ Progress("window")' <=> Progress("window")
  BY DEF Swept, Progress
<1>5. Progress("window") /\ Swept("window") =>
        enabled = IF sweep["window"].enable THEN All ELSE {}
  BY <1>1, SweptFlags
<1>6. window = "created" => Spec = Specs[1]
  BY <1>1 DEF SpecIInv, Spec
<1>a. CASE WindowStarts
  BY <1>1, <1>2, <1>3, <1>4, <1>6, <1>a DEF WindowIInv, WindowStarts, WindowStep
<1>b. CASE InitPeriod
  BY <1>1, <1>2, <1>3, <1>4, <1>b DEF WindowIInv, InitPeriod, WindowStep
<1>c. CASE StartPeriod
  BY <1>1, <1>2, <1>3, <1>c DEF WindowIInv, StartPeriod, WindowStep
<1>d. CASE StopPeriod
  BY <1>1, <1>2, <1>3, <1>d DEF WindowIInv, StopPeriod, WindowStep
<1>e. CASE WindowSignals \/ PeriodBegins \/ InitReturns \/ WaitEnds
  BY <1>1, <1>2, <1>4, <1>5, <1>e DEF WindowIInv, WindowSignals, PeriodBegins,
     InitReturns, WaitEnds, WindowStep, catVars
<1>f. CASE StartReturns \/ CollectEnds \/ StopReturns
  BY <1>1, <1>2, <1>4, <1>5, <1>f DEF WindowIInv, StartReturns, CollectEnds,
     StopReturns, LeaveSpec, WindowStep, catVars
<1> QED
  BY <1>a, <1>b, <1>c, <1>d, <1>e, <1>f DEF WindowThreadRuns, WindowRuns

LEMMA WindowKept == ASSUME ControlIInv, ControlNext PROVE WindowIInv'
<1>0. /\ CategoriesTypeOK /\ ControlTypeOK /\ "window" \in Actors
      /\ WindowIInv /\ StateIInv
  BY Lengths DEF ControlIInv, ControlTypeOK, WindowTypeOK
<1>1. ASSUME NEW a \in Actors, ActorSetsFlag(a), ~forked, state # "Finalized"
      PROVE  WindowIInv'
  <2>1. /\ ~Swept(a) /\ UNCHANGED <<state, windowVars, forked>>
        /\ \A b \in Actors : sweep'[b].enable = sweep[b].enable
        /\ \A b \in Actors : b # a => sweep'[b] = sweep[b]
        /\ Progress(a) => Progress(a)'
        /\ enabled = {} /\ ~sweep[a].enable => enabled' = {}
    BY <1>0, <1>1, FlagStep DEF ActorSetsFlag
  <2>2. a = "window"
    BY <1>0, <1>1, <2>1 DEF WindowIInv
  <2> QED
    BY <1>0, <1>1, <2>1, <2>2 DEF WindowIInv, windowVars, Swept
<1>2. ASSUME MainRuns, ~forked', state' # "Finalized"
      PROVE  WindowIInv'
  <2>1. /\ UNCHANGED <<enabled, sweep, forked, Specs>> /\ state # "Finalized"
        /\ \/ UNCHANGED window
           \/ window = "none" /\ window' \in {"none", "created"}
    BY <1>0, <1>2 DEF MainRuns, MainNext, SetupCategories, SetupReturns, BecomeActive,
       BlockSamples, Finalize, WriteOutput, ShutdownCategories, FinalizeReturns,
       MainStep, catVars, StateIInv
  <2> QED
    BY <1>0, <1>2, <2>1 DEF WindowIInv, Swept, Progress
<1>3. CASE WindowThreadRuns
  <2>1. UNCHANGED <<state, forked>>
    BY <1>3 DEF WindowThreadRuns, WindowRuns, WindowStarts, WindowSignals, PeriodBegins,
       InitPeriod, InitReturns, WaitEnds, StartPeriod, StartReturns, CollectEnds,
       StopPeriod, StopReturns, WindowStep, LeaveSpec, catVars
  <2> QED
    BY <1>3, <2>1, PeriodKept DEF WindowIInv
<1>4. ASSUME NEW t \in Forkers, ForkMoves(t) PROVE forked' = TRUE
  <2>1. CASE ThreadForks(t)
    BY <2>1 DEF ThreadForks
  <2>2. fork[t] # <<"idle">> => forked = TRUE
    BY <1>0 DEF StateIInv, ControlTypeOK
  <2>3. CASE ForkHandlersRun(t)
    BY <2>2, <2>3, HandlerSteps
  <2>4. CASE ChildAppears(t)
    BY <2>2, <2>4 DEF ChildAppears, ForkInChild
  <2> QED
    BY <1>4, <2>1, <2>3, <2>4 DEF ForkMoves
<1>5. ASSUME NEW a \in Actors, ActorSetsFlag(a), ~WindowIInv' PROVE FALSE
  <2>1. UNCHANGED <<forked, state>>
    BY <1>5 DEF ActorSetsFlag, SetFlag
  <2> QED
    BY <1>1, <1>5, <2>1 DEF WindowIInv
<1> QED
  BY <1>2, <1>3, <1>4, <1>5, Movers DEF WindowIInv

-----------------------------------------------------------------------------
(* The child *)

\* A step of a call of fork() moves that call, and no other.
LEMMA StepMoves ==
  ASSUME ControlTypeOK, NEW t \in Forkers, NEW from, NEW to, ForkStep(t, from, to)
  PROVE  /\ fork'[t] = to /\ Stage(t)' = to[1] /\ Layer(t)' = to[2]
         /\ \A u \in Forkers : u # t => Stage(u)' = Stage(u)
         /\ Swept(t) /\ process' = process
<1>1. /\ fork' = [fork EXCEPT ![t] = to] /\ fork \in [Forkers -> ForkStages]
      /\ Swept(t) /\ process' = process
  BY DEF ForkStep, ControlTypeOK, ForkTypeOK
<1>2. fork'[t] = to /\ \A u \in Forkers : u # t => fork'[u] = fork[u]
  BY <1>1
<1> QED
  BY <1>1, <1>2 DEF Stage, Layer

\* The handlers of the other threads, and their calls of configure_categories.
LEMMA HandlerFrame ==
  ASSUME ControlTypeOK, NEW t \in Forkers, ThreadForks(t) \/ ForkHandlersRun(t)
  PROVE  /\ \A u \in Forkers : u # t => Stage(u)' = Stage(u)
         /\ \A a \in Actors : a # t => sweep'[a] = sweep[a]
         /\ Stage(t) # "gone"
<1>0. CategoriesTypeOK /\ t \in Actors
  BY ForkersAssumption DEF ControlTypeOK, WindowTypeOK
<1>1. \A e \in BOOLEAN : SweepFrom(t, e) =>
        \A a \in Actors : a # t => sweep'[a] = sweep[a]
  BY <1>0, SweepStarts
<1>2. UNCHANGED sweep => \A a \in Actors : sweep'[a] = sweep[a]
  OBVIOUS
<1>3. CASE ThreadForks(t)
  <2>1. ForkStep(t, <<"idle">>, <<"pre", "gotcha">>) /\ UNCHANGED sweep
    BY <1>3 DEF ThreadForks, CallFork, catVars
  <2>2. fork[t] = <<"idle">>
    BY <2>1 DEF ForkStep
  <2>3. Stage(t) # "gone"
    BY <2>2 DEF Stage
  <2> QED
    BY <1>2, <2>1, <2>3, StepMoves
<1>4. ASSUME NEW l \in Layers, Prefork(t, l) \/ PostforkParent(t, l)
                                  \/ PostforkChild(t, l)
      PROVE  /\ \E from, to : ForkStep(t, from, to)
             /\ UNCHANGED sweep \/ \E e \in BOOLEAN : SweepFrom(t, e)
  BY <1>4 DEF Prefork, PreforkTest, PreforkBody, PreforkLocks, PreforkUnlocksParent,
     PreforkUnlocksChild, PostforkParent, PostforkParentTest, PostforkParentBody,
     PostforkParentLocks, PostforkParentUnlocks, PostforkChild, PostforkChildTest,
     PostforkChildBody, PostforkChildLocks, PostforkChildUnlocks, catVars
<1>5. CASE ForkInParent(t)
  <2>1. fork' = [fork EXCEPT ![t] = <<"post", "atfork">>] /\ UNCHANGED sweep
    BY <1>5 DEF ForkInParent, catVars
  <2>2. \A u \in Forkers : u # t => fork'[u] = fork[u]
    BY <2>1 DEF ControlTypeOK, ForkTypeOK
  <2>3. \A u \in Forkers : u # t => Stage(u)' = Stage(u)
    BY <2>2 DEF Stage
  <2>4. fork[t] = <<"fork">>
    BY <1>5 DEF ForkInParent
  <2>5. Stage(t) # "gone"
    BY <2>4 DEF Stage
  <2> QED
    BY <1>2, <2>1, <2>3, <2>5
<1> QED
  BY <1>1, <1>2, <1>3, <1>4, <1>5, StepMoves, HandlerSteps
     DEF ForkHandlersRun, ForkRuns

\* The handlers of the child are not reached in the root process.
LEMMA RootHandlers ==
  ASSUME ControlIInv, NEW t \in Forkers, ForkHandlersRun(t), process = "root"
  PROVE  ~postfork_child_lock' /\ Stage(t)' \notin ChildStages
<1>0. ControlTypeOK /\ ~postfork_child_lock /\ Stage(t) \notin ChildStages
  BY DEF ControlIInv, ChildIInv
<1>1. ASSUME NEW l \in Layers, Prefork(t, l)
      PROVE  ~postfork_child_lock' /\ Stage(t)' \notin ChildStages
  <2>1. ~postfork_child_lock'
    BY <1>0, <1>1 DEF Prefork, PreforkTest, PreforkBody, PreforkLocks,
       PreforkUnlocksParent, PreforkUnlocksChild, lockVars
  <2>2. \E to \in {<<"preBody", l>>, <<"preSwept", l>>, <<"preLocked", l>>,
                   <<"preParent", l>>, <<"pre", "atfork">>, <<"fork">>} :
          \E from : ForkStep(t, from, to)
    BY <1>1 DEF Prefork, PreforkTest, PreforkBody, PreforkLocks, PreforkUnlocksParent,
       PreforkUnlocksChild, PreforkReturn
  <2>3. \A to : (\E from : ForkStep(t, from, to)) => Stage(t)' = to[1]
    BY <1>0, StepMoves
  <2> QED
    BY <2>1, <2>2, <2>3 DEF ChildStages
<1>2. ASSUME NEW l \in Layers, PostforkParent(t, l)
      PROVE  ~postfork_child_lock' /\ Stage(t)' \notin ChildStages
  <2>1. ~postfork_child_lock'
    BY <1>0, <1>2 DEF PostforkParent, PostforkParentTest, PostforkParentBody,
       PostforkParentLocks, PostforkParentUnlocks, lockVars
  <2>2. \E to \in {<<"postBody", l>>, <<"postSwept", l>>, <<"postLocked", l>>,
                   <<"post", "gotcha">>, <<"idle">>} :
          \E from : ForkStep(t, from, to)
    BY <1>2 DEF PostforkParent, PostforkParentTest, PostforkParentBody,
       PostforkParentLocks, PostforkParentUnlocks, PostforkReturn
  <2>3. \A to : (\E from : ForkStep(t, from, to)) => Stage(t)' = to[1]
    BY <1>0, StepMoves
  <2> QED
    BY <2>1, <2>2, <2>3 DEF ChildStages
<1>3. ASSUME NEW l \in Layers, PostforkChild(t, l) PROVE FALSE
  BY <1>0, <1>3, StepPlace DEF ChildStages, PostforkChild, PostforkChildTest,
     PostforkChildBody, PostforkChildLocks, PostforkChildUnlocks
<1>4. CASE ForkInParent(t)
  <2>1. fork'[t] = <<"post", "atfork">> /\ UNCHANGED postfork_child_lock
    BY <1>0, <1>4 DEF ForkInParent, ControlTypeOK, ForkTypeOK, lockVars
  <2>2. Stage(t)' = "post"
    BY <2>1 DEF Stage
  <2> QED
    BY <1>0, <2>1, <2>2 DEF ChildStages
<1> QED
  BY <1>1, <1>2, <1>3, <1>4 DEF ForkHandlersRun, ForkRuns

\* The handlers in a child: those of the child, and those of a fork of its own.
LEMMA ChildHandlers ==
  ASSUME ControlIInv, NEW t \in Forkers, ForkHandlersRun(t),
         process = "child", process' = "child"
  PROVE  ChildAt(t)'
<1>0. /\ ControlTypeOK /\ CategoriesTypeOK /\ t \in Actors /\ Stage(t) # "gone"
      /\ ChildAt(t)
  BY HandlerSteps, ForkersAssumption
     DEF ControlIInv, ControlTypeOK, WindowTypeOK, ChildIInv
<1>1. ASSUME NEW from, NEW to, ForkStep(t, from, to)
      PROVE  fork[t] = from /\ fork'[t] = to /\ Stage(t)' = to[1] /\ Swept(t)
  <2>1. fork[t] = from
    BY <1>1 DEF ForkStep
  <2> QED
    BY <1>0, <1>1, <2>1, StepMoves
<1>2. ASSUME NEW l \in Layers, Prefork(t, l) PROVE ChildAt(t)'
  <2>1. Stage(t) \in {"pre", "preBody", "preSwept", "preLocked", "preParent"}
    BY <1>2, StepPlace DEF Prefork, PreforkTest, PreforkBody, PreforkLocks,
       PreforkUnlocksParent, PreforkUnlocksChild
  <2>2. fork[t] # <<"child", "atfork">>
    BY <2>1 DEF Stage
  <2>3. state = "Finalized" /\ enabled = {}
    BY <1>0, <2>1, <2>2 DEF ChildAt
  <2>4. UNCHANGED <<state, enabled>>
    BY <1>2 DEF Prefork, PreforkTest, PreforkBody, PreforkLocks,
       PreforkUnlocksParent, PreforkUnlocksChild, catVars
  <2>5. Swept(t)' \/ ~sweep'[t].enable
    <3>1. SweepFrom(t, FALSE) => ~sweep'[t].enable
      BY <1>0, SweepStarts
    <3>2. UNCHANGED sweep => (Swept(t)' <=> Swept(t))
      BY DEF Swept
    <3>3. SweepFrom(t, FALSE) \/ (UNCHANGED sweep /\ Swept(t))
      BY <1>2 DEF Prefork, PreforkTest, PreforkBody, PreforkLocks,
       PreforkUnlocksParent, PreforkUnlocksChild, catVars, ForkStep
    <3> QED
      BY <3>1, <3>2, <3>3
  <2>6. \E to \in {<<"preBody", l>>, <<"preSwept", l>>, <<"preLocked", l>>,
                   <<"preParent", l>>, <<"pre", "atfork">>, <<"fork">>} :
          \E from : ForkStep(t, from, to)
    BY <1>2 DEF Prefork, PreforkTest, PreforkBody, PreforkLocks, PreforkUnlocksParent,
       PreforkUnlocksChild, PreforkReturn
  <2>7. Stage(t)' \in {"preBody", "preSwept", "preLocked", "preParent", "pre", "fork"}
    BY <1>1, <2>6
  <2>8. fork'[t] # <<"child", "atfork">>
    BY <2>7 DEF Stage
  <2> QED
    BY <2>3, <2>4, <2>5, <2>7, <2>8 DEF ChildAt
<1>3. ASSUME NEW l \in Layers, PostforkParent(t, l) PROVE FALSE
  BY <1>0, <1>3, StepPlace DEF ChildAt, PostforkParent, PostforkParentTest,
     PostforkParentBody, PostforkParentLocks, PostforkParentUnlocks
<1>4. ASSUME NEW l \in Layers, PostforkChildTest(t, l) PROVE ChildAt(t)'
  <2>1. /\ fork[t] = <<"child", l>> /\ Swept(t)
        /\ UNCHANGED <<catVars, postfork_child_lock>>
        /\ fork'[t] = IF postfork_child_lock THEN PostforkReturn("child", l)
                                              ELSE <<"childBody", l>>
    BY <1>1, <1>4 DEF PostforkChildTest, lockVars
  <2>2. Stage(t) = "child"
    BY <2>1 DEF Stage
  <2>3. CASE ~postfork_child_lock
    <3>1. fork'[t] = <<"childBody", l>>
      BY <2>1, <2>3
    <3>2. Stage(t)' = "childBody" /\ fork'[t] # <<"child", "atfork">>
      BY <3>1 DEF Stage
    <3> QED
      BY <3>2 DEF ChildAt
  <2>4. CASE postfork_child_lock
    <3>1. l = "gotcha"
      BY <1>0, <2>1, <2>4 DEF ChildAt, Layers
    <3>2. fork'[t] = <<"idle">> /\ fork[t] # <<"child", "atfork">>
      BY <2>1, <2>4, <3>1 DEF PostforkReturn
    <3>3. Stage(t)' = "idle" /\ fork'[t] # <<"child", "atfork">>
      BY <3>2 DEF Stage
    <3>4. UNCHANGED <<state, enabled, sweep>>
      BY <2>1 DEF catVars
    <3>5. Swept(t)'
      BY <2>1, <3>4 DEF Swept
    <3> QED
      BY <1>0, <2>2, <3>2, <3>3, <3>4, <3>5 DEF ChildAt
  <2> QED
    BY <2>3, <2>4
<1>5. ASSUME NEW l \in Layers, PostforkChildBody(t, l) PROVE ChildAt(t)'
  <2>1. /\ fork'[t] = <<"childSwept", l>> /\ state' = "Finalized"
        /\ SweepFrom(t, FALSE)
    BY <1>1, <1>5 DEF PostforkChildBody
  <2>2. Stage(t)' = "childSwept" /\ fork'[t] # <<"child", "atfork">>
    BY <2>1 DEF Stage
  <2> QED
    BY <1>0, <2>1, <2>2, SweepStarts DEF ChildAt
<1>6. ASSUME NEW l \in Layers, PostforkChildLocks(t, l) PROVE ChildAt(t)'
  <2>1. /\ fork'[t] = <<"childLocked", l>> /\ UNCHANGED <<state, enabled, sweep>>
        /\ Swept(t)
    BY <1>1, <1>6 DEF PostforkChildLocks, catVars
  <2>2. Stage(t) = "childSwept"
    BY <1>6, StepPlace DEF PostforkChildLocks
  <2>3. Stage(t)' = "childLocked" /\ fork'[t] # <<"child", "atfork">>
    BY <2>1 DEF Stage
  <2>4. state = "Finalized" /\ enabled = {}
    BY <1>0, <2>1, <2>2, SweptFlags DEF ChildAt
  <2>5. Swept(t)'
    BY <2>1 DEF Swept
  <2> QED
    BY <2>1, <2>3, <2>4, <2>5 DEF ChildAt
<1>7. ASSUME NEW l \in Layers, PostforkChildUnlocks(t, l) PROVE ChildAt(t)'
  <2>1. /\ fork'[t] = PostforkReturn("child", l) /\ UNCHANGED <<state, enabled, sweep>>
        /\ Swept(t)
    BY <1>1, <1>7 DEF PostforkChildUnlocks, catVars
  <2>2. Stage(t) = "childLocked"
    BY <1>7, StepPlace DEF PostforkChildUnlocks
  <2>3. fork'[t] \in {<<"child", "gotcha">>, <<"idle">>}
    BY <2>1 DEF PostforkReturn
  <2>4. Stage(t)' \in {"child", "idle"} /\ fork'[t] # <<"child", "atfork">>
    BY <2>3 DEF Stage
  <2>5. fork[t] # <<"child", "atfork">>
    BY <2>2 DEF Stage
  <2>6. state = "Finalized" /\ enabled = {}
    BY <1>0, <2>2, <2>5 DEF ChildAt
  <2>7. Swept(t)'
    BY <2>1 DEF Swept
  <2> QED
    BY <2>1, <2>4, <2>6, <2>7 DEF ChildAt
<1>8. ~ForkInParent(t)
  BY DEF ForkInParent
<1> QED
  BY <1>2, <1>3, <1>4, <1>5, <1>6, <1>7, <1>8
     DEF ForkHandlersRun, ForkRuns, PostforkChild

LEMMA ChildKept == ASSUME ControlIInv, ControlNext PROVE ChildIInv'
<1>0. /\ ChildIInv /\ StateIInv /\ SpecIInv /\ ControlTypeOK /\ CategoriesTypeOK
      /\ Forkers \subseteq Actors
  BY ForkersAssumption DEF ControlIInv, ControlTypeOK, WindowTypeOK
<1>1. ASSUME NEW a \in Actors, ActorSetsFlag(a) PROVE ChildIInv'
  <2>1. /\ ~Swept(a) /\ UNCHANGED <<state, fork, process, postfork_child_lock>>
        /\ \A b \in Actors : sweep'[b].enable = sweep[b].enable
        /\ \A b \in Actors : b # a => sweep'[b] = sweep[b]
        /\ Progress(a) => Progress(a)'
        /\ enabled = {} /\ ~sweep[a].enable => enabled' = {}
    BY <1>0, <1>1, FlagStep DEF ActorSetsFlag, forkVars, lockVars
  <2>2. \A t \in Forkers : Stage(t)' = Stage(t)
    BY <2>1 DEF Stage
  <2>3. \A b \in Actors : ~Swept(b)' => b = a \/ ~Swept(b)
    BY <2>1 DEF Swept
  <2>4. ASSUME process = "child", NEW t \in Forkers, Stage(t) # "gone"
        PROVE  ChildAt(t)'
    <3>1. t = a /\ ChildAt(t)
      BY <1>0, <2>1, <2>4 DEF ChildIInv
    <3> QED
      BY <2>1, <2>2, <3>1 DEF ChildAt
  <2> QED
    BY <1>0, <2>1, <2>2, <2>3, <2>4 DEF ChildIInv
<1>2. ASSUME UNCHANGED forkVars, process = "root" PROVE ChildIInv'
  <2>1. \A t \in Forkers : Stage(t)' = Stage(t)
    BY <1>2 DEF Stage, forkVars
  <2> QED
    BY <1>0, <1>2, <2>1 DEF ChildIInv, forkVars, lockVars
<1>3. CASE MainRuns
  <2>1. main # "gone"
    BY <1>3 DEF MainRuns, MainNext, SetupCategories, SetupReturns, BecomeActive,
       BlockSamples, Finalize, WriteOutput, ShutdownCategories, FinalizeReturns, MainStep
  <2> QED
    BY <1>0, <1>2, <1>3, <2>1 DEF MainRuns, StateIInv
<1>4. CASE WindowThreadRuns
  <2>1. window \notin {"none", "done"}
    BY <1>4 DEF WindowThreadRuns, WindowRuns, WindowStarts, WindowSignals, PeriodBegins,
       InitPeriod, InitReturns, WaitEnds, StartPeriod, StartReturns, CollectEnds,
       StopPeriod, StopReturns, WindowStep
  <2> QED
    BY <1>0, <1>2, <1>4, <2>1 DEF WindowThreadRuns, SpecIInv
<1>5. ASSUME NEW t \in Forkers, ThreadForks(t) PROVE ChildIInv'
  <2>1. /\ ForkStep(t, <<"idle">>, <<"pre", "gotcha">>)
        /\ UNCHANGED <<state, enabled, sweep, process, postfork_child_lock>>
    BY <1>5 DEF ThreadForks, CallFork, ForkStep, catVars, lockVars
  <2>2. fork[t] = <<"idle">> /\ fork'[t] = <<"pre", "gotcha">>
    BY <1>0, <2>1, StepMoves DEF ForkStep
  <2>3. /\ Stage(t) = "idle" /\ Stage(t)' = "pre"
        /\ fork[t] # <<"child", "atfork">> /\ fork'[t] # <<"child", "atfork">>
    BY <2>2 DEF Stage
  <2>4. \A u \in Forkers : u # t => Stage(u)' = Stage(u)
    BY <1>0, <2>1, StepMoves
  <2>5. \A a \in Actors : Swept(a)' <=> Swept(a)
    BY <2>1 DEF Swept
  <2>6. ASSUME process = "child" PROVE ChildAt(t)'
    <3>1. ChildAt(t)
      BY <1>0, <2>3, <2>6 DEF ChildIInv
    <3> QED
      BY <1>0, <2>1, <2>3, <2>5, <3>1 DEF ChildAt
  <2>7. ASSUME process = "child", NEW u \in Forkers, Stage(u)' # "gone" PROVE u = t
    BY <1>0, <2>3, <2>4, <2>7 DEF ChildIInv
  <2> QED
    BY <1>0, <2>1, <2>3, <2>4, <2>5, <2>6, <2>7 DEF ChildIInv, ChildStages
<1>6. ASSUME NEW t \in Forkers, ForkHandlersRun(t) PROVE ChildIInv'
  <2>1. /\ \A u \in Forkers : u # t => Stage(u)' = Stage(u)
        /\ \A a \in Actors : a # t => sweep'[a] = sweep[a]
        /\ Stage(t) # "gone"
    BY <1>0, <1>6, HandlerFrame
  <2>2. /\ (process' = "root") <=> (process = "root")
        /\ process' = process \/ (Stage(t) = "fork" /\ process' = "child that forked")
    BY <1>0, <1>6, SameProcess
  <2>3. state' = state \/ state' = "Finalized"
    BY <1>6, HandlerSteps
  <2>4. \A a \in Actors : a # t => (Swept(a)' <=> Swept(a))
    BY <2>1 DEF Swept
  <2>5. Stage(t)' # "gone"
    <3>1. \A to : (\E from : ForkStep(t, from, to)) => Stage(t)' = to[1]
      BY <1>0, StepMoves
    <3>2. ASSUME NEW l \in Layers, Prefork(t, l) PROVE Stage(t)' # "gone"
      <4>1. \E to \in {<<"preBody", l>>, <<"preSwept", l>>, <<"preLocked", l>>,
                       <<"preParent", l>>, <<"pre", "atfork">>, <<"fork">>} :
              \E from : ForkStep(t, from, to)
        BY <3>2 DEF Prefork, PreforkTest, PreforkBody, PreforkLocks,
           PreforkUnlocksParent, PreforkUnlocksChild, PreforkReturn
      <4> QED
        BY <3>1, <4>1
    <3>3. ASSUME NEW l \in Layers, PostforkParent(t, l) \/ PostforkChild(t, l)
          PROVE  Stage(t)' # "gone"
      <4>1. \E to \in {<<"postBody", l>>, <<"postSwept", l>>, <<"postLocked", l>>,
                       <<"childBody", l>>, <<"childSwept", l>>, <<"childLocked", l>>,
                       <<"post", "gotcha">>, <<"child", "gotcha">>, <<"idle">>} :
              \E from : ForkStep(t, from, to)
        BY <3>3 DEF PostforkParent, PostforkParentTest, PostforkParentBody,
           PostforkParentLocks, PostforkParentUnlocks, PostforkReturn, PostforkChild,
           PostforkChildTest, PostforkChildBody, PostforkChildLocks, PostforkChildUnlocks
      <4> QED
        BY <3>1, <4>1
    <3>4. CASE ForkInParent(t)
      <4>1. fork'[t] = <<"post", "atfork">>
        BY <1>0, <3>4 DEF ForkInParent, ControlTypeOK, ForkTypeOK
      <4> QED
        BY <4>1 DEF Stage
    <3> QED
      BY <1>6, <3>2, <3>3, <3>4 DEF ForkHandlersRun, ForkRuns
  <2>6. CASE process = "root"
    <3>1. ~postfork_child_lock' /\ Stage(t)' \notin ChildStages
      BY <1>6, <2>6, RootHandlers
    <3> QED
      BY <1>0, <2>1, <2>2, <2>6, <3>1 DEF ChildIInv
  <2>7. CASE process # "root"
    <3>1. process' # "root"
      BY <2>2, <2>7
    <3>2. \A u \in Forkers : Stage(u)' # "gone" => u = t
      BY <1>0, <2>1, <2>7 DEF ChildIInv
    <3>3. \A a \in Actors : ~Swept(a)' => a \in Forkers /\ Stage(a)' # "gone"
      BY <1>0, <2>1, <2>4, <2>5, <2>7 DEF ChildIInv
    <3>4. process' = "child that forked" => state' = "Finalized"
      <4>1. CASE process = "child that forked"
        BY <1>0, <2>3, <4>1 DEF ChildIInv
      <4>2. CASE process = "child" /\ Stage(t) = "fork"
        <5>1. fork[t] # <<"child", "atfork">>
          BY <4>2 DEF Stage
        <5>2. ChildAt(t)
          BY <1>0, <2>1, <4>2 DEF ChildIInv
        <5> QED
          BY <2>3, <4>2, <5>1, <5>2 DEF ChildAt
      <4> QED
        BY <1>0, <2>2, <2>7, <4>1, <4>2 DEF ControlTypeOK, ForkTypeOK
    <3>5. process' = "child" => ChildAt(t)'
      BY <1>6, <2>2, ChildHandlers
    <3> QED
      BY <3>1, <3>2, <3>3, <3>4, <3>5 DEF ChildIInv
  <2> QED
    BY <2>6, <2>7
<1>7. ASSUME NEW t \in Forkers, ChildAppears(t) PROVE ChildIInv'
  <2>1. /\ process = "root" /\ process' = "child" /\ ~postfork_child_lock'
        /\ fork' = [u \in Forkers |-> IF u = t THEN <<"child", "atfork">> ELSE <<"gone">>]
        /\ sweep' = [a \in Actors |-> [sweep[a] EXCEPT !.next = NumCategories + 1]]
    BY <1>0, <1>7 DEF ChildAppears, ForkInChild, ChildIInv, lockVars
  <2>2. \A a \in Actors : Swept(a)'
    BY <1>0, <2>1, SweepsEnd
  <2>3. /\ fork'[t] = <<"child", "atfork">>
        /\ \A u \in Forkers : u # t => fork'[u] = <<"gone">>
    BY <2>1
  <2>4. Stage(t)' = "child" /\ \A u \in Forkers : u # t => Stage(u)' = "gone"
    BY <2>3 DEF Stage
  <2>5. ChildAt(t)'
    BY <2>1, <2>3, <2>4 DEF ChildAt
  <2> QED
    BY <2>1, <2>2, <2>4, <2>5 DEF ChildIInv
<1> QED
  BY <1>1, <1>3, <1>4, <1>5, <1>6, <1>7, Movers DEF ForkMoves

-----------------------------------------------------------------------------
(* For every number of threads that fork *)

LEMMA InitIInv == ControlInit => ControlIInv
<1> SUFFICES ASSUME ControlInit PROVE ControlIInv
  OBVIOUS
<1>0. /\ NumCategories \in Nat \ {0} /\ Forkers \subseteq Actors
      /\ Specs \in Seq([delay : BOOLEAN, duration : BOOLEAN, repeat : Nat])
  BY CategoriesAssumption, ForkersAssumption, SettingsAssumption
     DEF ControlInit, WindowInit
<1>1. /\ sweep \in [Actors -> [enable : BOOLEAN, next : 1 .. NumCategories + 1]]
      /\ \A a \in Actors : Swept(a)
  BY <1>0 DEF ControlInit, WindowInit, CategoriesInit, Swept
<1>2. /\ fork \in [Forkers -> ForkStages]
      /\ \A t \in Forkers : fork[t] = <<"idle">>
  BY DEF ControlInit, ForkInit, ForkStages
<1>3. \A t \in Forkers : Stage(t) = "idle"
  BY <1>2 DEF Stage
<1>4. WindowTypeOK /\ ForkTypeOK
  <2>1. CategoriesTypeOK
    BY <1>1 DEF ControlInit, WindowInit, CategoriesInit, CategoriesTypeOK
  <2>2. Len(Specs) \in Nat /\ 1 \in 1 .. Len(Specs) + 1
    BY <1>0
  <2>3. WindowTypeOK
    BY <2>1, <2>2 DEF ControlInit, WindowInit, WindowTypeOK, MainStages, WindowStages
  <2>4. ForkTypeOK
    BY <1>2 DEF ControlInit, ForkInit, ForkTypeOK
  <2> QED
    BY <2>3, <2>4
<1>5. StateIInv /\ SpecIInv
  BY <1>2 DEF ControlInit, WindowInit, CategoriesInit, ForkInit, StateIInv, SpecIInv
<1>6. WindowIInv
  BY <1>0, <1>1, ActorsAssumption DEF ControlInit, WindowInit, CategoriesInit, WindowIInv
<1>7. ChildIInv
  BY <1>3 DEF ControlInit, ForkInit, ChildIInv, ChildStages
<1> QED
  BY <1>4, <1>5, <1>6, <1>7 DEF ControlInit, ControlIInv, ControlTypeOK

\* Nothing that the invariant speaks of changes in a stuttering step.
LEMMA StutterIInv ==
  ASSUME ControlIInv, UNCHANGED controlVars PROVE ControlIInv'
<1>1. /\ UNCHANGED <<state, enabled, sweep, samples>>
      /\ UNCHANGED <<Specs, main, window, spec, round>>
      /\ UNCHANGED <<prefork_lock, postfork_parent_lock, postfork_child_lock>>
      /\ UNCHANGED <<fork, process, forked>>
  BY DEF controlVars, catVars, windowVars, forkVars, lockVars
<1>2. \A a \in Actors : Swept(a)' <=> Swept(a)
  BY <1>1 DEF Swept
<1>3. Progress("window")' <=> Progress("window")
  BY <1>1 DEF Progress
<1>4. ASSUME NEW t \in Forkers
      PROVE  Stage(t)' = Stage(t) /\ (ChildAt(t)' <=> ChildAt(t))
  BY <1>1 DEF Swept, Progress, Stage, ChildAt
<1>5. ControlTypeOK'
  BY <1>1 DEF ControlIInv, ControlTypeOK, WindowTypeOK, CategoriesTypeOK, ForkTypeOK
<1>6. StateIInv' /\ SpecIInv'
  BY <1>1 DEF ControlIInv, StateIInv, SpecIInv
<1>7. WindowIInv'
  BY <1>1, <1>2, <1>3, ActorsAssumption DEF ControlIInv, WindowIInv
<1>8. ChildIInv'
  BY <1>1, <1>2, <1>4, ForkersAssumption DEF ControlIInv, ChildIInv
<1> QED
  BY <1>5, <1>6, <1>7, <1>8 DEF ControlIInv

LEMMA NextIInv == ControlIInv /\ [ControlNext]_controlVars => ControlIInv'
BY TypeKept, StateKept, SpecKept, WindowKept, ChildKept, StutterIInv DEF ControlIInv

LEMMA AlwaysIInv == ControlSpec => []ControlIInv
BY InitIInv, NextIInv, PTL DEF ControlSpec

\* Every variable of the flags, the periods, the fork handlers and the threads keeps
\* its type, in the root process and in the children.
THEOREM ControlTypeCorrect == ControlSpec => []ControlTypeOK
<1>1. ControlIInv => ControlTypeOK
  BY DEF ControlIInv
<1> QED
  BY <1>1, AlwaysIInv, PTL

\* spec::operator() and categories::setup: until a fork and the finalization no flag is
\* set outside the periods if there is a delay, and all flags are set within them.
THEOREM PeriodsAreRespected == ControlSpec => []PeriodsGovernCollection
<1>1. ControlIInv => PeriodsGovernCollection
  BY DEF ControlIInv, WindowIInv, PeriodsGovernCollection
<1> QED
  BY <1>1, AlwaysIInv, PTL

\* postfork_child: whichever of the threads has forked, and whatever the other threads
\* were doing with the flags, a child that came back from fork() is finalized and
\* records nothing.
THEOREM ChildCollectsNothing == ControlSpec => []ChildStaysQuiet
<1>1. ControlIInv => ChildStaysQuiet
  <2> SUFFICES ASSUME ControlIInv, process = "child", NEW t \in Forkers,
                      fork[t] = <<"idle">>
               PROVE  state = "Finalized" /\ enabled = {}
    BY DEF ChildStaysQuiet
  <2>1. Stage(t) = "idle" /\ fork[t] # <<"child", "atfork">>
    BY DEF Stage
  <2> QED
    BY <2>1 DEF ControlIInv, ChildIInv, ChildAt
<1> QED
  BY <1>1, AlwaysIInv, PTL

-----------------------------------------------------------------------------
(* For a process in which one thread forks *)

\* What a step of a call of fork() that is at h finds, and where it leads.
LEMMA PlaceStep ==
  ASSUME ControlTypeOK, NEW t \in Forkers, NEW h, NEW l, NEW to,
         ForkStep(t, <<h, l>>, to)
  PROVE  /\ Stage(t) = h /\ Layer(t) = l /\ Swept(t)
         /\ Stage(t)' = to[1] /\ Layer(t)' = to[2]
<1>1. fork[t] = <<h, l>>
  BY DEF ForkStep
<1> QED
  BY <1>1, StepMoves DEF Stage, Layer

\* prefork_setup closes the collection, in the layer that comes first; the second
\* layer finds the lock taken.
LEMMA PreforkShuts ==
  ASSUME ControlTypeOK, NEW t \in Forkers, NEW l \in Layers, Prefork(t, l), ForkPlace(t),
         UNCHANGED main
  PROVE  ForkPlace(t)'
<1>0. CategoriesTypeOK /\ t \in Actors
  BY ForkersAssumption DEF ControlTypeOK, WindowTypeOK
<1>1. CASE PreforkTest(t, l)
  <2>1. UNCHANGED <<enabled, sweep, samples, prefork_lock, postfork_parent_lock>>
    BY <1>1 DEF PreforkTest, catVars, lockVars
  <2>2. /\ Stage(t) = "pre" /\ Layer(t) = l /\ Swept(t)
        /\ Stage(t)' = (IF prefork_lock THEN PreforkReturn(l) ELSE <<"preBody", l>>)[1]
        /\ Layer(t)' = (IF prefork_lock THEN PreforkReturn(l) ELSE <<"preBody", l>>)[2]
    BY <1>1, PlaceStep DEF PreforkTest
  <2>3. CASE l = "gotcha"
    <3>1. ~prefork_lock
      BY <2>2, <2>3 DEF ForkPlace, OpenAt
    <3>2. Stage(t)' = "preBody" /\ Layer(t)' = "gotcha"
      BY <2>2, <2>3, <3>1
    <3> QED
      BY <3>2 DEF ForkPlace
  <2>4. CASE l = "atfork"
    <3>1. ShutAt(t)
      BY <2>2, <2>4 DEF ForkPlace
    <3>2. Stage(t)' = "fork"
      BY <2>2, <2>4, <3>1 DEF ShutAt, PreforkReturn
    <3>3. ShutAt(t)'
      BY <2>1, <3>1 DEF ShutAt, Swept
    <3> QED
      BY <3>2, <3>3 DEF ForkPlace
  <2> QED
    BY <2>3, <2>4 DEF Layers
<1>2. CASE PreforkBody(t, l)
  <2>1. Stage(t) = "preBody" /\ Layer(t) = l /\ Stage(t)' = "preSwept" /\ Layer(t)' = l
    BY <1>2, PlaceStep DEF PreforkBody
  <2>2. SweepFrom(t, FALSE) /\ (UseSampling => ~samples')
    BY <1>2 DEF PreforkBody
  <2>3. sweep'[t].enable = FALSE /\ Progress(t)'
    BY <1>0, <2>2, SweepStarts
  <2> QED
    BY <2>1, <2>2, <2>3 DEF ForkPlace
<1>3. CASE PreforkLocks(t, l)
  <2>1. /\ Stage(t) = "preSwept" /\ Layer(t) = l /\ Swept(t)
        /\ Stage(t)' = "preLocked" /\ Layer(t)' = l
    BY <1>3, PlaceStep DEF PreforkLocks
  <2>2. /\ UNCHANGED <<enabled, sweep, samples>> /\ prefork_lock'
    BY <1>3 DEF PreforkLocks, catVars
  <2>3. enabled = {}
    BY <1>0, <2>1, SweptFlags DEF ForkPlace
  <2>4. Swept(t)'
    BY <2>1, <2>2 DEF Swept
  <2> QED
    BY <2>1, <2>2, <2>3, <2>4 DEF ForkPlace
<1>4. CASE PreforkUnlocksParent(t, l)
  <2>1. /\ Stage(t) = "preLocked" /\ Layer(t) = l /\ Swept(t)
        /\ Stage(t)' = "preParent" /\ Layer(t)' = l
    BY <1>4, PlaceStep DEF PreforkUnlocksParent
  <2>2. UNCHANGED <<enabled, sweep, samples, prefork_lock>> /\ ~postfork_parent_lock'
    BY <1>4 DEF PreforkUnlocksParent, catVars
  <2>3. ShutAt(t)'
    BY <2>1, <2>2 DEF ForkPlace, ShutAt, Swept
  <2> QED
    BY <2>1, <2>3 DEF ForkPlace
<1>5. CASE PreforkUnlocksChild(t, l)
  <2>1. /\ Stage(t) = "preParent" /\ Layer(t) = l /\ Swept(t)
        /\ Stage(t)' = PreforkReturn(l)[1] /\ Layer(t)' = PreforkReturn(l)[2]
    BY <1>5, PlaceStep DEF PreforkUnlocksChild
  <2>2. Stage(t)' = "pre" /\ Layer(t)' = "atfork"
    BY <2>1 DEF ForkPlace, PreforkReturn
  <2>3. UNCHANGED <<enabled, sweep, samples, prefork_lock, postfork_parent_lock>>
    BY <1>5 DEF PreforkUnlocksChild, catVars
  <2>4. ShutAt(t)'
    BY <2>1, <2>3 DEF ForkPlace, ShutAt, Swept
  <2> QED
    BY <2>2, <2>4 DEF ForkPlace
<1> QED
  BY <1>1, <1>2, <1>3, <1>4, <1>5 DEF Prefork

\* postfork_parent opens it again, in the layer of pthread_atfork; the wrapper's
\* layer finds the lock taken.
LEMMA PostforkOpens ==
  ASSUME ControlTypeOK, NEW t \in Forkers, NEW l \in Layers, PostforkParent(t, l),
         ForkPlace(t), UNCHANGED main, main = "active" /\ ~UseSampling => samples
  PROVE  ForkPlace(t)'
<1>0. CategoriesTypeOK /\ t \in Actors /\ UseSampling \in BOOLEAN
  BY ForkersAssumption DEF ControlTypeOK, WindowTypeOK
<1>1. CASE PostforkParentTest(t, l)
  <2>1. UNCHANGED <<enabled, sweep, samples, prefork_lock, postfork_parent_lock>>
    BY <1>1 DEF PostforkParentTest, catVars, lockVars
  <2>2. /\ Stage(t) = "post" /\ Layer(t) = l /\ Swept(t)
        /\ Stage(t)' = (IF postfork_parent_lock THEN PostforkReturn("post", l)
                                                ELSE <<"postBody", l>>)[1]
        /\ Layer(t)' = (IF postfork_parent_lock THEN PostforkReturn("post", l)
                                                ELSE <<"postBody", l>>)[2]
    BY <1>1, PlaceStep DEF PostforkParentTest
  <2>3. CASE l = "atfork"
    <3>1. ShutAt(t)
      BY <2>2, <2>3 DEF ForkPlace
    <3>2. Stage(t)' = "postBody" /\ Layer(t)' = "atfork"
      BY <2>2, <2>3, <3>1 DEF ShutAt
    <3>3. ShutAt(t)'
      BY <2>1, <3>1 DEF ShutAt, Swept
    <3> QED
      BY <3>2, <3>3 DEF ForkPlace
  <2>4. CASE l = "gotcha"
    <3>1. OpenAt(t) /\ postfork_parent_lock
      BY <2>2, <2>4 DEF ForkPlace
    <3>2. Stage(t)' = "idle"
      BY <2>2, <2>4, <3>1 DEF PostforkReturn
    <3>3. OpenAt(t)'
      BY <2>1, <3>1 DEF OpenAt, Swept, All
    <3> QED
      BY <3>2, <3>3 DEF ForkPlace
  <2> QED
    BY <2>3, <2>4 DEF Layers
<1>2. CASE PostforkParentBody(t, l)
  <2>1. /\ Stage(t) = "postBody" /\ Layer(t) = l
        /\ Stage(t)' = "postSwept" /\ Layer(t)' = l
    BY <1>2, PlaceStep DEF PostforkParentBody
  <2>2. SweepFrom(t, TRUE)
    BY <1>2 DEF PostforkParentBody
  <2>3. sweep'[t].enable = TRUE /\ Progress(t)'
    BY <1>0, <2>2, SweepStarts
  <2> QED
    BY <2>1, <2>3 DEF ForkPlace
<1>3. CASE PostforkParentLocks(t, l)
  <2>1. /\ Stage(t) = "postSwept" /\ Layer(t) = l /\ Swept(t)
        /\ Stage(t)' = "postLocked" /\ Layer(t)' = l
    BY <1>3, PlaceStep DEF PostforkParentLocks
  <2>2. /\ UNCHANGED <<enabled, sweep>> /\ postfork_parent_lock'
        /\ samples' = IF UseSampling THEN TRUE ELSE samples
    BY <1>3 DEF PostforkParentLocks
  <2>3. enabled = All
    BY <1>0, <2>1, SweptFlags DEF ForkPlace
  <2>4. Swept(t)' /\ enabled' = All
    BY <2>1, <2>2, <2>3 DEF Swept
  <2> QED
    BY <1>0, <2>1, <2>2, <2>4 DEF ForkPlace, All
<1>4. CASE PostforkParentUnlocks(t, l)
  <2>1. /\ Stage(t) = "postLocked" /\ Layer(t) = l /\ Swept(t)
        /\ Stage(t)' = PostforkReturn("post", l)[1]
        /\ Layer(t)' = PostforkReturn("post", l)[2]
    BY <1>4, PlaceStep DEF PostforkParentUnlocks
  <2>2. Stage(t)' = "post" /\ Layer(t)' = "gotcha"
    BY <2>1 DEF ForkPlace, PostforkReturn
  <2>3. UNCHANGED <<enabled, sweep, samples, postfork_parent_lock>> /\ ~prefork_lock'
    BY <1>4 DEF PostforkParentUnlocks, catVars
  <2>4. OpenAt(t)' /\ postfork_parent_lock'
    BY <2>1, <2>3 DEF ForkPlace, OpenAt, Swept, All
  <2> QED
    BY <2>2, <2>4 DEF ForkPlace
<1> QED
  BY <1>1, <1>2, <1>3, <1>4 DEF PostforkParent

\* Besides the thread that forks only the main thread writes what ForkPlace is about:
\* it makes the process active, with everything enabled, and blocks the samples when it
\* begins to finalize.
LEMMA ForkKept ==
  ASSUME ControlIInv, ControlNext, NEW t \in Forkers, \A u \in Forkers : u = t,
         ForkIInv(t)
  PROVE  ForkIInv(t)'
<1> SUFFICES ASSUME process' = "root", state' = "Active", Specs' = <<>>
             PROVE  /\ \A a \in Actors : a # t => Swept(a)'
                    /\ main' = "active" /\ ~UseSampling => samples'
                    /\ ForkPlace(t)'
  BY DEF ForkIInv
<1>0. /\ ControlTypeOK /\ CategoriesTypeOK /\ StateIInv /\ SpecIInv /\ WindowIInv
      /\ ChildIInv /\ t \in Actors
  BY ForkersAssumption DEF ControlIInv, ControlTypeOK, WindowTypeOK
<1>1. ASSUME NEW a \in Actors, ActorSetsFlag(a)
      PROVE  /\ \A b \in Actors : b # t => Swept(b)'
             /\ main' = "active" /\ ~UseSampling => samples'
             /\ ForkPlace(t)'
  <2>1. /\ ~Swept(a)
        /\ UNCHANGED <<state, samples, fork, process, main, Specs>>
        /\ UNCHANGED <<prefork_lock, postfork_parent_lock>>
        /\ \A b \in Actors : sweep'[b].enable = sweep[b].enable
        /\ \A b \in Actors : b # a => sweep'[b] = sweep[b]
        /\ Progress(a) => Progress(a)'
    BY <1>0, <1>1, FlagStep DEF ActorSetsFlag, forkVars, lockVars, windowVars
  <2>2. Stage(t)' = Stage(t) /\ Layer(t)' = Layer(t)
    BY <2>1 DEF Stage, Layer
  <2>3. /\ \A b \in Actors : b # t => Swept(b)
        /\ main = "active" /\ ~UseSampling => samples
        /\ ForkPlace(t)
    BY <2>1 DEF ForkIInv
  <2>4. a = t
    BY <2>1, <2>3
  <2>5. \A b \in Actors : b # t => Swept(b)'
    BY <2>1, <2>3, <2>4 DEF Swept
  <2>6. ForkPlace(t)'
    BY <2>1, <2>2, <2>3, <2>4 DEF ForkPlace, OpenAt, ShutAt
  <2> QED
    BY <2>1, <2>3, <2>5, <2>6
<1>2. CASE MainRuns
  <2>1. /\ UNCHANGED <<fork, process, Specs, prefork_lock, postfork_parent_lock>>
        /\ UNCHANGED <<enabled, sweep>>
        /\ \/ /\ state = "Active" /\ main' = "blocked"
           \/ /\ state = "Init" /\ samples' = samples
    BY <1>0, <1>2 DEF MainRuns, MainNext, SetupCategories, SetupReturns, BecomeActive,
       BlockSamples, Finalize, WriteOutput, ShutdownCategories, FinalizeReturns,
       MainStep, catVars, forkVars, lockVars, StateIInv
  <2>2. /\ Stage(t)' = Stage(t) /\ Layer(t)' = Layer(t)
        /\ \A a \in Actors : Swept(a)' <=> Swept(a)
        /\ Progress(t)' <=> Progress(t)
    BY <2>1 DEF Stage, Layer, Swept, Progress
  <2>3. CASE state = "Active"
    <3>1. /\ \A b \in Actors : b # t => Swept(b)
          /\ ForkPlace(t)
      BY <2>1, <2>3 DEF ForkIInv
    <3>2. main' = "blocked" /\ (UseSampling => (~samples => ~samples'))
      BY <1>2, <2>1, <2>3 DEF MainRuns, MainNext, SetupCategories, SetupReturns,
         BecomeActive, BlockSamples, Finalize, WriteOutput, ShutdownCategories,
         FinalizeReturns, MainStep, catVars
    <3>3. ForkPlace(t)'
      BY <1>0, <2>1, <2>2, <3>1, <3>2 DEF ForkPlace, OpenAt, ShutAt, All
    <3> QED
      BY <1>0, <2>2, <3>1, <3>2, <3>3
  <2>4. CASE state = "Init"
    <3>1. ~forked /\ samples /\ ~prefork_lock /\ fork[t] = <<"idle">>
      BY <1>0, <2>4 DEF StateIInv, ControlTypeOK
    <3>2. window = "none"
      BY <1>0, <2>1 DEF SpecIInv
    <3>3. enabled = All /\ \A a \in Actors : Swept(a)
      BY <1>0, <2>4, <3>1, <3>2 DEF WindowIInv
    <3>4. Stage(t)' = "idle"
      BY <2>2, <3>1 DEF Stage
    <3>5. OpenAt(t)'
      BY <1>0, <2>1, <2>2, <2>4, <3>1, <3>3 DEF OpenAt, All
    <3>6. ForkPlace(t)'
      BY <3>4, <3>5 DEF ForkPlace
    <3> QED
      BY <2>1, <2>2, <2>4, <3>1, <3>3, <3>6
  <2> QED
    BY <2>1, <2>3, <2>4
<1>3. CASE WindowThreadRuns
  <2>1. window \notin {"none", "done"} /\ UNCHANGED Specs
    BY <1>3 DEF WindowThreadRuns, WindowRuns, WindowStarts, WindowSignals, PeriodBegins,
       InitPeriod, InitReturns, WaitEnds, StartPeriod, StartReturns, CollectEnds,
       StopPeriod, StopReturns, WindowStep, LeaveSpec
  <2> QED
    BY <1>0, <2>1 DEF SpecIInv
<1>4. ASSUME ThreadForks(t) \/ ForkHandlersRun(t)
      PROVE  /\ \A a \in Actors : a # t => Swept(a)'
             /\ main' = "active" /\ ~UseSampling => samples'
             /\ ForkPlace(t)'
  <2>1. process = "root" /\ UNCHANGED main /\ UNCHANGED Specs
    BY <1>0, <1>4, SameProcess DEF ThreadForks, ForkHandlersRun, windowVars
  <2>2. state = "Active"
    <3>1. CASE ThreadForks(t)
      BY <3>1 DEF ThreadForks, CallFork, catVars
    <3>2. CASE ForkHandlersRun(t)
      BY <3>2, HandlerSteps
    <3> QED
      BY <1>4, <3>1, <3>2
  <2>3. /\ \A a \in Actors : a # t => Swept(a)
        /\ main = "active" /\ ~UseSampling => samples
        /\ ForkPlace(t)
    BY <2>1, <2>2 DEF ForkIInv
  <2>4. \A a \in Actors : a # t => Swept(a)'
    BY <1>0, <1>4, <2>3, HandlerFrame DEF Swept
  <2>5. UseSampling \/ samples' = samples
    <3>1. ASSUME NEW l \in Layers, Prefork(t, l) \/ PostforkParent(t, l)
                                      \/ PostforkChild(t, l)
          PROVE  UseSampling \/ samples' = samples
      BY <3>1, ForkersAssumption DEF Prefork, PreforkTest, PreforkBody, PreforkLocks,
         PreforkUnlocksParent, PreforkUnlocksChild, PostforkParent, PostforkParentTest,
         PostforkParentBody, PostforkParentLocks, PostforkParentUnlocks, PostforkChild,
         PostforkChildTest, PostforkChildBody, PostforkChildLocks,
         PostforkChildUnlocks, catVars
    <3>2. CASE ThreadForks(t) \/ ForkInParent(t)
      BY <3>2 DEF ThreadForks, CallFork, ForkInParent, catVars
    <3> QED
      BY <1>4, <3>1, <3>2 DEF ForkHandlersRun, ForkRuns
  <2>6. CASE ThreadForks(t)
    <3>1. /\ ForkStep(t, <<"idle">>, <<"pre", "gotcha">>)
          /\ UNCHANGED <<enabled, sweep, samples, prefork_lock>>
      BY <2>6 DEF ThreadForks, CallFork, catVars, lockVars
    <3>2. fork[t] = <<"idle">>
      BY <3>1 DEF ForkStep
    <3>3. Stage(t) = "idle" /\ Stage(t)' = "pre" /\ Layer(t)' = "gotcha"
      BY <1>0, <3>1, <3>2, StepMoves DEF Stage
    <3>4. OpenAt(t)'
      BY <2>1, <2>3, <3>1, <3>3 DEF ForkPlace, OpenAt, Swept, All
    <3> QED
      BY <2>1, <2>3, <2>4, <2>5, <3>3, <3>4 DEF ForkPlace
  <2>7. ASSUME NEW l \in Layers, PostforkChild(t, l) PROVE FALSE
    BY <1>0, <2>1, <2>7, StepPlace DEF ChildIInv, ChildStages, PostforkChild,
       PostforkChildTest, PostforkChildBody, PostforkChildLocks, PostforkChildUnlocks
  <2>8. CASE ForkInParent(t)
    <3>1. /\ fork[t] = <<"fork">> /\ fork'[t] = <<"post", "atfork">>
          /\ UNCHANGED <<enabled, sweep, samples, prefork_lock, postfork_parent_lock>>
      BY <1>0, <2>8 DEF ForkInParent, ControlTypeOK, ForkTypeOK, catVars, lockVars
    <3>2. Stage(t) = "fork" /\ Stage(t)' = "post" /\ Layer(t)' = "atfork"
      BY <3>1 DEF Stage, Layer
    <3>3. ShutAt(t)'
      BY <2>3, <3>1, <3>2 DEF ForkPlace, ShutAt, Swept
    <3>4. ForkPlace(t)'
      BY <3>2, <3>3 DEF ForkPlace
    <3> QED
      BY <2>1, <2>3, <2>4, <2>5, <3>4
  <2>9. ASSUME NEW l \in Layers, Prefork(t, l) \/ PostforkParent(t, l)
        PROVE  ForkPlace(t)'
    BY <1>0, <2>1, <2>3, <2>9, PreforkShuts, PostforkOpens
  <2> QED
    BY <1>4, <2>1, <2>3, <2>4, <2>5, <2>6, <2>7, <2>8, <2>9
       DEF ForkHandlersRun, ForkRuns
<1>5. ~ChildAppears(t)
  BY DEF ChildAppears, ForkInChild
<1> QED
  BY <1>1, <1>2, <1>3, <1>4, <1>5, Movers DEF ForkMoves

\* With no such thread nothing forks.
OneForkIInv ==
    /\ ControlIInv
    /\ forked => Forkers # {}
    /\ \A t \in Forkers : ForkIInv(t)

LEMMA AlwaysOneForkIInv ==
  ASSUME \A t, u \in Forkers : t = u
  PROVE  ControlSpec => []OneForkIInv
<1>1. ControlInit => OneForkIInv
  <2> SUFFICES ASSUME ControlInit PROVE OneForkIInv
    OBVIOUS
  <2>1. ~forked /\ \A t \in Forkers : ForkIInv(t)
    BY DEF ControlInit, WindowInit, CategoriesInit, ForkIInv
  <2> QED
    BY <2>1, InitIInv DEF OneForkIInv
<1>2. ASSUME OneForkIInv, ControlNext PROVE OneForkIInv'
  <2>1. ControlIInv'
    BY <1>2, NextIInv DEF OneForkIInv
  <2>2. \A t \in Forkers : ForkIInv(t)'
    BY <1>2, ForkKept DEF OneForkIInv
  <2>3. ASSUME forked', Forkers = {} PROVE FALSE
    BY <1>2, <2>3, Movers DEF OneForkIInv, ActorSetsFlag, MainRuns, WindowThreadRuns
  <2> QED
    BY <2>1, <2>2, <2>3 DEF OneForkIInv
<1>3. ASSUME OneForkIInv, UNCHANGED controlVars PROVE OneForkIInv'
  <2>1. ControlIInv'
    BY <1>3, NextIInv DEF OneForkIInv
  <2>2. /\ UNCHANGED <<state, enabled, sweep, samples>>
        /\ UNCHANGED <<Specs, main, process, fork, forked>>
        /\ UNCHANGED <<prefork_lock, postfork_parent_lock, postfork_child_lock>>
    BY <1>3 DEF controlVars, catVars, windowVars, forkVars, lockVars
  <2>3. ASSUME NEW t \in Forkers PROVE ForkIInv(t)'
    <3>1. /\ \A a \in Actors : Swept(a)' <=> Swept(a)
          /\ Swept(t)' <=> Swept(t)
          /\ Progress(t)' <=> Progress(t)
          /\ Stage(t)' = Stage(t) /\ Layer(t)' = Layer(t)
      BY <2>2 DEF Swept, Progress, Stage, Layer
    <3>2. ForkPlace(t)' <=> ForkPlace(t)
      BY <2>2, <3>1 DEF ForkPlace, OpenAt, ShutAt, All
    <3> QED
      BY <1>3, <2>2, <3>1, <3>2 DEF OneForkIInv, ForkIInv
  <2> QED
    BY <1>3, <2>1, <2>2, <2>3 DEF OneForkIInv
<1> QED
  BY <1>1, <1>2, <1>3, PTL DEF ControlSpec

\* prefork_setup: where a single thread forks, fork() itself is called when every flag
\* is cleared and the call-stack sampler is blocked, however often it forks and
\* wherever the finalization has come to.
THEOREM ForkIsQuiet ==
  ASSUME \A t, u \in Forkers : t = u
  PROVE  ControlSpec => []ForkSeesNothingEnabled
<1>1. OneForkIInv => ForkSeesNothingEnabled
  <2> SUFFICES ASSUME OneForkIInv, NEW t \in Forkers, state = "Active", Specs = <<>>,
                      fork[t] = <<"fork">>
               PROVE  enabled = {} /\ (UseSampling => ~samples)
    BY DEF ForkSeesNothingEnabled
  <2>1. Stage(t) = "fork" /\ fork[t] # <<"child", "atfork">>
    BY DEF Stage
  <2>2. process = "root"
    BY <2>1 DEF OneForkIInv, ControlIInv, ControlTypeOK, ForkTypeOK, ChildIInv, ChildAt
  <2> QED
    BY <2>1, <2>2 DEF OneForkIInv, ForkIInv, ForkPlace, ShutAt
<1> QED
  BY <1>1, AlwaysOneForkIInv, PTL

\* postfork_parent: where a single thread forks, a process that was collecting
\* collects again when fork() has returned, the call-stack sampler included.
THEOREM CollectionResumes ==
  ASSUME \A t, u \in Forkers : t = u
  PROVE  ControlSpec => []ForksLeaveCollectionOn
<1>1. OneForkIInv => ForksLeaveCollectionOn
  <2> SUFFICES ASSUME OneForkIInv, process = "root", state = "Active", NobodyForks,
                      Specs = <<>>
               PROVE  enabled = All /\ (main = "active" => samples)
    BY DEF ForksLeaveCollectionOn
  <2>1. ASSUME NEW t \in Forkers PROVE enabled = All /\ (main = "active" => samples)
    <3>1. fork[t] = <<"idle">>
      BY DEF NobodyForks
    <3>2. Stage(t) = "idle"
      BY <3>1 DEF Stage
    <3> QED
      BY <3>2 DEF OneForkIInv, ForkIInv, ForkPlace, OpenAt
  <2>2. CASE Forkers = {}
    <3>1. ~forked
      BY <2>2 DEF OneForkIInv
    <3>2. window = "none" /\ StateIInv /\ WindowIInv
      BY DEF OneForkIInv, ControlIInv, SpecIInv
    <3> QED
      BY <3>1, <3>2 DEF StateIInv, WindowIInv
  <2> QED
    BY <2>1, <2>2
<1> QED
  BY <1>1, AlwaysOneForkIInv, PTL
=============================================================================
