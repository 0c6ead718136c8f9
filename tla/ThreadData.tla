------------------------------ MODULE ThreadData ------------------------------
(***************************************************************************)
(* The storage of per-thread data (thread_data.hpp) and its growth when    *)
(* more threads start than it has room for (thread_info.cpp, grow_data).   *)
(*                                                                         *)
(* A thread is its index (utility::get_thread_index).  On its first call   *)
(* it makes every registered container large enough, under a lock it only  *)
(* takes when the index is at least peak_num_threads, and then fills in    *)
(* its own thread_info.  Containers are constructed by the first thread    *)
(* that asks for them.                                                     *)
(***************************************************************************)
EXTENDS StableVector, FiniteSets

CONSTANTS Containers,   \* the instantiations of thread_data
          Info,         \* the one that holds thread_info
          MaxIndex      \* bound: the last thread's index

ASSUME ContainersAssumption == Info \in Containers /\ MaxIndex \in Nat

VARIABLES
    data,       \* each container's stable_vector, <<>> before its construction
    peak,       \* peak_num_threads
    lock,       \* the thread that holds type_mutex<data_growth>, or -1
    todo,       \* the containers whose functors it has still to call
    stage,      \* where each thread is
    late        \* history: containers constructed since the first growth began

vars == <<data, peak, lock, todo, stage, late>>

Threads == 0 .. MaxIndex
Stages == {"none", "test", "lock", "grow", "init", "running", "thrown"}

DataTypeOK ==
    /\ data \in [Containers -> Seq(0 .. ChunkSize)]
    /\ todo \subseteq Containers
    /\ peak \in Nat /\ lock \in Threads \cup {-1}
    /\ stage \in [Threads -> Stages]
    /\ \A t \in Threads : stage[t] = "grow" <=> lock = t
    /\ late \subseteq Containers

Init ==
    /\ data = [c \in Containers |-> IF c = Info THEN <<ChunkSize>> ELSE <<>>]
    /\ peak = ChunkSize /\ lock = -1 /\ todo = {}
    /\ stage = [t \in Threads |-> "none"]
    /\ late = {}

\* grow_functors(): a container is in it from its construction on.
Registered == {c \in Containers : data[c] # <<>>}

Moves(t, from, to) == stage[t] = from /\ stage' = [stage EXCEPT ![t] = to]

\* Indices are given in order.  Bound: a thread begins when the one ChunkSize
\* before it has done its growth.
ThreadArrives(t) ==
    /\ t > 0 => stage[t - 1] # "none"
    /\ t >= ChunkSize => stage[t - ChunkSize] \notin {"none", "test", "lock", "grow"}
    /\ Moves(t, "none", "test")
    /\ UNCHANGED <<data, peak, lock, todo, late>>

TestsPeak(t) ==
    /\ Moves(t, "test", IF t >= peak THEN "lock" ELSE "init")
    /\ UNCHANGED <<data, peak, lock, todo, late>>

\* A wrong form of LocksGrowth: the peak is not tested again under the lock.
LocksWithoutTest(t) ==
    /\ lock = -1
    /\ Moves(t, "lock", "grow") /\ lock' = t /\ todo' = Registered
    /\ UNCHANGED <<data, peak, late>>

LocksGrowth(t) ==
    /\ lock = -1
    /\ IF t >= peak
       THEN Moves(t, "lock", "grow") /\ lock' = t /\ todo' = Registered
       ELSE Moves(t, "lock", "init") /\ UNCHANGED <<lock, todo>>
    /\ UNCHANGED <<data, peak, late>>

\* A wrong form of Grown: room for one thread less than asked for.
GrownShort(v, n) ==
    IF Capacity(v) < n - 1 THEN Resize(Reserve(v, Capacity(v) + 1), Capacity(v) + ChunkSize)
    ELSE v

\* The functor of base_thread_data, called with the index plus one.
Grown(v, n) ==
    IF Capacity(v) < n + 1 THEN Resize(Reserve(v, Capacity(v) + 1), Capacity(v) + ChunkSize)
    ELSE v

\* A wrong form of CallsFunctor: the loop does not advance.
CallsFunctorAgain(t) ==
    /\ lock = t
    /\ \E c \in todo : data' = [data EXCEPT ![c] = Grown(@, t + 1)]
    /\ UNCHANGED <<peak, lock, todo, stage, late>>

CallsFunctor(t) ==
    /\ lock = t
    /\ \E c \in todo : /\ data' = [data EXCEPT ![c] = Grown(@, t + 1)]
                       /\ todo' = todo \ {c}
    /\ UNCHANGED <<peak, lock, stage, late>>

EndsGrowth(t) ==
    /\ lock = t /\ todo = {}
    /\ peak' = peak + ChunkSize /\ lock' = -1
    /\ Moves(t, "grow", "init")
    /\ UNCHANGED <<data, todo, late>>

\* thread_info::init: at() throws out_of_range.
FillsInfo(t) ==
    /\ Moves(t, "init", IF InBounds(data[Info], t) THEN "running" ELSE "thrown")
    /\ UNCHANGED <<data, peak, lock, todo, late>>

\* The first use of a container registers its functor and gives it one chunk,
\* whatever the peak is.
Constructs(t, c) ==
    /\ stage[t] = "running" /\ data[c] = <<>>
    /\ data' = [data EXCEPT ![c] = Resize(<<>>, ChunkSize)]
    /\ late' = IF peak = ChunkSize /\ lock = -1 THEN late ELSE late \cup {c}
    /\ UNCHANGED <<peak, lock, todo, stage>>

\* at() of a container that has no room for the thread.
UseThrows(t, c) ==
    /\ data[c] # <<>> /\ ~InBounds(data[c], t)
    /\ Moves(t, "running", "thrown")
    /\ UNCHANGED <<data, peak, lock, todo, late>>

Next ==
    \E t \in Threads :
      \/ ThreadArrives(t) \/ TestsPeak(t) \/ LocksGrowth(t) \/ CallsFunctor(t)
      \/ EndsGrowth(t) \/ FillsInfo(t)
      \/ \E c \in Containers : Constructs(t, c) \/ UseThrows(t, c)

Spec == Init /\ [][Next]_vars
        /\ \A t \in Threads : WF_vars(LocksGrowth(t) \/ CallsFunctor(t) \/ EndsGrowth(t))

-----------------------------------------------------------------------------
(* Properties *)

\* A container that was there before the first growth has an element for every
\* thread that is past its growth, however the growths of threads overlap.
GrownContainersHoldThreads ==
    \A t \in Threads, c \in Containers \ late :
      stage[t] \in {"init", "running"} /\ data[c] # <<>> => InBounds(data[c], t)

\* Outside a growth these containers have exactly peak_num_threads elements, the
\* bound the loops over all threads use (sampling.cpp:1145, tracing.cpp:98).
PeakIsTheSize ==
    lock = -1 =>
      \A c \in Containers \ late : data[c] # <<>> => Size(data[c]) = peak

\* size() never counts an element that was not constructed: reserve is only
\* called when the last chunk is full.
ElementsAreConstructed ==
    \A c \in Containers : \A i \in 1 .. Len(data[c]) - 1 : data[c][i] = ChunkSize

\* A thread that waits for the growth gets past it.
GrowthEnds == \A t \in Threads : stage[t] = "lock" ~> stage[t] \notin {"lock", "grow"}

\* thread_info.cpp:104-105: containers query the peak when they are instantiated,
\* "ensuring late-instantiated containers are properly sized".
LateContainersHoldThreads ==
    \A t \in Threads, c \in Containers :
      stage[t] = "running" /\ data[c] # <<>> => InBounds(data[c], t)
=============================================================================
