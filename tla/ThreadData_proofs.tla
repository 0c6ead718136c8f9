--------------------------- MODULE ThreadData_proofs ---------------------------
(***************************************************************************)
(* Proofs about ThreadData, for every chunk size, every number of threads  *)
(* and every set of containers.                                            *)
(***************************************************************************)
EXTENDS ThreadData, TLAPS, WellFoundedInduction

Vectors == Seq(0 .. ChunkSize)
Full(v) == \A i \in 1 .. Len(v) : v[i] = ChunkSize

\* A full vector's size is its capacity.
LEMMA FullSize ==
    ASSUME NEW v \in Vectors, v # <<>>, Full(v)
    PROVE  Size(v) = Capacity(v) /\ Capacity(v) \in Nat
  <1>1. Len(v) \in Nat \ {0}
    BY DEF Vectors
  <1>2. v[Len(v)] = ChunkSize
    BY <1>1 DEF Full
  <1>3. (Len(v) - 1) * ChunkSize + ChunkSize = Len(v) * ChunkSize
    BY <1>1, ChunkAssumption
  <1>4. Len(v) * ChunkSize \in Nat
    BY <1>1, ChunkAssumption
  <1> QED BY <1>2, <1>3, <1>4 DEF Size, Capacity

\* Reserving one element more than the capacity adds one empty chunk.
LEMMA ReserveOne ==
    ASSUME NEW v \in Vectors
    PROVE  Reserve(v, Capacity(v) + 1) = Append(v, 0)
  <1>1. Capacity(v) \in Nat
    BY ChunkAssumption DEF Capacity, Vectors
  <1>2. (Capacity(v) + 1) - Capacity(v) + ChunkSize - 1 = ChunkSize
    BY <1>1, ChunkAssumption
  <1>3. ChunkSize \div ChunkSize = 1
    BY ChunkAssumption
  <1>4. Reserve(v, Capacity(v) + 1) = v \o [i \in 1 .. 1 |-> 0]
    BY <1>1, <1>2, <1>3 DEF Reserve
  <1>5. v \o [i \in 1 .. 1 |-> 0] = Append(v, 0)
    BY DEF Vectors
  <1> QED BY <1>4, <1>5

\* The functor leaves a full vector as it is or adds a full chunk to it.
LEMMA GrownFull ==
    ASSUME NEW v \in Vectors, v # <<>>, Full(v), NEW n \in Nat
    PROVE  /\ Grown(v, n) = IF Capacity(v) < n + 1 THEN Append(v, ChunkSize) ELSE v
           /\ Grown(v, n) \in Vectors /\ Grown(v, n) # <<>> /\ Full(Grown(v, n))
  <1> DEFINE w == Append(v, 0)
             m == Capacity(v) + ChunkSize
  <1>1. /\ Capacity(v) \in Nat /\ Len(v) \in Nat \ {0}
        /\ ChunkSize \in Nat \ {0}
    BY FullSize, ChunkAssumption DEF Vectors
  <1>2. w \in Vectors /\ Len(w) = Len(v) + 1 /\ w[Len(w)] = 0
    BY <1>1 DEF Vectors
  <1>3. Capacity(w) = m
    BY <1>1, <1>2 DEF Capacity
  <1>4. Size(w) = Capacity(v)
    <2>1. w # <<>>
      BY <1>1, <1>2
    <2>2. (Len(w) - 1) * ChunkSize + w[Len(w)] = Capacity(v)
      BY <1>1, <1>2 DEF Capacity
    <2> QED BY <2>1, <2>2 DEF Size
  <1>5. Reserve(w, m) = w
    <2>1. ~(m > Capacity(w))
      BY <1>1, <1>3
    <2>2. Reserve(w, m) = w \o [i \in 1 .. 0 |-> 0]
      BY <2>1 DEF Reserve
    <2> QED BY <2>2, <1>2 DEF Vectors
  <1>6. Resize(w, m) = Append(v, ChunkSize)
    <2>1. Size(w) < m /\ m - Size(w) = ChunkSize
      BY <1>1, <1>4
    <2>2. Resize(w, m) = [w EXCEPT ![Len(w)] = @ + (m - Size(w))]
      BY <1>5, <2>1 DEF Resize
    <2>3. [w EXCEPT ![Len(w)] = @ + (m - Size(w))] = [w EXCEPT ![Len(w)] = ChunkSize]
      BY <1>1, <1>2, <2>1
    <2>4. [w EXCEPT ![Len(w)] = ChunkSize] = Append(v, ChunkSize)
      <3> DEFINE x == [w EXCEPT ![Len(w)] = ChunkSize]
                 y == Append(v, ChunkSize)
      <3>1. x \in Vectors /\ Len(x) = Len(v) + 1
        BY <1>1, <1>2 DEF Vectors
      <3>2. y \in Vectors /\ Len(y) = Len(v) + 1
        BY <1>1 DEF Vectors
      <3>3. ASSUME NEW i \in 1 .. Len(v) + 1
            PROVE  x[i] = y[i]
        <4>1. CASE i = Len(v) + 1
          BY <1>1, <1>2, <4>1 DEF Vectors
        <4>2. CASE i \in 1 .. Len(v)
          <5>1. w[i] = v[i] /\ y[i] = v[i]
            BY <4>2
          <5>2. i # Len(w) /\ i \in DOMAIN w
            BY <1>1, <1>2, <4>2
          <5>3. x[i] = w[i]
            BY <5>2
          <5> QED BY <5>1, <5>3
        <4> QED BY <1>1, <4>1, <4>2
      <3> HIDE DEF x, y
      <3>4. x = y
        BY <1>1, <3>1, <3>2, <3>3 DEF Vectors
      <3> QED BY <3>4 DEF x, y
    <2> QED BY <2>2, <2>3, <2>4
  <1>7. Grown(v, n) = IF Capacity(v) < n + 1 THEN Append(v, ChunkSize) ELSE v
    BY <1>6, ReserveOne DEF Grown
  <1>8. /\ Append(v, ChunkSize) \in Vectors /\ Append(v, ChunkSize) # <<>>
        /\ Full(Append(v, ChunkSize))
    BY <1>1 DEF Vectors, Full
  <1> QED BY <1>7, <1>8

\* The chunk that is added makes the vector larger by its capacity.
LEMMA AppendCapacity ==
    ASSUME NEW v \in Vectors
    PROVE  Capacity(Append(v, ChunkSize)) = Capacity(v) + ChunkSize
  BY ChunkAssumption DEF Capacity, Vectors

\* A new container has one full chunk.
LEMMA NewVector ==
    /\ Resize(<<>>, ChunkSize) = <<ChunkSize>>
    /\ <<ChunkSize>> \in Vectors /\ <<ChunkSize>> # <<>> /\ Full(<<ChunkSize>>)
    /\ Capacity(<<ChunkSize>>) = ChunkSize
  <1>1. ChunkSize \in Nat \ {0}
    BY ChunkAssumption
  <1>2. Capacity(<<>>) = 0
    BY <1>1 DEF Capacity
  <1>3. (ChunkSize - 0 + ChunkSize - 1) \div ChunkSize = 1
    <2>1. ChunkSize - 0 + ChunkSize - 1 = 1 * ChunkSize + (ChunkSize - 1)
      BY <1>1
    <2> QED BY <2>1, <1>1
  <1>4. Reserve(<<>>, ChunkSize) = <<0>>
    BY <1>1, <1>2, <1>3 DEF Reserve
  <1>5. Size(<<0>>) = 0
    BY <1>1 DEF Size
  <1>6. Resize(<<>>, ChunkSize) = <<ChunkSize>>
    BY <1>1, <1>4, <1>5 DEF Resize
  <1> QED BY <1>1, <1>6 DEF Vectors, Full, Capacity

-----------------------------------------------------------------------------
(* The inductive invariant *)

Past(t) == stage[t] \notin {"none", "test", "lock", "grow"}

\* What a container that took part in every growth holds: the peak, and one chunk
\* more when the growth under way has already called its functor.
Holds(c) == IF lock # -1 /\ c \notin todo THEN peak + ChunkSize ELSE peak

VectorsIInv ==
    /\ data[Info] # <<>> /\ Info \notin late
    /\ \A c \in Containers : data[c] # <<>> => Full(data[c])
    /\ \A c \in Containers \ late : data[c] # <<>> => Capacity(data[c]) = Holds(c)

GrowthIInv ==
    /\ todo \subseteq Registered /\ (lock = -1 => todo = {})
    /\ lock # -1 => lock >= peak

ThreadsIInv ==
    \A t \in Threads :
      /\ Past(t) => t < peak
      /\ stage[t] # "none" /\ t >= ChunkSize => Past(t - ChunkSize)

DataIInv == DataTypeOK /\ VectorsIInv /\ GrowthIInv /\ ThreadsIInv

LEMMA InitIInv == Init => DataIInv
  <1> SUFFICES ASSUME Init PROVE DataIInv
    OBVIOUS
  <1> USE ChunkAssumption, ContainersAssumption, NewVector
  <1>1. DataTypeOK
    <2>1. data \in [Containers -> Vectors]
      <3>1. <<>> \in Vectors /\ <<ChunkSize>> \in Vectors
        BY DEF Vectors
      <3> QED BY <3>1 DEF Init
    <2>2. stage \in [Threads -> Stages]
      BY DEF Init, Stages
    <2>3. \A t \in Threads : stage[t] = "grow" <=> lock = t
      BY DEF Init, Threads
    <2> QED BY <2>1, <2>2, <2>3 DEF Init, DataTypeOK, Vectors
  <1>2. VectorsIInv
    BY DEF Init, VectorsIInv, Holds
  <1>3. GrowthIInv /\ ThreadsIInv
    BY DEF Init, GrowthIInv, ThreadsIInv, Past, Threads
  <1> QED BY <1>1, <1>2, <1>3 DEF DataIInv

\* A step that leaves the storage alone keeps what is said of it.
LEMMA StorageKept ==
    ASSUME DataIInv, UNCHANGED <<data, peak, lock, todo, late>>
    PROVE  VectorsIInv' /\ GrowthIInv'
  BY DEF DataIInv, VectorsIInv, GrowthIInv, Holds, Registered

\* A thread that moves on past its growth is below the peak.
LEMMA ThreadMoves ==
    ASSUME DataIInv, NEW t \in Threads, NEW to \in Stages, UNCHANGED peak,
           stage' = [stage EXCEPT ![t] = to], stage[t] # "none", to # "none",
           Past(t) => to \notin {"test", "lock", "grow"},
           to \notin {"test", "lock", "grow"} => t < peak
    PROVE  ThreadsIInv'
  <1> SUFFICES ASSUME NEW u \in Threads
               PROVE  /\ Past(u)' => u < peak'
                      /\ stage'[u] # "none" /\ u >= ChunkSize => Past(u - ChunkSize)'
    BY DEF ThreadsIInv
  <1> USE ChunkAssumption, ContainersAssumption
  <1>1. stage \in [Threads -> Stages] /\ ThreadsIInv
    BY DEF DataIInv, DataTypeOK
  <1>2. Past(u)' => u < peak'
    BY <1>1 DEF ThreadsIInv, Past, Stages
  <1>3. stage'[u] # "none" /\ u >= ChunkSize => Past(u - ChunkSize)'
    <2> SUFFICES ASSUME stage'[u] # "none", u >= ChunkSize
                 PROVE  Past(u - ChunkSize)'
      OBVIOUS
    <2>1. u - ChunkSize \in Threads
      BY DEF Threads
    <2>2. Past(u - ChunkSize)
      BY <1>1 DEF ThreadsIInv
    <2> QED BY <1>1, <2>1, <2>2 DEF Past
  <1> QED BY <1>2, <1>3

-----------------------------------------------------------------------------
(* The steps *)

\* A thread that does not touch the storage.
LEMMA ThreadSteps ==
    ASSUME DataIInv, NEW t \in Threads, NEW to \in Stages,
           UNCHANGED <<data, peak, lock, todo, late>>,
           stage' = [stage EXCEPT ![t] = to], stage[t] \notin {"none", "grow"},
           to \notin {"none", "grow"}, Past(t) => to \notin {"test", "lock"},
           to \notin {"test", "lock"} => t < peak
    PROVE  DataIInv'
  <1>1. DataTypeOK'
    BY DEF DataIInv, DataTypeOK
  <1>2. VectorsIInv' /\ GrowthIInv'
    BY StorageKept
  <1>3. ThreadsIInv'
    BY ThreadMoves
  <1> QED BY <1>1, <1>2, <1>3 DEF DataIInv

LEMMA Arrives ==
    ASSUME DataIInv, NEW t \in Threads, ThreadArrives(t) PROVE DataIInv'
  <1> USE ChunkAssumption, ContainersAssumption
  <1>1. /\ stage \in [Threads -> Stages] /\ ThreadsIInv /\ peak \in Nat
        /\ stage[t] = "none" /\ stage' = [stage EXCEPT ![t] = "test"]
        /\ UNCHANGED <<data, peak, lock, todo, late>>
    BY DEF DataIInv, DataTypeOK, ThreadArrives, Moves
  <1>2. DataTypeOK'
    BY <1>1 DEF DataIInv, DataTypeOK, Stages
  <1>3. VectorsIInv' /\ GrowthIInv'
    BY <1>1, StorageKept
  <1>4. ASSUME NEW u \in Threads
        PROVE  /\ Past(u)' => u < peak'
               /\ stage'[u] # "none" /\ u >= ChunkSize => Past(u - ChunkSize)'
    <2>1. Past(u)' => u < peak'
      BY <1>1 DEF ThreadsIInv, Past
    <2>2. u >= ChunkSize => u - ChunkSize \in Threads
      BY DEF Threads
    <2>3. stage'[u] # "none" /\ u >= ChunkSize => Past(u - ChunkSize)
      BY <1>1 DEF ThreadsIInv, Past, ThreadArrives
    <2>4. u >= ChunkSize /\ Past(u - ChunkSize) => Past(u - ChunkSize)'
      BY <1>1, <2>2 DEF Past
    <2> QED BY <2>1, <2>3, <2>4
  <1>5. ThreadsIInv'
    BY <1>4 DEF ThreadsIInv
  <1> QED BY <1>2, <1>3, <1>5 DEF DataIInv

LEMMA Tests ==
    ASSUME DataIInv, NEW t \in Threads, TestsPeak(t) PROVE DataIInv'
  <1>1. t \in Int /\ peak \in Nat
    BY DEF DataIInv, DataTypeOK, Threads
  <1> DEFINE to == IF t >= peak THEN "lock" ELSE "init"
  <1>2. /\ stage[t] = "test" /\ stage' = [stage EXCEPT ![t] = to]
        /\ UNCHANGED <<data, peak, lock, todo, late>> /\ ~Past(t)
    BY DEF TestsPeak, Moves, Past
  <1>3. to \in Stages /\ to \notin {"none", "grow"} /\ (to # "lock" => t < peak)
    BY <1>1 DEF Stages
  <1> HIDE DEF to
  <1> QED BY <1>2, <1>3, ThreadSteps

LEMMA Fills ==
    ASSUME DataIInv, NEW t \in Threads, FillsInfo(t) PROVE DataIInv'
  <1>1. t < peak
    BY DEF DataIInv, ThreadsIInv, Past, FillsInfo, Moves
  <1>2. CASE InBounds(data[Info], t)
    BY <1>1, <1>2, ThreadSteps DEF FillsInfo, Moves, Stages, Past
  <1>3. CASE ~InBounds(data[Info], t)
    BY <1>1, <1>3, ThreadSteps DEF FillsInfo, Moves, Stages, Past
  <1> QED BY <1>2, <1>3

LEMMA Throws ==
    ASSUME DataIInv, NEW t \in Threads, NEW c \in Containers, UseThrows(t, c)
    PROVE  DataIInv'
  <1>1. t < peak
    BY DEF DataIInv, ThreadsIInv, Past, UseThrows, Moves
  <1> QED BY <1>1, ThreadSteps DEF UseThrows, Moves, Stages, Past

LEMMA Locks ==
    ASSUME DataIInv, NEW t \in Threads, LocksGrowth(t) PROVE DataIInv'
  <1> USE ContainersAssumption
  <1>1. /\ t \in Int /\ t # -1 /\ peak \in Nat /\ lock = -1 /\ stage[t] = "lock"
        /\ UNCHANGED <<data, peak, late>>
    BY DEF DataIInv, DataTypeOK, LocksGrowth, Threads, Moves
  <1>2. CASE t >= peak
    <2>1. stage' = [stage EXCEPT ![t] = "grow"] /\ lock' = t /\ todo' = Registered
      BY <1>2 DEF LocksGrowth, Moves
    <2>2. DataTypeOK'
      <3>1. \A u \in Threads : stage[u] # "grow"
        BY <1>1 DEF DataIInv, DataTypeOK, Threads
      <3>2. \A u \in Threads : stage'[u] = "grow" <=> lock' = u
        BY <2>1, <3>1 DEF DataIInv, DataTypeOK
      <3>3. stage' \in [Threads -> Stages] /\ todo' \subseteq Containers
        BY <2>1 DEF DataIInv, DataTypeOK, Stages, Registered
      <3> QED BY <1>1, <2>1, <3>2, <3>3 DEF DataIInv, DataTypeOK
    <2>3. VectorsIInv'
      <3>1. \A c \in Containers : data[c] # <<>> => Holds(c)' = Holds(c)
        BY <1>1, <2>1 DEF Holds, Registered
      <3> QED BY <1>1, <3>1 DEF DataIInv, VectorsIInv
    <2>4. GrowthIInv'
      BY <1>1, <1>2, <2>1 DEF GrowthIInv, Registered
    <2>5. ThreadsIInv'
      BY <1>1, <2>1, ThreadMoves DEF Stages, Past
    <2> QED BY <2>2, <2>3, <2>4, <2>5 DEF DataIInv
  <1>3. CASE ~(t >= peak)
    BY <1>1, <1>3, ThreadSteps DEF LocksGrowth, Moves, Stages, Past
  <1> QED BY <1>2, <1>3

LEMMA Calls ==
    ASSUME DataIInv, NEW t \in Threads, CallsFunctor(t) PROVE DataIInv'
  <1> USE ContainersAssumption, ChunkAssumption
  <1>1. PICK c \in todo : /\ data' = [data EXCEPT ![c] = Grown(@, t + 1)]
                          /\ todo' = todo \ {c}
    BY DEF CallsFunctor
  <1>2. /\ lock = t /\ t \in Nat /\ lock # -1 /\ t >= peak /\ peak \in Nat
        /\ UNCHANGED <<peak, lock, stage, late>>
    BY DEF DataIInv, DataTypeOK, GrowthIInv, CallsFunctor, Threads
  <1>3. /\ data \in [Containers -> Vectors] /\ c \in Containers
        /\ data[c] \in Vectors /\ data[c] # <<>> /\ Full(data[c])
    BY DEF DataIInv, DataTypeOK, GrowthIInv, VectorsIInv, Registered, Vectors
  <1> DEFINE g == Grown(data[c], t + 1)
  <1>4. /\ g = IF Capacity(data[c]) < t + 1 + 1 THEN Append(data[c], ChunkSize) ELSE data[c]
        /\ g \in Vectors /\ g # <<>> /\ Full(g)
    <2>1. t + 1 \in Nat
      BY <1>2
    <2> QED BY ONLY <1>3, <2>1, GrownFull, Zenon
  <1> HIDE DEF g
  <1>5. data' = [data EXCEPT ![c] = g]
    BY <1>1, <1>3 DEF g
  <1>6. data' \in [Containers -> Vectors]
    BY <1>3, <1>4, <1>5
  <1>7. DataTypeOK'
    BY <1>1, <1>2, <1>6 DEF DataIInv, DataTypeOK, Vectors
  <1>8. VectorsIInv'
    <2>1. data'[Info] # <<>> /\ Info \notin late'
      BY <1>2, <1>3, <1>4, <1>5 DEF DataIInv, VectorsIInv
    <2>2. \A e \in Containers : data'[e] # <<>> => Full(data'[e])
      BY <1>3, <1>4, <1>5 DEF DataIInv, VectorsIInv
    <2>3. ASSUME NEW e \in Containers \ late, data'[e] # <<>>
          PROVE  Capacity(data'[e]) = Holds(e)'
      <3>1. CASE e = c
        <4>1. Capacity(data[c]) = peak
          BY <1>2, <1>3, <3>1 DEF DataIInv, VectorsIInv, Holds
        <4>2. g = Append(data[c], ChunkSize)
          BY <1>2, <1>4, <4>1
        <4>3. Capacity(g) = peak + ChunkSize
          BY <1>3, <4>1, <4>2, AppendCapacity
        <4>4. Holds(c)' = peak + ChunkSize
          BY <1>1, <1>2 DEF Holds
        <4> QED BY <1>3, <1>5, <3>1, <4>3, <4>4
      <3>2. CASE e # c
        <4>1. data'[e] = data[e] /\ Holds(e)' = Holds(e)
          BY <1>1, <1>2, <1>3, <1>5, <3>2 DEF Holds
        <4> QED BY <2>3, <4>1 DEF DataIInv, VectorsIInv
      <3> QED BY <3>1, <3>2
    <2> QED BY <1>2, <2>1, <2>2, <2>3 DEF VectorsIInv
  <1>9. GrowthIInv'
    <2>1. \A e \in Containers : data[e] # <<>> => data'[e] # <<>>
      BY <1>3, <1>4, <1>5
    <2> QED BY <1>1, <1>2, <2>1 DEF DataIInv, DataTypeOK, GrowthIInv, Registered
  <1>10. ThreadsIInv'
    BY <1>2 DEF DataIInv, ThreadsIInv, Past
  <1> QED BY <1>7, <1>8, <1>9, <1>10 DEF DataIInv

LEMMA Ends ==
    ASSUME DataIInv, NEW t \in Threads, EndsGrowth(t) PROVE DataIInv'
  <1> USE ContainersAssumption, ChunkAssumption
  <1>1. /\ lock = t /\ t \in Nat /\ lock # -1 /\ t >= peak /\ peak \in Nat /\ todo = {}
        /\ peak' = peak + ChunkSize /\ lock' = -1 /\ stage[t] = "grow"
        /\ stage' = [stage EXCEPT ![t] = "init"] /\ UNCHANGED <<data, todo, late>>
        /\ stage \in [Threads -> Stages] /\ ThreadsIInv
    BY DEF DataIInv, DataTypeOK, GrowthIInv, EndsGrowth, Threads, Moves
  <1>2. DataTypeOK'
    <2>1. \A u \in Threads : stage'[u] # "grow" /\ lock' # u
      BY <1>1 DEF DataIInv, DataTypeOK, Threads
    <2>2. stage' \in [Threads -> Stages] /\ peak' \in Nat
      BY <1>1 DEF Stages
    <2> QED BY <1>1, <2>1, <2>2 DEF DataIInv, DataTypeOK
  <1>3. VectorsIInv'
    <2>1. \A c \in Containers : Holds(c)' = Holds(c)
      BY <1>1 DEF Holds
    <2> QED BY <1>1, <2>1 DEF DataIInv, VectorsIInv
  <1>4. GrowthIInv'
    BY <1>1 DEF GrowthIInv, Registered
  <1>5. t < peak + ChunkSize
    <2>1. CASE t < ChunkSize
      BY <1>1, <2>1
    <2>2. CASE t >= ChunkSize
      <3>1. t - ChunkSize \in Threads
        BY <2>2 DEF Threads
      <3>2. t - ChunkSize < peak
        BY <1>1, <2>2, <3>1 DEF ThreadsIInv
      <3> QED BY <1>1, <3>2
    <2> QED BY <1>1, <2>1, <2>2
  <1>6. ASSUME NEW u \in Threads
        PROVE  /\ Past(u)' => u < peak'
               /\ stage'[u] # "none" /\ u >= ChunkSize => Past(u - ChunkSize)'
    <2>1. Past(u)' => u < peak'
      <3>1. CASE u = t
        BY <1>1, <1>5, <3>1
      <3>2. CASE u # t
        BY <1>1, <3>2 DEF ThreadsIInv, Past, Threads
      <3> QED BY <3>1, <3>2
    <2>2. u >= ChunkSize => u - ChunkSize \in Threads
      BY DEF Threads
    <2>3. stage'[u] # "none" /\ u >= ChunkSize => Past(u - ChunkSize)
      BY <1>1 DEF ThreadsIInv
    <2>4. u >= ChunkSize /\ Past(u - ChunkSize) => Past(u - ChunkSize)'
      BY <1>1, <2>2 DEF Past
    <2> QED BY <2>1, <2>3, <2>4
  <1>7. ThreadsIInv'
    BY <1>6 DEF ThreadsIInv
  <1> QED BY <1>2, <1>3, <1>4, <1>7 DEF DataIInv

LEMMA Adds ==
    ASSUME DataIInv, NEW t \in Threads, NEW c \in Containers, Constructs(t, c)
    PROVE  DataIInv'
  <1> USE ContainersAssumption, ChunkAssumption
  <1> DEFINE v == Resize(<<>>, ChunkSize)
  <1>1. v \in Vectors /\ v # <<>> /\ Full(v) /\ Capacity(v) = ChunkSize
    BY NewVector
  <1> HIDE DEF v
  <1>2. /\ data[c] = <<>> /\ data' = [data EXCEPT ![c] = v]
        /\ late' = IF peak = ChunkSize /\ lock = -1 THEN late ELSE late \cup {c}
        /\ UNCHANGED <<peak, lock, todo, stage>>
    BY DEF Constructs, v
  <1>3. /\ data \in [Containers -> Vectors] /\ late \subseteq Containers
        /\ c # Info
    BY <1>2 DEF DataIInv, DataTypeOK, VectorsIInv, Vectors
  <1>4. DataTypeOK'
    <2>1. data' \in [Containers -> Vectors]
      BY <1>1, <1>2, <1>3
    <2>2. late' \subseteq Containers
      BY <1>2, <1>3
    <2> QED BY <1>2, <2>1, <2>2 DEF DataIInv, DataTypeOK, Vectors
  <1>5. VectorsIInv'
    <2>1. data'[Info] # <<>> /\ Info \notin late'
      BY <1>2, <1>3 DEF DataIInv, VectorsIInv
    <2>2. \A e \in Containers : data'[e] # <<>> => Full(data'[e])
      BY <1>1, <1>2, <1>3 DEF DataIInv, VectorsIInv
    <2>3. ASSUME NEW e \in Containers \ late', data'[e] # <<>>
          PROVE  Capacity(data'[e]) = Holds(e)'
      <3>1. e \in Containers \ late /\ Holds(e)' = Holds(e)
        BY <1>2 DEF Holds
      <3>2. CASE e = c
        <4>1. peak = ChunkSize /\ lock = -1
          BY <1>2, <2>3, <3>2
        <4> QED BY <1>1, <1>2, <1>3, <3>1, <3>2, <4>1 DEF Holds
      <3>3. CASE e # c
        <4>1. data'[e] = data[e]
          BY <1>2, <1>3, <3>3
        <4> QED BY <2>3, <3>1, <4>1 DEF DataIInv, VectorsIInv
      <3> QED BY <3>2, <3>3
    <2> QED BY <2>1, <2>2, <2>3 DEF VectorsIInv
  <1>6. GrowthIInv'
    <2>1. \A e \in Containers : data[e] # <<>> => data'[e] # <<>>
      BY <1>2, <1>3
    <2> QED BY <1>2, <2>1 DEF DataIInv, DataTypeOK, GrowthIInv, Registered
  <1>7. ThreadsIInv'
    BY <1>2 DEF DataIInv, ThreadsIInv, Past
  <1> QED BY <1>4, <1>5, <1>6, <1>7 DEF DataIInv

LEMMA NextIInv == DataIInv /\ [Next]_vars => DataIInv'
  <1> SUFFICES ASSUME DataIInv, [Next]_vars PROVE DataIInv'
    OBVIOUS
  <1>1. CASE UNCHANGED vars
    BY <1>1 DEF vars, DataIInv, DataTypeOK, VectorsIInv, GrowthIInv, ThreadsIInv,
                Holds, Registered, Past
  <1>2. ASSUME NEW t \in Threads,
               \/ ThreadArrives(t) \/ TestsPeak(t) \/ LocksGrowth(t) \/ CallsFunctor(t)
               \/ EndsGrowth(t) \/ FillsInfo(t)
        PROVE  DataIInv'
    BY <1>2, Arrives, Tests, Locks, Calls, Ends, Fills
  <1>3. ASSUME NEW t \in Threads, NEW c \in Containers,
               Constructs(t, c) \/ UseThrows(t, c)
        PROVE  DataIInv'
    BY <1>3, Adds, Throws
  <1> QED BY <1>1, <1>2, <1>3 DEF Next

LEMMA AlwaysIInv == Spec => []DataIInv
  BY InitIInv, NextIInv, PTL DEF Spec

-----------------------------------------------------------------------------
(* The theorems *)

\* Type correctness of the storage and its growth (thread_info.cpp grow_data).
THEOREM DataTypeCorrect == Spec => []DataTypeOK
  <1>1. DataIInv => DataTypeOK
    BY DEF DataIInv
  <1> QED BY <1>1, AlwaysIInv, PTL

\* grow_data leaves peak_num_threads equal to the size of every container it knew.
THEOREM PeakMatchesStorage == Spec => []PeakIsTheSize
  <1>1. DataIInv => PeakIsTheSize
    <2> SUFFICES ASSUME DataIInv, lock = -1,
                        NEW c \in Containers \ late, data[c] # <<>>
                 PROVE  Size(data[c]) = peak
      BY DEF PeakIsTheSize
    <2>1. data[c] \in Vectors /\ Full(data[c]) /\ Capacity(data[c]) = peak
      BY DEF DataIInv, DataTypeOK, VectorsIInv, Holds, Vectors
    <2> QED BY <2>1, FullSize
  <1> QED BY <1>1, AlwaysIInv, PTL

\* A thread past grow_data has its element in every container grow_data knew.
THEOREM StorageHoldsThreads == Spec => []GrownContainersHoldThreads
  <1>1. DataIInv => GrownContainersHoldThreads
    <2> SUFFICES ASSUME DataIInv, NEW t \in Threads, NEW c \in Containers \ late,
                        stage[t] \in {"init", "running"}, data[c] # <<>>
                 PROVE  InBounds(data[c], t)
      BY DEF GrownContainersHoldThreads
    <2>1. data[c] \in Vectors /\ Full(data[c]) /\ Capacity(data[c]) = Holds(c)
      BY DEF DataIInv, DataTypeOK, VectorsIInv, Vectors
    <2>2. t < peak /\ t \in Int /\ peak \in Nat
      BY DEF DataIInv, DataTypeOK, ThreadsIInv, Past, Threads
    <2>3. Holds(c) \in Int /\ Holds(c) >= peak
      BY <2>2, ChunkAssumption DEF Holds
    <2> QED BY <2>1, <2>2, <2>3, FullSize DEF InBounds
  <1> QED BY <1>1, AlwaysIInv, PTL

\* stable_vector::size counts no element that was not constructed.
THEOREM SizeCountsElements == Spec => []ElementsAreConstructed
  <1>1. DataIInv => ElementsAreConstructed
    <2> SUFFICES ASSUME DataIInv, NEW c \in Containers, NEW i \in 1 .. Len(data[c]) - 1
                 PROVE  data[c][i] = ChunkSize
      BY DEF ElementsAreConstructed
    <2>1. data[c] \in Vectors /\ Len(data[c]) \in Nat
      BY DEF DataIInv, DataTypeOK, Vectors
    <2>2. data[c] # <<>> /\ i \in 1 .. Len(data[c])
      BY <2>1
    <2> QED BY <2>2 DEF DataIInv, VectorsIInv, Full
  <1> QED BY <1>1, AlwaysIInv, PTL

-----------------------------------------------------------------------------
(* resize runs its loop to the end *)

\* What holds of 0 and, with each number below the bound, of the next holds up to the
\* bound.
LEMMA UpwardInduction ==
    ASSUME NEW N \in Nat, NEW T, 0 \in T, \A k \in 0 .. N - 1 : k \in T => k + 1 \in T
    PROVE  0 .. N \subseteq T
  <1> DEFINE R   == {ss \in Nat \X Nat : ss[1] < ss[2]}
             bad == {k \in 0 .. N : k \notin T}
  <1>1. OpToRel(<, Nat) = R
    BY DEF OpToRel
  <1>2. IsWellFoundedOn(R, Nat)
    BY <1>1, NatLessThanWellFounded
  <1>3. ASSUME bad # {} PROVE FALSE
    <2>1. PICK n \in bad : \A m \in bad : ~ (<<m, n>> \in R)
      <3>1. bad \subseteq Nat
        OBVIOUS
      <3> HIDE DEF R, bad
      <3> QED BY <1>2, <1>3, <3>1, WFMin
    <2>2. n \in 0 .. N /\ n \notin T /\ n # 0
      BY <2>1
    <2>3. n - 1 \in 0 .. N - 1 /\ (n - 1) + 1 = n /\ n - 1 \in 0 .. N
      BY <2>2
    <2>4. n - 1 \notin T
      BY <2>2, <2>3
    <2>5. n - 1 \in bad /\ <<n - 1, n>> \in R
      BY <2>2, <2>3, <2>4
    <2> QED BY <2>1, <2>5
  <1> QED BY <1>3

\* Rounding up: as many chunks as it takes.
LEMMA RoundsUp ==
    ASSUME NEW a \in Nat \ {0}, NEW d, d = (a + ChunkSize - 1) \div ChunkSize
    PROVE  d \in Nat /\ a =< d * ChunkSize
  <1>1. ChunkSize \in Nat \ {0} /\ a + ChunkSize - 1 \in Nat
    BY ChunkAssumption
  <1>2. d \in Int
    BY <1>1
  <1>3. /\ d * ChunkSize =< a + ChunkSize - 1
        /\ a + ChunkSize - 1 < d * ChunkSize + ChunkSize
    BY <1>1
  <1> QED BY <1>1, <1>2, <1>3

\* After reserve the capacity suffices.
LEMMA ReserveSuffices ==
    ASSUME NEW v \in Vectors, NEW n \in Nat
    PROVE  Reserve(v, n) \in Vectors /\ n =< Capacity(Reserve(v, n))
  <1> DEFINE d == IF n > Capacity(v)
                    THEN (n - Capacity(v) + ChunkSize - 1) \div ChunkSize ELSE 0
             w == Reserve(v, n)
  <1>1. Capacity(v) \in Nat /\ Len(v) \in Nat /\ ChunkSize \in Nat \ {0}
    BY ChunkAssumption DEF Capacity, Vectors
  <1>2. d \in Nat /\ n =< Capacity(v) + d * ChunkSize
    <2>1. CASE n > Capacity(v)
      <3>1. n - Capacity(v) \in Nat \ {0}
        BY <1>1, <2>1
      <3>2. d \in Nat /\ n - Capacity(v) =< d * ChunkSize
        BY <2>1, <3>1, RoundsUp
      <3> HIDE DEF d
      <3> QED BY <1>1, <3>2
    <2>2. CASE ~ (n > Capacity(v))
      BY <1>1, <2>2
    <2> QED BY <2>1, <2>2
  <1>3. w = v \o [i \in 1 .. d |-> 0]
    BY DEF Reserve
  <1> HIDE DEF d, w
  <1>4. w \in Vectors /\ Len(w) = Len(v) + d
    BY <1>1, <1>2, <1>3 DEF Vectors
  <1>5. Capacity(w) = Capacity(v) + d * ChunkSize
    BY <1>1, <1>2, <1>4 DEF Capacity
  <1> QED BY <1>2, <1>4, <1>5 DEF w

\* The vector after k calls of emplace_back for which its last chunk has room.
Filled(v, k) == [v EXCEPT ![Len(v)] = @ + k]

\* One more call.
LEMMA EmplaceFills ==
    ASSUME NEW v \in Vectors, v # <<>>, NEW k \in Nat, v[Len(v)] + k < ChunkSize
    PROVE  EmplaceBack(Filled(v, k)) = Filled(v, k + 1)
  <1>1. Len(v) \in Nat \ {0} /\ v[Len(v)] \in Nat /\ ChunkSize \in Nat \ {0}
    BY ChunkAssumption DEF Vectors
  <1> DEFINE w == Filled(v, k)
  <1>2. DOMAIN w = DOMAIN v /\ w[Len(v)] = v[Len(v)] + k /\ Len(w) = Len(v)
    BY <1>1 DEF Filled, Vectors
  <1>3. w # <<>> /\ w[Len(w)] # ChunkSize
    BY <1>1, <1>2
  <1>4. EmplaceBack(w) = [w EXCEPT ![Len(v)] = @ + 1]
    BY <1>2, <1>3 DEF EmplaceBack
  <1>5. [w EXCEPT ![Len(v)] = @ + 1] = Filled(v, k + 1)
    BY <1>1 DEF Filled, Vectors
  <1> QED BY <1>4, <1>5

\* The loop, as long as the last chunk has the room.
LEMMA LoopFills ==
    ASSUME NEW v \in Vectors, v # <<>>, NEW m \in Nat, v[Len(v)] + m =< ChunkSize,
           NEW added,
           added = [k \in 0 .. m |-> IF k = 0 THEN v ELSE EmplaceBack(added[k - 1])]
    PROVE  added[m] = Filled(v, m)
  <1>1. Len(v) \in Nat \ {0} /\ v[Len(v)] \in Nat /\ ChunkSize \in Nat \ {0}
    BY ChunkAssumption DEF Vectors
  <1>2. Filled(v, 0) = v
    BY <1>1 DEF Filled, Vectors
  <1> DEFINE T == {k \in 0 .. m : added[k] = Filled(v, k)}
  <1>3. 0 \in T
    BY <1>2
  <1>4. ASSUME NEW k \in 0 .. m - 1, k \in T PROVE k + 1 \in T
    <2>1. k + 1 \in 0 .. m /\ k + 1 # 0 /\ (k + 1) - 1 = k
      OBVIOUS
    <2>2. added[k + 1] = EmplaceBack(added[k])
      BY <2>1
    <2>3. added[k] = Filled(v, k)
      BY <1>4
    <2>4. EmplaceBack(Filled(v, k)) = Filled(v, k + 1)
      BY <1>1, EmplaceFills
    <2> QED BY <2>1, <2>2, <2>3, <2>4
  <1>5. 0 .. m \subseteq T
    <2> HIDE DEF T
    <2> QED BY <1>3, <1>4, UpwardInduction
  <1> QED BY <1>5

\* And there is such a loop.
LEMMA LoopExists ==
    ASSUME NEW v \in Vectors, v # <<>>, NEW m \in Nat, v[Len(v)] + m =< ChunkSize
    PROVE  \E added :
             added = [k \in 0 .. m |-> IF k = 0 THEN v ELSE EmplaceBack(added[k - 1])]
  <1> DEFINE added == [k \in 0 .. m |-> Filled(v, k)]
             next  == [k \in 0 .. m |-> IF k = 0 THEN v ELSE EmplaceBack(added[k - 1])]
  <1>1. Len(v) \in Nat \ {0} /\ v[Len(v)] \in Nat /\ ChunkSize \in Nat \ {0}
    BY ChunkAssumption DEF Vectors
  <1>2. Filled(v, 0) = v
    BY <1>1 DEF Filled, Vectors
  <1>3. ASSUME NEW k \in 0 .. m PROVE added[k] = next[k]
    <2>1. CASE k = 0
      BY <1>2, <2>1
    <2>2. CASE k # 0
      <3>1. k - 1 \in 0 .. m /\ k - 1 \in Nat /\ (k - 1) + 1 = k
            /\ v[Len(v)] + (k - 1) < ChunkSize
        BY <1>1, <2>2
      <3>2. EmplaceBack(Filled(v, k - 1)) = Filled(v, k)
        BY <3>1, EmplaceFills
      <3> QED BY <2>2, <3>1, <3>2
    <2> QED BY <2>1, <2>2
  <1>4. added = next
    BY <1>3
  <1> QED BY <1>4

\* Resize is what stable_vector's resize does, reserve and then one emplace_back after
\* the other, and its result has the size asked for.
THEOREM ResizeRunsTheLoop ==
    \A v \in Vectors, n \in Nat : /\ Resize(v, n) = EmplaceUpTo(Reserve(v, n), n)
                                  /\ n =< Size(Resize(v, n))
  <1> SUFFICES ASSUME NEW v \in Vectors, NEW n \in Nat
               PROVE  /\ Resize(v, n) = EmplaceUpTo(Reserve(v, n), n)
                      /\ n =< Size(Resize(v, n))
    OBVIOUS
  <1> DEFINE w == Reserve(v, n)
             m == n - Size(w)
  <1>1. w \in Vectors /\ n =< Capacity(w)
    BY ReserveSuffices
  <1> HIDE DEF w
  <1>2. Size(w) \in Nat /\ Len(w) \in Nat /\ ChunkSize \in Nat \ {0}
    BY <1>1, ChunkAssumption DEF Size, Vectors
  <1>3. CASE ~ (Size(w) < n)
    <2>1. Resize(v, n) = w
      BY <1>3 DEF Resize, w
    <2>2. EmplaceUpTo(w, n) = w
      BY <1>3 DEF EmplaceUpTo
    <2> QED BY <1>2, <1>3, <2>1, <2>2 DEF w
  <1>4. CASE Size(w) < n
    <2>1. w # <<>>
      BY <1>1, <1>2, <1>4 DEF Capacity
    <2>2. Len(w) \in Nat \ {0} /\ w[Len(w)] \in Nat /\ m \in Nat
      BY <1>1, <1>2, <1>4, <2>1 DEF Vectors
    <2>3. Size(w) = (Len(w) - 1) * ChunkSize + w[Len(w)]
      BY <2>1 DEF Size
    <2>4. Capacity(w) = (Len(w) - 1) * ChunkSize + ChunkSize
      BY <1>2, <2>2 DEF Capacity
    <2>5. w[Len(w)] + m =< ChunkSize
      BY <1>1, <1>2, <2>2, <2>3, <2>4
    <2>6. Resize(v, n) = Filled(w, m)
      BY <1>4 DEF Resize, Filled, w
    <2>7. EmplaceUpTo(w, n) = Filled(w, m)
      <3> DEFINE added == CHOOSE g : g = [k \in 0 .. m |->
                            IF k = 0 THEN w ELSE EmplaceBack(g[k - 1])]
      <3>1. EmplaceUpTo(w, n) = added[m]
        BY <1>4 DEF EmplaceUpTo
      <3>2. \E g : g = [k \in 0 .. m |-> IF k = 0 THEN w ELSE EmplaceBack(g[k - 1])]
        <4> HIDE DEF m
        <4> QED BY <1>1, <2>1, <2>2, <2>5, LoopExists
      <3> HIDE DEF m
      <3>3. added = [k \in 0 .. m |-> IF k = 0 THEN w ELSE EmplaceBack(added[k - 1])]
        BY <3>2
      <3> HIDE DEF added
      <3>4. added[m] = Filled(w, m)
        BY <1>1, <2>1, <2>2, <2>5, <3>3, LoopFills
      <3> QED BY <3>1, <3>4
    <2>8. Size(Filled(w, m)) = n
      <3>1. Filled(w, m) # <<>> /\ Len(Filled(w, m)) = Len(w)
            /\ Filled(w, m)[Len(w)] = w[Len(w)] + m
        <4> HIDE DEF m
        <4> QED BY <1>1, <2>2 DEF Filled, Vectors
      <3>2. Size(Filled(w, m)) = (Len(w) - 1) * ChunkSize + (w[Len(w)] + m)
        BY <3>1 DEF Size
      <3> QED BY <1>2, <2>2, <2>3, <3>2
    <2> QED BY <2>6, <2>7, <2>8 DEF w
  <1> QED BY <1>3, <1>4
=============================================================================
