-------------------------- MODULE CacheManager_proofs --------------------------
(***************************************************************************)
(* Proofs about CacheManager, for every set of children, of processes of   *)
(* other roots, of finalizing threads and every choice of formats.         *)
(***************************************************************************)
EXTENDS CacheManager, FiniteSetTheorems, TLAPS

\* The child has started and its final flush is done, or its file is gone.
Drained(c) == child[c] # "spawned" /\ file[<<"buffer", c>>] # "partial"

ChildIInv ==
    \A c \in Children :
      /\ child[c] \in {"drained", "saving", "ended"} => Drained(c)
      /\ file[<<"metadata", c>>] # "absent" => Drained(c)

\* Whatever a finalizer knows of a child rests on the child's metadata file.
ListIInv ==
    \A f \in Finalizers, c \in Children :
      /\ <<"metadata", c>> \in listed[f] => Drained(c)
      /\ \A g \in configs[f] : g.pid = c => Drained(c)

DrainIInv == ChildIInv /\ ListIInv /\ ChildFilesAreReadWhole

ManagerIInv == ManagerTypeOK /\ DrainIInv

-----------------------------------------------------------------------------
(* What the files, the configurations and the reports of the root process rest on *)

Kinds == {"buffer", "metadata"}

Listing == {"listing", "load", "parse", "clear", "ended"}
Loading == {"load", "parse", "clear", "ended"}
Reporting == {"parse", "clear", "ended"}
Clearing == {"clear", "ended"}
Storing == {"run", "skipped", "mark", "stop"}   \* before the storage is stopped

\* The root's own buffer has no metadata file, for anyone.
RootIInv ==
    /\ file[<<"metadata", Root>>] = "absent"
    /\ \A f \in Finalizers : <<"metadata", Root>> \notin listed[f]

\* The files of another root process are dropped from the list before it is used.
StrangersIInv ==
    /\ \A s \in Strangers, k \in Kinds : file[<<k, s>>] = "whole"
    /\ \A f \in Finalizers, s \in Strangers, k \in Kinds :
         stage[f] \in Loading => <<k, s>> \notin listed[f]

\* A file that was there at the listing, and that nobody makes again, is gone or
\* still to be removed.
ClearIInv ==
    /\ \A f \in Finalizers, c \in Children : c \in early[f] => child[c] = "ended"
    /\ \A f \in Finalizers : stage[f] \in Listing =>
         \A p \in early[f] \cup {Root}, k \in Kinds :
           \/ file[<<k, p>>] = "absent"
           \/ <<k, p>> \in listed[f] /\ stage[f] # "ended"

FilesIInv == RootIInv /\ StrangersIInv /\ ClearIInv

\* Each process has one configuration, the root only its own.
ConfigsIInv ==
    \A f \in Finalizers :
      /\ stage[f] \notin Loading => configs[f] = {}
      /\ stage[f] = "load" => \A g \in configs[f] : g.pid # Root
      /\ \A g, h \in configs[f] : g.pid = h.pid => g = h

\* Each configuration is reported once in each format.
ReportsIInv ==
    /\ \A r \in reports : stage[r.by] \in Reporting /\ r.config \in configs[r.by]
    /\ \A r, s \in reports :
         r.by = s.by /\ r.format = s.format /\ r.config = s.config => r = s
    /\ \A f \in Finalizers, format \in Formats :
         stage[f] \in Clearing => configs[f] \subseteq Done(f, format)

\* Until somebody clears the directory, each file has what its child has written.
KeepIInv ==
    (\A f \in Finalizers : stage[f] \notin Clearing) =>
      \A c \in Children :
        /\ child[c] = "tracing" => file[<<"buffer", c>>] # "absent"
        /\ child[c] \in {"drained", "saving", "ended"} => file[<<"buffer", c>>] = "whole"
        /\ child[c] = "saving" => file[<<"metadata", c>>] # "absent"
        /\ child[c] = "ended" => file[<<"metadata", c>>] = "whole"

BooksIInv == FilesIInv /\ ConfigsIInv /\ ReportsIInv /\ KeepIInv

Busy == {f \in Finalizers : stage[f] \notin {"run", "skipped"}}

Alone == \A f, g \in Busy : f = g

\* The storage is stopped and flushed before the one thread that finalizes lists, ...
StorageIInv ==
    /\ storage # "running" => \E f \in Finalizers : stage[f] \notin Storing
    /\ Alone =>
         /\ storage # "stopped" => file[<<"buffer", Root>>] = "partial"
         /\ \A f \in Finalizers :
              /\ stage[f] \in Listing \cup {"list"} => storage = "stopped"
              /\ stage[f] \notin Storing \cup Clearing /\ storage = "stopped" =>
                   file[<<"buffer", Root>>] = "whole"
         /\ \A r \in reports : r.config.pid = Root => r.buffer = "whole"

\* ... and what it found of the children that had ended then stays until it clears.
EarlyIInv ==
    Alone =>
      /\ \A f \in Finalizers, c \in Children : c \in early[f] =>
           /\ stage[f] \in {"listing", "load", "parse"} => HasPair(listed[f], c)
           /\ \A g \in configs[f] : g.pid = c => g.metadata = "whole"
           /\ stage[f] \in Reporting => \E g \in configs[f] : g.pid = c
      /\ \A r \in reports :
           r.config.pid \in early[r.by] => r.buffer = "whole"

\* Cardinality means the number of the threads that have come: after finitely many
\* steps there are finitely many of them.
OutputIInv ==
    ManagerTypeOK /\ BooksIInv /\ StorageIInv /\ EarlyIInv /\ IsFiniteSet(Busy)

-----------------------------------------------------------------------------

LEMMA FilesOfPids ==
    ASSUME NEW p \in Pids PROVE <<"buffer", p>> \in Files /\ <<"metadata", p>> \in Files
  BY DEF Files

LEMMA InitIInv == Init => ManagerIInv
  <1> SUFFICES ASSUME Init PROVE ManagerIInv
    OBVIOUS
  <1>1. ManagerTypeOK
    BY DEF Init, ManagerTypeOK, Contents, ChildStages, Stages
  <1>2. ASSUME NEW c \in Children
        PROVE  child[c] = "spawned" /\ file[<<"metadata", c>>] = "absent"
    <2>1. c \in Pids /\ c \notin Strangers
      BY ProcessesAssumption DEF Pids
    <2> QED BY <2>1, FilesOfPids DEF Init
  <1>3. DrainIInv
    BY <1>2 DEF Init, DrainIInv, ChildIInv, ListIInv, ChildFilesAreReadWhole
  <1> QED BY <1>1, <1>3 DEF ManagerIInv

-----------------------------------------------------------------------------
(* Type correctness *)

LEMMA ChildKeepsType ==
    ASSUME ManagerTypeOK, NEW c \in Children, ChildNext(c) PROVE ManagerTypeOK'
  <1>1. UNCHANGED rootVars
    BY DEF ChildNext, ChildStarts, ChildDrains, ChildOpensMetadata,
           ChildSavesMetadata, ChildDies
  <1>2. child' \in [Children -> ChildStages]
    BY DEF ManagerTypeOK, ChildNext, ChildStarts, ChildDrains, ChildOpensMetadata,
           ChildSavesMetadata, ChildDies, ChildMoves, ChildStages
  <1>3. file' \in [Files -> Contents]
    BY DEF ManagerTypeOK, ChildNext, ChildStarts, ChildDrains, ChildOpensMetadata,
           ChildSavesMetadata, ChildDies, Completed, Contents
  <1> QED BY <1>1, <1>2, <1>3 DEF ManagerTypeOK, rootVars

LEMMA FinalizerKeepsType ==
    ASSUME ManagerTypeOK, NEW f \in Finalizers, FinalizerNext(f)
    PROVE  ManagerTypeOK'
  <1> USE DEF ManagerTypeOK, Moves
  <1>1. CASE \/ FinalizeTests(f) \/ FinalizeMarks(f) \/ StopsStorage(f)
             \/ JoinsWorker(f) \/ EndsProcessing(f) \/ Exits(f)
    BY <1>1 DEF FinalizeTests, FinalizeMarks, StopsStorage, JoinsWorker,
                EndsProcessing, Exits, Stages
  <1>2. CASE ListBegins(f)
    <2>1. Present \in SUBSET Files
      BY DEF Present
    <2> QED BY <1>2, <2>1 DEF ListBegins, Stages
  <1>3. CASE ListEnds(f)
    <2>1. PICK now \in SUBSET ((listed[f] \ Present) \cup (Present \ listed[f])) :
            listed' = [listed EXCEPT ![f] = CacheFiles((listed[f] \cap Present) \cup now)]
      BY <1>3 DEF ListEnds
    <2>2. CacheFiles((listed[f] \cap Present) \cup now) \in SUBSET Files
      BY DEF CacheFiles, Present
    <2>3. listed' \in [Finalizers -> SUBSET Files]
      BY <2>1, <2>2
    <2> QED BY <1>3, <2>3 DEF ListEnds, Stages
  <1>4. CASE Loads(f)
    <2>1. PICK p \in Pids :
            configs' = [configs EXCEPT ![f] = @ \cup
              {[pid |-> p, own |-> FALSE, metadata |-> file[<<"metadata", p>>]]}]
      BY <1>4 DEF Loads
    <2>2. [pid |-> p, own |-> FALSE, metadata |-> file[<<"metadata", p>>]] \in Configs
      BY FilesOfPids DEF Configs
    <2>3. configs' \in [Finalizers -> SUBSET Configs]
      BY <2>1, <2>2
    <2> QED BY <1>4, <2>3 DEF Loads, Stages
  <1>5. CASE AddsOwn(f)
    <2>1. [pid |-> Root, own |-> TRUE, metadata |-> "whole"] \in Configs
      BY DEF Configs, Pids, Contents
    <2>2. configs' \in [Finalizers -> SUBSET Configs]
      BY <1>5, <2>1 DEF AddsOwn
    <2> QED BY <1>5, <2>2 DEF AddsOwn, Stages
  <1>6. CASE Processes(f)
    <2>1. PICK format \in Formats, g \in configs[f] :
            reports' = reports \cup {[by |-> f, format |-> format, config |-> g,
                                      buffer |-> file[<<"buffer", g.pid>>]]}
      BY <1>6 DEF Processes
    <2>2. g \in Configs /\ file[<<"buffer", g.pid>>] \in Contents
      <3>1. g \in Configs /\ g.pid \in Pids
        BY DEF Configs
      <3> QED BY <3>1, FilesOfPids
    <2>3. reports' \subseteq [by : Finalizers, format : Formats, config : Configs,
                              buffer : Contents]
      BY <2>1, <2>2
    <2> QED BY <1>6, <2>3 DEF Processes, Stages
  <1>7. CASE Clears(f)
    <2>1. /\ file' \in [Files -> Contents]
          /\ listed' \in [Finalizers -> SUBSET Files]
          /\ stage' \in [Finalizers -> Stages]
      BY <1>7 DEF Clears, Contents, Stages
    <2> QED BY <1>7, <2>1 DEF Clears
  <1> QED BY <1>1, <1>2, <1>3, <1>4, <1>5, <1>6, <1>7 DEF FinalizerNext

LEMMA DrainKeepsType == ASSUME ManagerTypeOK, WorkerDrains PROVE ManagerTypeOK'
  BY DEF ManagerTypeOK, WorkerDrains, Completed, Contents

-----------------------------------------------------------------------------
(* The inductive step *)

\* What has been said of drained children goes on to hold.
LEMMA ListKept ==
    ASSUME DrainIInv, UNCHANGED <<listed, configs, reports>>,
           \A c \in Children : Drained(c) => Drained(c)'
    PROVE  ListIInv' /\ ChildFilesAreReadWhole'
  BY DEF DrainIInv, ListIInv, ChildFilesAreReadWhole

LEMMA ChildKeepsDrain ==
    ASSUME ManagerIInv, NEW c \in Children, ChildNext(c) PROVE DrainIInv'
  <1> USE DEF ManagerIInv, ManagerTypeOK
  <1>1. UNCHANGED <<listed, configs, reports>>
    BY DEF ChildNext, ChildStarts, ChildDrains, ChildOpensMetadata,
           ChildSavesMetadata, ChildDies, rootVars
  <1>2. ASSUME NEW d \in Children
        PROVE  <<"buffer", d>> \in Files /\ <<"metadata", d>> \in Files
    BY FilesOfPids DEF Pids
  <1>3. ASSUME NEW d \in Children PROVE Drained(d) => Drained(d)'
    BY <1>2 DEF ChildNext, ChildStarts, ChildDrains, ChildOpensMetadata,
                ChildSavesMetadata, ChildDies, ChildMoves, Completed, Drained
  <1>4. ChildIInv'
    <2> SUFFICES ASSUME NEW d \in Children
                 PROVE  /\ child'[d] \in {"drained", "saving", "ended"} => Drained(d)'
                        /\ file'[<<"metadata", d>>] # "absent" => Drained(d)'
      BY DEF ChildIInv
    <2>1. CASE Drained(d)
      BY <1>3, <2>1
    <2>2. CASE ~Drained(d)
      <3>1. /\ child[d] \notin {"drained", "saving", "ended"}
            /\ file[<<"metadata", d>>] = "absent"
        BY <2>2 DEF DrainIInv, ChildIInv
      <3>2. CASE ChildStarts(c)
        BY <1>2, <3>1, <3>2 DEF ChildStarts, ChildMoves
      <3>3. CASE ChildDrains(c)
        BY <1>2, <3>1, <3>3 DEF ChildDrains, ChildMoves, Completed, Drained
      <3>4. CASE ChildOpensMetadata(c) \/ ChildSavesMetadata(c) \/ ChildDies(c)
        BY <1>2, <3>1, <3>4 DEF ChildOpensMetadata, ChildSavesMetadata, ChildDies,
                                ChildMoves, Completed
      <3> QED BY <3>2, <3>3, <3>4 DEF ChildNext
    <2> QED BY <2>1, <2>2
  <1> QED BY <1>1, <1>3, <1>4, ListKept DEF DrainIInv

LEMMA WorkerKeepsDrain == ASSUME ManagerIInv, WorkerDrains PROVE DrainIInv'
  <1> USE DEF ManagerIInv, ManagerTypeOK
  <1>1. ASSUME NEW d \in Children
        PROVE  /\ file'[<<"buffer", d>>] = file[<<"buffer", d>>]
               /\ file'[<<"metadata", d>>] = file[<<"metadata", d>>]
    <2>1. d # Root
      BY ProcessesAssumption
    <2> QED BY <2>1 DEF WorkerDrains, Completed
  <1>2. \A d \in Children : Drained(d)' = Drained(d)
    BY <1>1 DEF Drained, WorkerDrains
  <1>3. ChildIInv'
    BY <1>1, <1>2 DEF DrainIInv, ChildIInv, WorkerDrains
  <1> QED BY <1>2, <1>3, ListKept DEF WorkerDrains, DrainIInv

LEMMA FinalizerKeepsDrain ==
    ASSUME ManagerIInv, NEW f \in Finalizers, FinalizerNext(f) PROVE DrainIInv'
  <1> USE DEF ManagerIInv, ManagerTypeOK
  <1>1. UNCHANGED child
    BY DEF FinalizerNext, FinalizeTests, FinalizeMarks, StopsStorage, JoinsWorker,
           ListBegins, ListEnds, Loads, AddsOwn, Processes, EndsProcessing, Clears,
           Exits, Moves
  <1>2. ASSUME UNCHANGED file
        PROVE  /\ ChildIInv' /\ \A c \in Children : Drained(c)' = Drained(c)
    BY <1>1, <1>2 DEF DrainIInv, ChildIInv, Drained
  <1>3. CASE \/ FinalizeTests(f) \/ FinalizeMarks(f) \/ StopsStorage(f)
             \/ JoinsWorker(f) \/ EndsProcessing(f) \/ Exits(f)
    <2>1. UNCHANGED <<file, listed, configs, reports>>
      BY <1>3 DEF FinalizeTests, FinalizeMarks, StopsStorage, JoinsWorker,
                  EndsProcessing, Exits
    <2> QED BY <1>2, <2>1, ListKept DEF DrainIInv
  <1>4. CASE ListBegins(f)
    <2>1. UNCHANGED <<file, configs, reports>> /\ listed' = [listed EXCEPT ![f] = Present]
      BY <1>4 DEF ListBegins
    <2>2. \A c \in Children : <<"metadata", c>> \in Present => Drained(c)
      BY DEF Present, DrainIInv, ChildIInv
    <2> QED BY <1>2, <2>1, <2>2 DEF DrainIInv, ListIInv, ChildFilesAreReadWhole
  <1>5. CASE ListEnds(f)
    <2>1. PICK now \in SUBSET ((listed[f] \ Present) \cup (Present \ listed[f])) :
            listed' = [listed EXCEPT ![f] = CacheFiles((listed[f] \cap Present) \cup now)]
      BY <1>5 DEF ListEnds
    <2>2. UNCHANGED <<file, configs, reports>>
      BY <1>5 DEF ListEnds
    <2>3. \A c \in Children : <<"metadata", c>> \in listed'[f] => Drained(c)
      <3>1. listed'[f] \subseteq listed[f] \cup Present
        BY <2>1 DEF CacheFiles
      <3> QED BY <3>1 DEF Present, DrainIInv, ChildIInv, ListIInv
    <2>4. \A g \in Finalizers : g # f => listed'[g] = listed[g]
      BY <2>1
    <2> QED BY <1>2, <2>2, <2>3, <2>4 DEF DrainIInv, ListIInv, ChildFilesAreReadWhole
  <1>6. CASE Loads(f)
    <2>1. PICK p \in Pids :
            /\ HasPair(listed[f], p)
            /\ configs' = [configs EXCEPT ![f] = @ \cup
                 {[pid |-> p, own |-> FALSE, metadata |-> file[<<"metadata", p>>]]}]
      BY <1>6 DEF Loads
    <2>2. UNCHANGED <<file, listed, reports>>
      BY <1>6 DEF Loads
    <2>3. p \in Children => Drained(p)
      BY <2>1 DEF HasPair, DrainIInv, ListIInv
    <2>4. ASSUME NEW h \in Finalizers, NEW c \in Children, NEW g \in configs'[h],
                 g.pid = c
          PROVE  Drained(c)
      <3>1. CASE g \in configs[h]
        BY <2>4, <3>1 DEF DrainIInv, ListIInv
      <3>2. CASE g \notin configs[h]
        <4>1. g = [pid |-> p, own |-> FALSE, metadata |-> file[<<"metadata", p>>]]
          BY <2>1, <3>2
        <4> QED BY <2>3, <2>4, <4>1
      <3> QED BY <3>1, <3>2
    <2> QED BY <1>2, <2>2, <2>4 DEF DrainIInv, ListIInv, ChildFilesAreReadWhole
  <1>7. CASE AddsOwn(f)
    <2>1. /\ configs' = [configs EXCEPT ![f] = @ \cup
                 {[pid |-> Root, own |-> TRUE, metadata |-> "whole"]}]
          /\ UNCHANGED <<file, listed, reports>>
      BY <1>7 DEF AddsOwn
    <2>2. ASSUME NEW h \in Finalizers, NEW c \in Children, NEW g \in configs'[h],
                 g.pid = c
          PROVE  Drained(c)
      <3>1. CASE g \in configs[h]
        BY <2>2, <3>1 DEF DrainIInv, ListIInv
      <3>2. CASE g \notin configs[h]
        <4>1. g = [pid |-> Root, own |-> TRUE, metadata |-> "whole"]
          BY <2>1, <3>2
        <4>2. c = Root
          BY <2>2, <4>1
        <4> QED BY <4>2, ProcessesAssumption
      <3> QED BY <3>1, <3>2
    <2> QED BY <1>2, <2>1, <2>2 DEF DrainIInv, ListIInv, ChildFilesAreReadWhole
  <1>8. CASE Processes(f)
    <2>1. PICK format \in Formats, g \in configs[f] :
            reports' = reports \cup {[by |-> f, format |-> format, config |-> g,
                                      buffer |-> file[<<"buffer", g.pid>>]]}
      BY <1>8 DEF Processes
    <2>2. UNCHANGED <<file, listed, configs>>
      BY <1>8 DEF Processes
    <2>3. g.pid \in Children => file[<<"buffer", g.pid>>] # "partial"
      BY DEF DrainIInv, ListIInv, Drained
    <2>4. ChildFilesAreReadWhole'
      BY <2>1, <2>3 DEF DrainIInv, ChildFilesAreReadWhole
    <2> QED BY <1>2, <2>2, <2>4 DEF DrainIInv, ListIInv
  <1>9. CASE Clears(f)
    <2>1. /\ \A n \in Files : file'[n] = file[n] \/ file'[n] = "absent"
          /\ \A g \in Finalizers : listed'[g] \subseteq listed[g]
          /\ UNCHANGED <<configs, reports>>
      BY <1>9 DEF Clears
    <2>2. ASSUME NEW c \in Children PROVE Drained(c) => Drained(c)'
      <3>1. <<"buffer", c>> \in Files
        BY FilesOfPids DEF Pids
      <3> QED BY <1>1, <2>1, <3>1 DEF Drained
    <2>3. ChildIInv'
      <3>1. ASSUME NEW c \in Children PROVE <<"metadata", c>> \in Files
        BY FilesOfPids DEF Pids
      <3> QED BY <1>1, <2>1, <2>2, <3>1 DEF DrainIInv, ChildIInv
    <2> QED BY <2>1, <2>2, <2>3 DEF DrainIInv, ListIInv, ChildFilesAreReadWhole
  <1> QED BY <1>3, <1>4, <1>5, <1>6, <1>7, <1>8, <1>9 DEF FinalizerNext

LEMMA NextIInv == ManagerIInv /\ [Next]_vars => ManagerIInv'
  <1> SUFFICES ASSUME ManagerIInv, [Next]_vars PROVE ManagerIInv'
    OBVIOUS
  <1>1. ManagerTypeOK /\ DrainIInv
    BY DEF ManagerIInv
  <1>2. CASE UNCHANGED vars
    BY <1>2 DEF vars, rootVars, ManagerIInv, ManagerTypeOK, DrainIInv, ChildIInv,
                ListIInv, ChildFilesAreReadWhole, Drained
  <1>3. CASE WorkerDrains
    BY <1>1, <1>3, DrainKeepsType, WorkerKeepsDrain DEF ManagerIInv
  <1>4. ASSUME NEW c \in Children, ChildNext(c) PROVE ManagerIInv'
    BY <1>1, <1>4, ChildKeepsType, ChildKeepsDrain DEF ManagerIInv
  <1>5. ASSUME NEW f \in Finalizers, FinalizerNext(f) PROVE ManagerIInv'
    BY <1>1, <1>5, FinalizerKeepsType, FinalizerKeepsDrain DEF ManagerIInv
  <1> QED BY <1>2, <1>3, <1>4, <1>5 DEF Next

LEMMA AlwaysIInv == Spec => []ManagerIInv
  BY InitIInv, NextIInv, PTL DEF Spec

-----------------------------------------------------------------------------
(* What a step moves *)

LEMMA MovesStage ==
    ASSUME ManagerTypeOK, NEW f \in Finalizers, NEW from, NEW to, Moves(f, from, to)
    PROVE  /\ stage[f] = from /\ stage'[f] = to
           /\ \A g \in Finalizers : g # f => stage'[g] = stage[g]
           /\ UNCHANGED child
  BY DEF ManagerTypeOK, Moves

\* A child writes its own files, and none when it has ended.
LEMMA ChildMovesItself ==
    ASSUME ManagerTypeOK, NEW c \in Children, ChildNext(c)
    PROVE  /\ UNCHANGED <<state, storage, alive, stage, listed, configs, reports, early>>
           /\ c # Root /\ c \notin Strangers
           /\ child[c] # "ended"
           /\ \A d \in Children : d # c => child'[d] = child[d]
           /\ \A p \in Pids, k \in Kinds : p # c => file'[<<k, p>>] = file[<<k, p>>]
  <1> USE DEF ChildNext, ChildStarts, ChildDrains, ChildOpensMetadata,
              ChildSavesMetadata, ChildDies
  <1>1. UNCHANGED <<state, storage, alive, stage, listed, configs, reports, early>>
    BY DEF rootVars
  <1>2. child[c] # "ended" /\ \A d \in Children : d # c => child'[d] = child[d]
    BY DEF ManagerTypeOK, ChildMoves
  <1>3. \A p \in Pids, k \in Kinds : p # c => file'[<<k, p>>] = file[<<k, p>>]
    BY DEF ManagerTypeOK, Files, Kinds, Completed
  <1> QED BY <1>1, <1>2, <1>3, ProcessesAssumption

\* The worker completes the root's buffer, unless it has been removed.
LEMMA WorkerMovesBuffer ==
    ASSUME ManagerTypeOK, WorkerDrains
    PROVE  /\ UNCHANGED <<child, state, stage, listed, configs, reports, early>>
           /\ storage = "stopping" /\ storage' = "stopped"
           /\ file[<<"buffer", Root>>] = "absent" => file'[<<"buffer", Root>>] = "absent"
           /\ file[<<"buffer", Root>>] # "absent" => file'[<<"buffer", Root>>] = "whole"
           /\ \A p \in Pids : p # Root => file'[<<"buffer", p>>] = file[<<"buffer", p>>]
           /\ \A p \in Pids : file'[<<"metadata", p>>] = file[<<"metadata", p>>]
  <1>1. Root \in Pids /\ <<"buffer", Root>> \in Files
    BY DEF Pids, Files
  <1>2. file' = [file EXCEPT ![<<"buffer", Root>>] = IF @ = "absent" THEN "absent" ELSE "whole"]
    BY DEF WorkerDrains, Completed
  <1> QED BY <1>1, <1>2, FilesOfPids DEF WorkerDrains, ManagerTypeOK

-----------------------------------------------------------------------------
(* The files *)

LEMMA ChildKeepsFiles ==
    ASSUME ManagerTypeOK, FilesIInv, NEW c \in Children, ChildNext(c) PROVE FilesIInv'
  <1>1. /\ UNCHANGED <<stage, listed, early>>
        /\ c # Root /\ c \notin Strangers /\ child[c] # "ended"
        /\ \A d \in Children : d # c => child'[d] = child[d]
        /\ \A p \in Pids, k \in Kinds : p # c => file'[<<k, p>>] = file[<<k, p>>]
    BY ChildMovesItself
  <1>2. Root \in Pids /\ Strangers \subseteq Pids
    BY DEF Pids
  <1>3. \A f \in Finalizers : c \notin early[f] /\ early[f] \subseteq Pids
    BY <1>1 DEF FilesIInv, ClearIInv, ManagerTypeOK, Pids
  <1>4. RootIInv' /\ StrangersIInv'
    BY <1>1, <1>2 DEF FilesIInv, RootIInv, StrangersIInv, Kinds
  <1>5. ClearIInv'
    BY <1>1, <1>2, <1>3 DEF FilesIInv, ClearIInv
  <1> QED BY <1>4, <1>5 DEF FilesIInv

LEMMA WorkerKeepsFiles ==
    ASSUME ManagerTypeOK, FilesIInv, WorkerDrains PROVE FilesIInv'
  <1>1. /\ UNCHANGED <<child, stage, listed, early>>
        /\ file[<<"buffer", Root>>] = "absent" => file'[<<"buffer", Root>>] = "absent"
        /\ \A p \in Pids : p # Root => file'[<<"buffer", p>>] = file[<<"buffer", p>>]
        /\ \A p \in Pids : file'[<<"metadata", p>>] = file[<<"metadata", p>>]
    BY WorkerMovesBuffer
  <1>2. Root \in Pids /\ Strangers \subseteq Pids /\ Root \notin Strangers
    BY ProcessesAssumption DEF Pids
  <1>3. \A f \in Finalizers : early[f] \subseteq Pids
    BY DEF ManagerTypeOK, Pids
  <1>4. RootIInv' /\ StrangersIInv'
    BY <1>1, <1>2 DEF FilesIInv, RootIInv, StrangersIInv, Kinds
  <1>5. ClearIInv'
    BY <1>1, <1>2, <1>3 DEF FilesIInv, ClearIInv, Kinds
  <1> QED BY <1>4, <1>5 DEF FilesIInv

LEMMA FinalizerKeepsFiles ==
    ASSUME ManagerTypeOK, FilesIInv, NEW f \in Finalizers, FinalizerNext(f)
    PROVE  FilesIInv'
  <1>0. /\ Root \in Pids /\ Strangers \subseteq Pids /\ Root \notin Strangers
        /\ \A g \in Finalizers : early[g] \subseteq Pids /\ early[g] \cap Strangers = {}
    BY ProcessesAssumption DEF ManagerTypeOK, Pids
  <1>1. ASSUME UNCHANGED <<file, listed, early, child>>,
               \A g \in Finalizers : stage'[g] = stage[g] \/
                 /\ stage'[g] \in Listing => stage[g] \in Listing
                 /\ stage'[g] \in Loading => stage[g] \in Loading
                 /\ stage'[g] # "ended"
        PROVE  FilesIInv'
    BY <1>1 DEF FilesIInv, RootIInv, StrangersIInv, ClearIInv
  <1>2. CASE \/ FinalizeTests(f) \/ FinalizeMarks(f) \/ StopsStorage(f)
             \/ JoinsWorker(f) \/ EndsProcessing(f) \/ Exits(f) \/ Loads(f)
             \/ AddsOwn(f) \/ Processes(f)
    <2>1. UNCHANGED <<file, listed, early, child>>
      BY <1>2 DEF FinalizeTests, FinalizeMarks, StopsStorage, JoinsWorker,
                  EndsProcessing, Exits, Loads, AddsOwn, Processes, Moves
    <2>2. \/ UNCHANGED stage
          \/ \E from, to : /\ Moves(f, from, to)
                           /\ to \in Listing => from \in Listing
                           /\ to \in Loading => from \in Loading
                           /\ to # "ended"
      BY <1>2 DEF FinalizeTests, FinalizeMarks, StopsStorage, JoinsWorker,
                  EndsProcessing, Exits, Loads, AddsOwn, Processes, Listing, Loading
    <2> QED BY <1>1, <2>1, <2>2, MovesStage
  <1>3. CASE ListBegins(f)
    <2>1. /\ UNCHANGED <<file, child>> /\ Moves(f, "list", "listing")
          /\ listed' = [listed EXCEPT ![f] = Present]
          /\ early' = [early EXCEPT ![f] = {c \in Children : child[c] = "ended"}]
      BY <1>3 DEF ListBegins, Moves
    <2>2. /\ stage'[f] = "listing" /\ \A g \in Finalizers : g # f => stage'[g] = stage[g]
      BY <2>1, MovesStage
    <2>3. /\ listed'[f] = Present /\ \A g \in Finalizers : g # f => listed'[g] = listed[g]
          /\ early'[f] = {c \in Children : child[c] = "ended"}
          /\ \A g \in Finalizers : g # f => early'[g] = early[g]
      BY <2>1 DEF ManagerTypeOK
    <2>4. \A p \in Pids, k \in Kinds : file[<<k, p>>] = "absent" \/ <<k, p>> \in Present
      BY DEF Present, Files, Kinds
    <2>5. <<"metadata", Root>> \notin Present
      BY DEF FilesIInv, RootIInv, Present
    <2>6. RootIInv'
      BY <2>1, <2>3, <2>5 DEF FilesIInv, RootIInv
    <2>7. StrangersIInv'
      BY <2>1, <2>2, <2>3 DEF FilesIInv, StrangersIInv, Loading
    <2>8. ClearIInv'
      BY <1>0, <2>1, <2>2, <2>3, <2>4 DEF FilesIInv, ClearIInv, Pids
    <2> QED BY <2>6, <2>7, <2>8 DEF FilesIInv
  <1>4. CASE ListEnds(f)
    <2>1. PICK now \in SUBSET ((listed[f] \ Present) \cup (Present \ listed[f])) :
            listed' = [listed EXCEPT ![f] = CacheFiles((listed[f] \cap Present) \cup now)]
      BY <1>4 DEF ListEnds
    <2>2. UNCHANGED <<file, early, child>> /\ Moves(f, "listing", "load")
      BY <1>4 DEF ListEnds, Moves
    <2>3. /\ stage[f] = "listing" /\ stage'[f] = "load"
          /\ \A g \in Finalizers : g # f => stage'[g] = stage[g]
      BY <2>2, MovesStage
    <2>4. /\ listed'[f] = CacheFiles((listed[f] \cap Present) \cup now)
          /\ \A g \in Finalizers : g # f => listed'[g] = listed[g]
      BY <2>1 DEF ManagerTypeOK
    <2>5. listed'[f] \subseteq listed[f] \cup Present
      BY <2>4 DEF CacheFiles
    <2>6. \A s \in Strangers, k \in Kinds : <<k, s>> \notin listed'[f]
      BY <2>4 DEF CacheFiles
    <2>7. \A p \in Pids \ Strangers, k \in Kinds :
            <<k, p>> \in listed[f] /\ file[<<k, p>>] # "absent" => <<k, p>> \in listed'[f]
      BY <2>4 DEF CacheFiles, Present, Files, Kinds
    <2>8. RootIInv'
      BY <2>2, <2>4, <2>5 DEF FilesIInv, RootIInv, Present
    <2>9. StrangersIInv'
      BY <2>2, <2>3, <2>4, <2>6 DEF FilesIInv, StrangersIInv
    <2>10. ClearIInv'
      <3>1. \A p \in early[f] \cup {Root} : p \in Pids \ Strangers
        BY <1>0
      <3> QED BY <2>2, <2>3, <2>4, <2>7, <3>1 DEF FilesIInv, ClearIInv, Listing
    <2> QED BY <2>8, <2>9, <2>10 DEF FilesIInv
  <1>5. CASE Clears(f)
    <2>1. UNCHANGED <<early, child>>
      BY <1>5 DEF Clears, Moves
    <2>2. ASSUME NEW n \in listed[f], Moves(f, "clear", "clear"),
                 file' = [file EXCEPT ![n] = "absent"],
                 listed' = [listed EXCEPT ![f] = @ \ {n}]
          PROVE  FilesIInv'
      <3>1. stage[f] = "clear" /\ \A g \in Finalizers : stage'[g] = stage[g]
        BY <2>2, MovesStage
      <3>2. n \in Files /\ file'[n] = "absent" /\ \A m \in Files : m # n => file'[m] = file[m]
        BY <2>2 DEF ManagerTypeOK
      <3>3. /\ \A g \in Finalizers : listed'[g] \subseteq listed[g]
            /\ \A g \in Finalizers : listed[g] \subseteq listed'[g] \cup {n}
        BY <2>2 DEF ManagerTypeOK
      <3>4. \A p \in Pids, k \in Kinds : <<k, p>> \in Files
        BY DEF Files, Kinds
      <3>5. RootIInv'
        BY <1>0, <3>2, <3>3, <3>4 DEF FilesIInv, RootIInv, Kinds
      <3>6. StrangersIInv'
        <4>1. \A s \in Strangers, k \in Kinds : <<k, s>> # n
          BY <3>1 DEF FilesIInv, StrangersIInv, Loading
        <4> QED BY <1>0, <3>1, <3>2, <3>3, <3>4, <4>1 DEF FilesIInv, StrangersIInv
      <3>7. ClearIInv'
        BY <1>0, <2>1, <3>1, <3>2, <3>3, <3>4 DEF FilesIInv, ClearIInv
      <3> QED BY <3>5, <3>6, <3>7 DEF FilesIInv
    <2>3. ASSUME listed[f] = {}, Moves(f, "clear", "ended"), UNCHANGED <<file, listed>>
          PROVE  FilesIInv'
      <3>1. /\ stage[f] = "clear" /\ stage'[f] = "ended"
            /\ \A g \in Finalizers : g # f => stage'[g] = stage[g]
        BY <2>3, MovesStage
      <3> QED BY <2>1, <2>3, <3>1 DEF FilesIInv, RootIInv, StrangersIInv, ClearIInv,
                                      Listing, Loading
    <2> QED BY <1>5, <2>2, <2>3 DEF Clears, Cleared
  <1> QED BY <1>2, <1>3, <1>4, <1>5 DEF FinalizerNext

-----------------------------------------------------------------------------
(* The configurations, the reports and the children's files *)

\* The stages from which and to which each action of a finalizer leads, when it leaves
\* the configurations and the reports alone.
LEMMA QuietMoves ==
    ASSUME ManagerTypeOK, NEW f \in Finalizers,
           \/ FinalizeTests(f) \/ FinalizeMarks(f) \/ StopsStorage(f) \/ JoinsWorker(f)
           \/ ListBegins(f) \/ ListEnds(f) \/ Clears(f) \/ Exits(f)
    PROVE  /\ UNCHANGED <<configs, reports>>
           /\ \A g \in Finalizers : g # f => stage'[g] = stage[g]
           /\ stage'[f] \in Loading \ {"load"} <=> stage[f] \in Loading \ {"load"}
           /\ stage'[f] \in Clearing <=> stage[f] \in Clearing
           /\ stage[f] \in Loading => stage'[f] \in Loading
           /\ stage'[f] = "load" => stage[f] \in {"listing", "load"}
  <1>1. UNCHANGED <<configs, reports>>
    BY DEF FinalizeTests, FinalizeMarks, StopsStorage, JoinsWorker, ListBegins,
           ListEnds, Clears, Exits
  <1>2. \/ UNCHANGED stage
        \/ \E from, to : /\ Moves(f, from, to)
                         /\ to \in Loading \ {"load"} <=> from \in Loading \ {"load"}
                         /\ to \in Clearing <=> from \in Clearing
                         /\ from \in Loading => to \in Loading
                         /\ to = "load" => from \in {"listing", "load"}
    BY DEF FinalizeTests, FinalizeMarks, StopsStorage, JoinsWorker, ListBegins,
           ListEnds, Clears, Exits, Loading, Clearing
  <1> QED BY <1>1, <1>2, MovesStage

LEMMA FinalizerKeepsConfigs ==
    ASSUME ManagerTypeOK, RootIInv, ConfigsIInv, NEW f \in Finalizers, FinalizerNext(f)
    PROVE  ConfigsIInv'
  <1>1. CASE \/ FinalizeTests(f) \/ FinalizeMarks(f) \/ StopsStorage(f)
             \/ JoinsWorker(f) \/ ListBegins(f) \/ ListEnds(f) \/ Clears(f) \/ Exits(f)
    <2>1. /\ UNCHANGED configs
          /\ \A g \in Finalizers : g # f => stage'[g] = stage[g]
          /\ stage[f] \in Loading => stage'[f] \in Loading
          /\ stage'[f] = "load" => stage[f] \in {"listing", "load"}
      BY <1>1, QuietMoves
    <2> QED BY <2>1 DEF ConfigsIInv, Loading
  <1>2. CASE Loads(f)
    <2>1. PICK p \in Pids \ Loaded(f) :
            /\ HasPair(listed[f], p) /\ Moves(f, "load", "load")
            /\ configs' = [configs EXCEPT ![f] = @ \cup
                 {[pid |-> p, own |-> FALSE, metadata |-> file[<<"metadata", p>>]]}]
      BY <1>2 DEF Loads
    <2>2. stage[f] = "load" /\ \A g \in Finalizers : stage'[g] = stage[g]
      BY <2>1, MovesStage
    <2>3. p # Root /\ \A g \in configs[f] : g.pid # p
      BY <2>1 DEF HasPair, RootIInv, Loaded
    <2> DEFINE new == [pid |-> p, own |-> FALSE, metadata |-> file[<<"metadata", p>>]]
    <2>4. new.pid = p
      OBVIOUS
    <2> HIDE DEF new
    <2>5. /\ configs'[f] = configs[f] \cup {new}
          /\ \A g \in Finalizers : g # f => configs'[g] = configs[g]
      BY <2>1 DEF new, ManagerTypeOK
    <2> QED BY <2>2, <2>3, <2>4, <2>5 DEF ConfigsIInv, Loading
  <1>3. CASE AddsOwn(f)
    <2> DEFINE new == [pid |-> Root, own |-> TRUE, metadata |-> "whole"]
    <2>1. new.pid = Root
      OBVIOUS
    <2>2. Moves(f, "load", "parse") /\ configs' = [configs EXCEPT ![f] = @ \cup {new}]
      BY <1>3 DEF AddsOwn
    <2> HIDE DEF new
    <2>3. /\ stage[f] = "load" /\ stage'[f] = "parse"
          /\ \A g \in Finalizers : g # f => stage'[g] = stage[g]
      BY <2>2, MovesStage
    <2>4. /\ configs'[f] = configs[f] \cup {new}
          /\ \A g \in Finalizers : g # f => configs'[g] = configs[g]
      BY <2>2 DEF ManagerTypeOK
    <2> QED BY <2>1, <2>3, <2>4 DEF ConfigsIInv, Loading
  <1>4. CASE Processes(f) \/ EndsProcessing(f)
    <2>1. UNCHANGED configs /\ \E to \in {"parse", "clear"} : Moves(f, "parse", to)
      BY <1>4 DEF Processes, EndsProcessing
    <2>2. /\ stage[f] = "parse" /\ stage'[f] \in {"parse", "clear"}
          /\ \A g \in Finalizers : g # f => stage'[g] = stage[g]
      BY <2>1, MovesStage
    <2> QED BY <2>1, <2>2 DEF ConfigsIInv, Loading
  <1> QED BY <1>1, <1>2, <1>3, <1>4 DEF FinalizerNext

LEMMA FinalizerKeepsReports ==
    ASSUME ManagerTypeOK, ReportsIInv, NEW f \in Finalizers, FinalizerNext(f)
    PROVE  ReportsIInv'
  <1>0. \A r \in reports : r.by \in Finalizers
    BY DEF ManagerTypeOK
  <1>1. CASE \/ FinalizeTests(f) \/ FinalizeMarks(f) \/ StopsStorage(f)
             \/ JoinsWorker(f) \/ ListBegins(f) \/ ListEnds(f) \/ Clears(f) \/ Exits(f)
    <2>1. /\ UNCHANGED <<configs, reports>>
          /\ \A g \in Finalizers : g # f => stage'[g] = stage[g]
          /\ stage'[f] \in Loading \ {"load"} <=> stage[f] \in Loading \ {"load"}
          /\ stage'[f] \in Clearing <=> stage[f] \in Clearing
      BY <1>1, QuietMoves
    <2>2. \A g \in Finalizers : /\ stage'[g] \in Reporting <=> stage[g] \in Reporting
                                /\ stage'[g] \in Clearing <=> stage[g] \in Clearing
      BY <2>1 DEF Loading, Reporting
    <2> QED BY <1>0, <2>1, <2>2 DEF ReportsIInv, Done
  <1>2. CASE Loads(f) \/ AddsOwn(f)
    <2>1. /\ \E to \in {"load", "parse"} : Moves(f, "load", to)
          /\ \E S : configs' = [configs EXCEPT ![f] = S]
          /\ UNCHANGED reports
      BY <1>2 DEF Loads, AddsOwn
    <2>2. /\ stage[f] = "load" /\ stage'[f] \in {"load", "parse"}
          /\ \A g \in Finalizers : g # f =>
               stage'[g] = stage[g] /\ configs'[g] = configs[g]
      BY <2>1, MovesStage DEF ManagerTypeOK
    <2> QED BY <1>0, <2>1, <2>2 DEF ReportsIInv, Done, Reporting, Clearing
  <1>3. CASE EndsProcessing(f)
    <2>1. /\ UNCHANGED <<configs, reports>> /\ Moves(f, "parse", "clear")
          /\ \A format \in Formats : configs[f] \subseteq Done(f, format)
      BY <1>3 DEF EndsProcessing
    <2>2. /\ stage'[f] = "clear"
          /\ \A g \in Finalizers : g # f => stage'[g] = stage[g]
      BY <2>1, MovesStage
    <2> QED BY <1>0, <2>1, <2>2 DEF ReportsIInv, Done, Reporting, Clearing
  <1>4. CASE Processes(f)
    <2>1. PICK format \in Formats, g \in configs[f] :
            /\ g \notin Done(f, format) /\ Moves(f, "parse", "parse")
            /\ reports' = reports \cup {[by |-> f, format |-> format, config |-> g,
                                         buffer |-> file[<<"buffer", g.pid>>]]}
      BY <1>4 DEF Processes
    <2>2. stage[f] = "parse" /\ \A h \in Finalizers : stage'[h] = stage[h]
      BY <2>1, MovesStage
    <2>3. UNCHANGED configs
      BY <1>4 DEF Processes
    <2> DEFINE new == [by |-> f, format |-> format, config |-> g,
                       buffer |-> file[<<"buffer", g.pid>>]]
    <2>4. new.by = f /\ new.format = format /\ new.config = g
      OBVIOUS
    <2>5. reports' = reports \cup {new}
      BY <2>1
    <2> HIDE DEF new
    <2>6. \A r \in reports : ~(r.by = f /\ r.format = format /\ r.config = g)
      BY <2>1 DEF Done
    <2>7. \A r \in reports' : stage'[r.by] \in Reporting /\ r.config \in configs'[r.by]
      BY <1>0, <2>2, <2>3, <2>4, <2>5 DEF ReportsIInv, Reporting
    <2>8. \A r, s \in reports' :
            r.by = s.by /\ r.format = s.format /\ r.config = s.config => r = s
      BY <2>4, <2>5, <2>6 DEF ReportsIInv
    <2>9. \A h \in Finalizers, fmt \in Formats : Done(h, fmt) \subseteq Done(h, fmt)'
      BY <2>5 DEF Done
    <2> QED BY <2>2, <2>3, <2>7, <2>8, <2>9 DEF ReportsIInv
  <1> QED BY <1>1, <1>2, <1>3, <1>4 DEF FinalizerNext

LEMMA ChildKeepsKeep ==
    ASSUME ManagerTypeOK, KeepIInv, NEW c \in Children, ChildNext(c) PROVE KeepIInv'
  <1>1. /\ UNCHANGED stage
        /\ \A d \in Children : d # c => child'[d] = child[d]
        /\ \A p \in Pids, k \in Kinds : p # c => file'[<<k, p>>] = file[<<k, p>>]
    BY ChildMovesItself
  <1>2. Children \subseteq Pids
    BY DEF Pids
  <1>3. SUFFICES ASSUME \A f \in Finalizers : stage[f] \notin Clearing
                 PROVE  /\ child'[c] = "tracing" => file'[<<"buffer", c>>] # "absent"
                        /\ child'[c] \in {"drained", "saving", "ended"} =>
                             file'[<<"buffer", c>>] = "whole"
                        /\ child'[c] = "saving" => file'[<<"metadata", c>>] # "absent"
                        /\ child'[c] = "ended" => file'[<<"metadata", c>>] = "whole"
    BY <1>1, <1>2 DEF KeepIInv, Kinds
  <1>4. /\ child[c] = "tracing" => file[<<"buffer", c>>] # "absent"
        /\ child[c] \in {"drained", "saving", "ended"} => file[<<"buffer", c>>] = "whole"
        /\ child[c] = "saving" => file[<<"metadata", c>>] # "absent"
    BY <1>3 DEF KeepIInv
  <1>5. <<"buffer", c>> \in Files /\ <<"metadata", c>> \in Files
    BY <1>2, FilesOfPids
  <1>6. CASE ChildStarts(c) \/ ChildDrains(c)
    BY <1>4, <1>5, <1>6 DEF ChildStarts, ChildDrains, ChildMoves, Completed, ManagerTypeOK
  <1>7. CASE ChildOpensMetadata(c) \/ ChildSavesMetadata(c) \/ ChildDies(c)
    BY <1>4, <1>5, <1>7 DEF ChildOpensMetadata, ChildSavesMetadata, ChildDies,
                            ChildMoves, Completed, ManagerTypeOK
  <1> QED BY <1>6, <1>7 DEF ChildNext

LEMMA WorkerKeepsKeep ==
    ASSUME ManagerTypeOK, KeepIInv, WorkerDrains PROVE KeepIInv'
  <1>1. /\ UNCHANGED <<child, stage>>
        /\ \A p \in Pids : p # Root => file'[<<"buffer", p>>] = file[<<"buffer", p>>]
        /\ \A p \in Pids : file'[<<"metadata", p>>] = file[<<"metadata", p>>]
    BY WorkerMovesBuffer
  <1>2. \A c \in Children : c \in Pids /\ c # Root
    BY ProcessesAssumption DEF Pids
  <1> QED BY <1>1, <1>2 DEF KeepIInv

LEMMA FinalizerKeepsKeep ==
    ASSUME ManagerTypeOK, KeepIInv, NEW f \in Finalizers, FinalizerNext(f)
    PROVE  KeepIInv'
  <1>1. CASE Clears(f)
    <2>1. \E to \in Clearing : Moves(f, "clear", to)
      BY <1>1 DEF Clears, Clearing
    <2>2. stage'[f] \in Clearing
      BY <2>1, MovesStage
    <2> QED BY <2>2 DEF KeepIInv
  <1>2. CASE ~Clears(f)
    <2>1. UNCHANGED <<file, child>>
      BY <1>2 DEF FinalizerNext, FinalizeTests, FinalizeMarks, StopsStorage, JoinsWorker,
                  ListBegins, ListEnds, Loads, AddsOwn, Processes, EndsProcessing,
                  Exits, Moves
    <2>2. CASE Loads(f) \/ AddsOwn(f) \/ Processes(f) \/ EndsProcessing(f)
      <3>1. \E from \in {"load", "parse"} : \E to : Moves(f, from, to)
        BY <2>2 DEF Loads, AddsOwn, Processes, EndsProcessing
      <3>2. /\ stage[f] \notin Clearing
            /\ \A g \in Finalizers : g # f => stage'[g] = stage[g]
        BY <3>1, MovesStage DEF Clearing
      <3> QED BY <2>1, <3>2 DEF KeepIInv
    <2>3. CASE \/ FinalizeTests(f) \/ FinalizeMarks(f) \/ StopsStorage(f)
               \/ JoinsWorker(f) \/ ListBegins(f) \/ ListEnds(f) \/ Exits(f)
      BY <2>1, <2>3, QuietMoves DEF KeepIInv
    <2> QED BY <1>2, <2>2, <2>3 DEF FinalizerNext
  <1> QED BY <1>1, <1>2

-----------------------------------------------------------------------------
(* The one thread that finalizes *)

\* A thread that has begun to finalize does not go back.
LEMMA BusyKept ==
    ASSUME ManagerTypeOK, NEW f \in Finalizers, FinalizerNext(f)
    PROVE  /\ \A g \in Finalizers : g # f => stage'[g] = stage[g]
           /\ f \in Busy => f \in Busy'
           /\ Alone' => Alone
  <1>1. \/ UNCHANGED stage
        \/ \E from, to : Moves(f, from, to) /\ (from # "run" => to \notin {"run", "skipped"})
    <2>1. CASE FinalizeTests(f)
      <3>1. \E to : Moves(f, "run", to)
        BY <2>1 DEF FinalizeTests
      <3> QED BY <3>1
    <2>2. CASE FinalizeMarks(f) \/ JoinsWorker(f) \/ ListBegins(f) \/ ListEnds(f)
      <3>1. \E to \in {"stop", "list", "listing", "load"} : \E from : Moves(f, from, to)
        BY <2>2 DEF FinalizeMarks, JoinsWorker, ListBegins, ListEnds
      <3> QED BY <3>1
    <2>3. CASE StopsStorage(f)
      <3>1. \E to \in {"wait", "list"} : Moves(f, "stop", to)
        BY <2>3 DEF StopsStorage
      <3> QED BY <3>1
    <2>4. CASE \/ Loads(f) \/ AddsOwn(f) \/ Processes(f) \/ EndsProcessing(f)
               \/ Clears(f) \/ Exits(f)
      <3>1. \/ \E to \in {"load", "parse", "clear", "ended"} : \E from : Moves(f, from, to)
            \/ UNCHANGED stage
        BY <2>4 DEF Loads, AddsOwn, Processes, EndsProcessing, Clears, Exits
      <3> QED BY <3>1
    <2> QED BY <2>1, <2>2, <2>3, <2>4 DEF FinalizerNext
  <1>2. /\ \A g \in Finalizers : g # f => stage'[g] = stage[g]
        /\ f \in Busy => f \in Busy'
    BY <1>1, MovesStage DEF Busy
  <1>3. Busy \subseteq Busy'
    BY <1>2 DEF Busy
  <1>4. Alone' => Alone
    BY <1>3 DEF Alone
  <1> QED BY <1>2, <1>4

LEMMA OthersIdle ==
    ASSUME Alone, NEW f \in Finalizers, stage[f] \notin {"run", "skipped"},
           NEW g \in Finalizers, g # f
    PROVE  stage[g] \in {"run", "skipped"}
  BY DEF Alone, Busy

LEMMA FinalizerKeepsStorage ==
    ASSUME ManagerTypeOK, StorageIInv, NEW f \in Finalizers, FinalizerNext(f)
    PROVE  StorageIInv'
  <1>0. /\ \A g \in Finalizers : g # f => stage'[g] = stage[g]
        /\ Alone' => Alone
    BY BusyKept
  <1>1. ASSUME UNCHANGED <<storage, file, reports>>,
               stage[f] \notin Storing => stage'[f] \notin Storing,
               stage'[f] \in Listing \cup {"list"} => stage[f] \in Listing \cup {"list"},
               stage'[f] \notin Storing \cup Clearing => stage[f] \notin Storing \cup Clearing
        PROVE  StorageIInv'
    BY <1>0, <1>1 DEF StorageIInv
  <1>2. CASE \/ FinalizeTests(f) \/ FinalizeMarks(f) \/ ListBegins(f) \/ ListEnds(f)
             \/ Loads(f) \/ AddsOwn(f) \/ EndsProcessing(f) \/ Exits(f)
    <2>1. UNCHANGED <<storage, file, reports>>
      BY <1>2 DEF FinalizeTests, FinalizeMarks, ListBegins, ListEnds, Loads, AddsOwn,
                  EndsProcessing, Exits
    <2>2. CASE Exits(f)
      BY <1>1, <2>1, <2>2 DEF Exits
    <2>3. CASE FinalizeTests(f) \/ FinalizeMarks(f)
      <3>1. stage[f] \in Storing /\ stage'[f] \in Storing
        BY <2>3, MovesStage DEF FinalizeTests, FinalizeMarks, Storing
      <3>2. stage'[f] \notin Listing \cup {"list"}
        BY <3>1 DEF Storing, Listing
      <3> QED BY <1>1, <2>1, <3>1, <3>2
    <2>4. CASE \/ ListBegins(f) \/ ListEnds(f) \/ Loads(f) \/ AddsOwn(f)
               \/ EndsProcessing(f)
      <3>1. \E from \in {"list", "listing", "load", "parse"},
               to \in {"listing", "load", "parse", "clear"} : Moves(f, from, to)
        BY <2>4 DEF ListBegins, ListEnds, Loads, AddsOwn, EndsProcessing
      <3>2. /\ stage[f] \in {"list", "listing", "load", "parse"}
            /\ stage'[f] \in {"listing", "load", "parse", "clear"}
        BY <3>1, MovesStage
      <3> QED BY <1>1, <2>1, <3>2 DEF Storing, Listing, Clearing
    <2> QED BY <1>2, <2>2, <2>3, <2>4
  <1>3. CASE StopsStorage(f)
    <2>1. /\ UNCHANGED <<file, reports>>
          /\ storage' = IF storage = "running" THEN "stopping" ELSE storage
          /\ Moves(f, "stop", IF storage = "running" THEN "wait" ELSE "list")
      BY <1>3 DEF StopsStorage
    <2>2. /\ stage[f] = "stop"
          /\ stage'[f] = IF storage = "running" THEN "wait" ELSE "list"
      BY <2>1, MovesStage
    <2>3. CASE storage = "running"
      <3>1. storage' = "stopping" /\ stage'[f] = "wait"
        BY <2>1, <2>2, <2>3
      <3>2. \E g \in Finalizers : stage'[g] \notin Storing
        BY <3>1 DEF Storing
      <3>3. ASSUME Alone'
            PROVE  /\ file'[<<"buffer", Root>>] = "partial"
                   /\ \A g \in Finalizers : stage'[g] \notin Listing \cup {"list"}
                   /\ \A r \in reports' : r.config.pid = Root => r.buffer = "whole"
        <4>1. \A g \in Finalizers : g # f => stage'[g] \in {"run", "skipped"}
          BY <1>0, <2>2, <3>3, OthersIdle
        <4> QED BY <1>0, <2>1, <2>3, <3>1, <3>3, <4>1 DEF StorageIInv, Listing
      <3> QED BY <3>1, <3>2, <3>3 DEF StorageIInv
    <2>4. CASE storage # "running"
      <3>1. PICK g \in Finalizers : stage[g] \notin Storing
        BY <2>4 DEF StorageIInv
      <3>2. g # f /\ stage[g] \notin {"run", "skipped"} /\ stage'[g] \notin Storing
        BY <1>0, <2>2, <3>1 DEF Storing
      <3>3. ~Alone'
        BY <1>0, <2>2, <3>2, OthersIdle
      <3> QED BY <3>2, <3>3 DEF StorageIInv
    <2> QED BY <2>3, <2>4
  <1>4. CASE JoinsWorker(f)
    <2>1. UNCHANGED <<storage, file, reports>> /\ storage = "stopped"
      BY <1>4 DEF JoinsWorker
    <2>2. stage[f] = "wait" /\ stage'[f] = "list"
      BY <1>4, MovesStage DEF JoinsWorker
    <2> QED BY <1>0, <2>1, <2>2 DEF StorageIInv, Storing, Clearing
  <1>5. CASE Processes(f)
    <2>1. PICK format \in Formats, g \in configs[f] :
            reports' = reports \cup {[by |-> f, format |-> format, config |-> g,
                                      buffer |-> file[<<"buffer", g.pid>>]]}
      BY <1>5 DEF Processes
    <2>2. UNCHANGED <<storage, file>> /\ Moves(f, "parse", "parse")
      BY <1>5 DEF Processes
    <2>3. stage[f] = "parse" /\ \A h \in Finalizers : stage'[h] = stage[h]
      BY <2>2, MovesStage
    <2>4. Alone => file[<<"buffer", Root>>] = "whole"
      BY <2>3 DEF StorageIInv, Listing, Storing, Clearing
    <2>5. Alone' => \A r \in reports' : r.config.pid = Root => r.buffer = "whole"
      BY <1>0, <2>1, <2>4 DEF StorageIInv
    <2> QED BY <1>0, <2>2, <2>3, <2>5 DEF StorageIInv
  <1>6. CASE Clears(f)
    <2>1. UNCHANGED <<storage, reports>> /\ \E to \in Clearing : Moves(f, "clear", to)
      BY <1>6 DEF Clears, Clearing
    <2>2. stage[f] = "clear" /\ stage'[f] \in Clearing
      BY <2>1, MovesStage
    <2>3. Alone' => storage = "stopped"
      BY <1>0, <2>2 DEF StorageIInv, Listing
    <2>4. ASSUME Alone', NEW g \in Finalizers, stage'[g] \notin Storing \cup Clearing
          PROVE  FALSE
      <3>1. g # f
        BY <2>2, <2>4
      <3>2. stage'[g] \in {"run", "skipped"}
        BY <1>0, <2>2, <2>4, <3>1, OthersIdle
      <3> QED BY <2>4, <3>2 DEF Storing
    <2>5. \E g \in Finalizers : stage'[g] \notin Storing
      BY <2>2 DEF Clearing, Storing
    <2> QED BY <1>0, <2>1, <2>3, <2>4, <2>5 DEF StorageIInv
  <1> QED BY <1>2, <1>3, <1>4, <1>5, <1>6 DEF FinalizerNext

LEMMA WorkerKeepsStorage ==
    ASSUME ManagerTypeOK, StorageIInv, WorkerDrains PROVE StorageIInv'
  <1>1. /\ UNCHANGED <<stage, reports>>
        /\ storage = "stopping" /\ storage' = "stopped"
        /\ file[<<"buffer", Root>>] # "absent" => file'[<<"buffer", Root>>] = "whole"
    BY WorkerMovesBuffer
  <1>2. Alone' <=> Alone
    BY <1>1 DEF Alone, Busy
  <1> QED BY <1>1, <1>2 DEF StorageIInv

LEMMA ChildKeepsStorage ==
    ASSUME ManagerTypeOK, StorageIInv, NEW c \in Children, ChildNext(c)
    PROVE  StorageIInv'
  <1>1. /\ UNCHANGED <<storage, stage, reports>>
        /\ file'[<<"buffer", Root>>] = file[<<"buffer", Root>>]
    BY ChildMovesItself DEF Pids, Kinds
  <1>2. Alone' <=> Alone
    BY <1>1 DEF Alone, Busy
  <1> QED BY <1>1, <1>2 DEF StorageIInv

\* While one thread finalizes nobody clears the directory before it does: the files of
\* the children that had ended are there, and whole.
LEMMA EarlyFilesStay ==
    ASSUME ManagerTypeOK, FilesIInv, KeepIInv, Alone, NEW f \in Finalizers,
           stage[f] \in {"list", "listing", "load", "parse"}, NEW c \in Children,
           child[c] = "ended"
    PROVE  /\ file[<<"buffer", c>>] = "whole" /\ file[<<"metadata", c>>] = "whole"
           /\ HasPair(Present, c)
  <1>1. \A g \in Finalizers : stage[g] \notin Clearing
    BY OthersIdle DEF Clearing
  <1>2. file[<<"buffer", c>>] = "whole" /\ file[<<"metadata", c>>] = "whole"
    BY <1>1 DEF KeepIInv
  <1>3. c \in Pids
    BY DEF Pids
  <1> QED BY <1>2, <1>3, FilesOfPids DEF HasPair, Present

LEMMA FinalizerKeepsEarly ==
    ASSUME ManagerTypeOK, BooksIInv, EarlyIInv, NEW f \in Finalizers, FinalizerNext(f)
    PROVE  EarlyIInv'
  <1> SUFFICES ASSUME Alone' PROVE EarlyIInv'
    BY DEF EarlyIInv
  <1>0. /\ \A g \in Finalizers : g # f => stage'[g] = stage[g]
        /\ Alone
        /\ \A r \in reports : r.by \in Finalizers
    BY BusyKept DEF ManagerTypeOK
  <1>e. /\ FilesIInv /\ ConfigsIInv /\ ReportsIInv /\ KeepIInv /\ RootIInv
        /\ \A g \in Finalizers : /\ early[g] \subseteq Children
                                 /\ \A c \in early[g] : child[c] = "ended"
    BY DEF BooksIInv, FilesIInv, ClearIInv, ManagerTypeOK
  <1>1. ASSUME UNCHANGED <<early, configs, reports>>,
               \A g \in Finalizers : g # f => listed'[g] = listed[g],
               stage'[f] \in {"listing", "load", "parse"} =>
                 /\ stage[f] \in {"listing", "load", "parse"}
                 /\ listed'[f] = listed[f],
               stage'[f] \in Reporting => stage[f] \in Reporting
        PROVE  EarlyIInv'
    BY <1>0, <1>1 DEF EarlyIInv
  <1>2. CASE \/ FinalizeTests(f) \/ FinalizeMarks(f) \/ StopsStorage(f)
             \/ JoinsWorker(f) \/ EndsProcessing(f) \/ Exits(f)
    <2>1. UNCHANGED <<early, configs, reports, listed>>
      BY <1>2 DEF FinalizeTests, FinalizeMarks, StopsStorage, JoinsWorker,
                  EndsProcessing, Exits
    <2>2. CASE Exits(f)
      BY <1>1, <2>1, <2>2 DEF Exits
    <2>3. CASE EndsProcessing(f)
      <3>1. stage[f] = "parse" /\ stage'[f] = "clear"
        BY <2>3, MovesStage DEF EndsProcessing
      <3> QED BY <1>1, <2>1, <3>1 DEF Reporting
    <2>4. CASE \/ FinalizeTests(f) \/ FinalizeMarks(f) \/ StopsStorage(f) \/ JoinsWorker(f)
      <3>1. \E to \in {"mark", "skipped", "stop", "wait", "list"} : \E from :
              Moves(f, from, to)
        BY <2>4 DEF FinalizeTests, FinalizeMarks, StopsStorage, JoinsWorker
      <3>2. stage'[f] \in {"mark", "skipped", "stop", "wait", "list"}
        BY <3>1, MovesStage
      <3> QED BY <1>1, <2>1, <3>2 DEF Reporting
    <2> QED BY <1>2, <2>2, <2>3, <2>4
  <1>3. CASE ListBegins(f)
    <2>1. /\ UNCHANGED <<configs, reports, child>> /\ Moves(f, "list", "listing")
          /\ listed' = [listed EXCEPT ![f] = Present]
          /\ early' = [early EXCEPT ![f] = {c \in Children : child[c] = "ended"}]
      BY <1>3 DEF ListBegins, Moves
    <2>2. stage[f] = "list" /\ stage'[f] = "listing"
      BY <2>1, MovesStage
    <2>3. /\ listed'[f] = Present /\ \A g \in Finalizers : g # f => listed'[g] = listed[g]
          /\ early'[f] = {c \in Children : child[c] = "ended"}
          /\ \A g \in Finalizers : g # f => early'[g] = early[g]
      BY <2>1 DEF ManagerTypeOK
    <2>4. configs[f] = {} /\ \A r \in reports : r.by # f
      BY <1>e, <2>2 DEF ConfigsIInv, ReportsIInv, Loading, Reporting
    <2>5. \A c \in early'[f] : HasPair(Present, c)
      BY <1>0, <1>e, <2>2, <2>3, EarlyFilesStay
    <2>6. \A g \in Finalizers, c \in Children : c \in early'[g] =>
            /\ stage'[g] \in {"listing", "load", "parse"} => HasPair(listed'[g], c)
            /\ \A h \in configs'[g] : h.pid = c => h.metadata = "whole"
            /\ stage'[g] \in Reporting => \E h \in configs'[g] : h.pid = c
      BY <1>0, <2>1, <2>2, <2>3, <2>4, <2>5 DEF EarlyIInv, Reporting
    <2>7. \A r \in reports' : r.config.pid \in early'[r.by] => r.buffer = "whole"
      BY <1>0, <2>1, <2>3, <2>4 DEF EarlyIInv
    <2> QED BY <2>6, <2>7 DEF EarlyIInv, HasPair
  <1>4. CASE ListEnds(f)
    <2>1. PICK now \in SUBSET ((listed[f] \ Present) \cup (Present \ listed[f])) :
            listed' = [listed EXCEPT ![f] = CacheFiles((listed[f] \cap Present) \cup now)]
      BY <1>4 DEF ListEnds
    <2>2. UNCHANGED <<early, configs, reports>> /\ Moves(f, "listing", "load")
      BY <1>4 DEF ListEnds
    <2>3. stage[f] = "listing" /\ stage'[f] = "load"
      BY <2>2, MovesStage
    <2>4. /\ listed'[f] = CacheFiles((listed[f] \cap Present) \cup now)
          /\ \A g \in Finalizers : g # f => listed'[g] = listed[g]
      BY <2>1 DEF ManagerTypeOK
    <2>5. ASSUME NEW c \in early[f] PROVE HasPair(listed'[f], c)
      <3>1. HasPair(Present, c)
        BY <1>0, <1>e, <2>3, <2>5, EarlyFilesStay
      <3>2. HasPair(listed[f], c)
        BY <1>0, <1>e, <2>3, <2>5 DEF EarlyIInv
      <3>3. c \notin Strangers
        BY <1>e, <2>5, ProcessesAssumption
      <3> QED BY <2>4, <3>1, <3>2, <3>3 DEF HasPair, CacheFiles
    <2> QED BY <1>0, <2>2, <2>3, <2>4, <2>5 DEF EarlyIInv, Reporting, HasPair
  <1>5. CASE Loads(f)
    <2>1. PICK p \in Pids :
            /\ Moves(f, "load", "load")
            /\ configs' = [configs EXCEPT ![f] = @ \cup
                 {[pid |-> p, own |-> FALSE, metadata |-> file[<<"metadata", p>>]]}]
      BY <1>5 DEF Loads
    <2>2. UNCHANGED <<listed, reports, early>>
      BY <1>5 DEF Loads
    <2>3. stage[f] = "load" /\ \A g \in Finalizers : stage'[g] = stage[g]
      BY <2>1, MovesStage
    <2> DEFINE new == [pid |-> p, own |-> FALSE, metadata |-> file[<<"metadata", p>>]]
    <2>4. /\ configs'[f] = configs[f] \cup {new}
          /\ \A g \in Finalizers : g # f => configs'[g] = configs[g]
      BY <2>1 DEF ManagerTypeOK
    <2>5. new.pid \in early[f] => new.metadata = "whole"
      BY <1>0, <1>e, <2>3, EarlyFilesStay
    <2> HIDE DEF new
    <2>6. \A g \in Finalizers, c \in Children : c \in early[g] =>
            \A h \in configs'[g] : h.pid = c => h.metadata = "whole"
      BY <1>0, <2>4, <2>5 DEF EarlyIInv
    <2>7. \A g \in Finalizers : configs[g] \subseteq configs'[g]
      BY <2>4
    <2> QED BY <1>0, <2>2, <2>3, <2>6, <2>7 DEF EarlyIInv, HasPair
  <1>6. CASE AddsOwn(f)
    <2> DEFINE new == [pid |-> Root, own |-> TRUE, metadata |-> "whole"]
    <2>1. /\ Moves(f, "load", "parse") /\ configs' = [configs EXCEPT ![f] = @ \cup {new}]
          /\ UNCHANGED <<listed, reports, early>>
      BY <1>6 DEF AddsOwn
    <2>2. /\ stage[f] = "load" /\ stage'[f] = "parse"
          /\ \A g \in Finalizers : g # f => stage'[g] = stage[g]
      BY <2>1, MovesStage
    <2>3. new.metadata = "whole"
      OBVIOUS
    <2> HIDE DEF new
    <2>4. /\ configs'[f] = configs[f] \cup {new}
          /\ \A g \in Finalizers : g # f => configs'[g] = configs[g]
      BY <2>1 DEF ManagerTypeOK
    <2>5. ASSUME NEW c \in early[f] PROVE \E h \in configs'[f] : h.pid = c
      <3>1. HasPair(listed[f], c) /\ c \in Pids
        BY <1>0, <1>e, <2>2, <2>5 DEF EarlyIInv, Pids
      <3>2. c \in Loaded(f)
        BY <1>6, <3>1 DEF AddsOwn
      <3> QED BY <2>4, <3>2 DEF Loaded
    <2>6. \A g \in Finalizers, c \in Children : c \in early[g] =>
            \A h \in configs'[g] : h.pid = c => h.metadata = "whole"
      BY <1>0, <2>3, <2>4 DEF EarlyIInv
    <2> QED BY <1>0, <2>1, <2>2, <2>4, <2>5, <2>6 DEF EarlyIInv, HasPair
  <1>7. CASE Processes(f)
    <2>1. PICK format \in Formats, g \in configs[f] :
            reports' = reports \cup {[by |-> f, format |-> format, config |-> g,
                                      buffer |-> file[<<"buffer", g.pid>>]]}
      BY <1>7 DEF Processes
    <2>2. UNCHANGED <<listed, configs, early>> /\ Moves(f, "parse", "parse")
      BY <1>7 DEF Processes
    <2>3. stage[f] = "parse" /\ \A h \in Finalizers : stage'[h] = stage[h]
      BY <2>2, MovesStage
    <2>4. g.pid \in early[f] => file[<<"buffer", g.pid>>] = "whole"
      BY <1>0, <1>e, <2>3, EarlyFilesStay
    <2>5. \A r \in reports' : r.config.pid \in early[r.by] => r.buffer = "whole"
      BY <1>0, <2>1, <2>4 DEF EarlyIInv
    <2> QED BY <1>0, <2>2, <2>3, <2>5 DEF EarlyIInv, HasPair
  <1>8. CASE Clears(f)
    <2>1. /\ UNCHANGED <<early, configs, reports>>
          /\ \E to \in Clearing : Moves(f, "clear", to)
          /\ \A g \in Finalizers : g # f => listed'[g] = listed[g]
      BY <1>8 DEF Clears, Clearing, ManagerTypeOK
    <2>2. stage[f] = "clear" /\ stage'[f] \in Clearing
      BY <2>1, MovesStage
    <2> QED BY <1>1, <2>1, <2>2 DEF Clearing, Reporting
  <1> QED BY <1>2, <1>3, <1>4, <1>5, <1>6, <1>7, <1>8 DEF FinalizerNext

LEMMA InitOutputIInv == Init => OutputIInv
  <1> SUFFICES ASSUME Init PROVE OutputIInv
    OBVIOUS
  <1>1. ManagerTypeOK
    BY InitIInv DEF ManagerIInv
  <1>2. \A f \in Finalizers : stage[f] = "run" /\ listed[f] = {} /\ configs[f] = {}
                             /\ early[f] = {}
    BY DEF Init
  <1>3. reports = {} /\ storage = "running" /\ \A c \in Children : child[c] = "spawned"
    BY DEF Init
  <1>4. /\ <<"metadata", Root>> \in Files /\ <<"buffer", Root>> \in Files
        /\ \A s \in Strangers, k \in Kinds : <<k, s>> \in Files
    BY DEF Files, Pids, Kinds
  <1>5. /\ file[<<"metadata", Root>>] = "absent" /\ file[<<"buffer", Root>>] = "partial"
        /\ \A s \in Strangers, k \in Kinds : file[<<k, s>>] = "whole"
    BY <1>4, ProcessesAssumption DEF Init
  <1>6. Busy = {}
    BY <1>2 DEF Busy
  <1>7. FilesIInv
    BY <1>2, <1>5 DEF FilesIInv, RootIInv, StrangersIInv, ClearIInv, Listing
  <1>8. ConfigsIInv /\ ReportsIInv /\ KeepIInv
    BY <1>2, <1>3 DEF ConfigsIInv, ReportsIInv, KeepIInv, Clearing
  <1>9. StorageIInv /\ EarlyIInv
    BY <1>2, <1>3, <1>5 DEF StorageIInv, EarlyIInv, Listing, Storing
  <1> QED BY <1>1, <1>6, <1>7, <1>8, <1>9, FS_EmptySet DEF OutputIInv, BooksIInv

\* The parts that hold of the root process's variables alone.
LEMMA OthersKeepBooks ==
    ASSUME OutputIInv, UNCHANGED <<stage, listed, configs, reports, early>>
    PROVE  ConfigsIInv' /\ ReportsIInv' /\ EarlyIInv' /\ IsFiniteSet(Busy)'
  <1>1. Busy' = Busy /\ (Alone' <=> Alone)
    BY DEF Busy, Alone
  <1>2. ConfigsIInv' /\ ReportsIInv'
    BY DEF OutputIInv, BooksIInv, ConfigsIInv, ReportsIInv, Done
  <1>3. EarlyIInv'
    BY <1>1 DEF OutputIInv, EarlyIInv, HasPair
  <1> QED BY <1>1, <1>2, <1>3 DEF OutputIInv

LEMMA NextOutputIInv == OutputIInv /\ [Next]_vars => OutputIInv'
  <1> SUFFICES ASSUME OutputIInv, [Next]_vars PROVE OutputIInv'
    OBVIOUS
  <1>0. /\ ManagerTypeOK /\ FilesIInv /\ RootIInv /\ ConfigsIInv /\ ReportsIInv
        /\ KeepIInv /\ StorageIInv /\ EarlyIInv /\ BooksIInv /\ IsFiniteSet(Busy)
    BY DEF OutputIInv, BooksIInv, FilesIInv
  <1>1. CASE UNCHANGED vars
    <2>1. /\ UNCHANGED <<file, child, state, storage, alive>>
          /\ UNCHANGED <<stage, listed, configs, reports, early>>
      BY <1>1 DEF vars, rootVars
    <2>2. ManagerTypeOK'
      BY <1>0, <2>1 DEF ManagerTypeOK
    <2>3. FilesIInv' /\ KeepIInv'
      BY <1>0, <2>1 DEF FilesIInv, RootIInv, StrangersIInv, ClearIInv, KeepIInv
    <2>4. StorageIInv'
      BY <1>0, <2>1 DEF StorageIInv, Alone, Busy
    <2> QED BY <2>1, <2>2, <2>3, <2>4, OthersKeepBooks DEF OutputIInv, BooksIInv
  <1>2. CASE WorkerDrains
    <2>1. UNCHANGED <<stage, listed, configs, reports, early>>
      BY <1>0, <1>2, WorkerMovesBuffer
    <2> QED BY <1>0, <1>2, <2>1, DrainKeepsType, WorkerKeepsFiles, WorkerKeepsKeep,
               WorkerKeepsStorage, OthersKeepBooks DEF OutputIInv, BooksIInv
  <1>3. ASSUME NEW c \in Children, ChildNext(c) PROVE OutputIInv'
    <2>1. UNCHANGED <<stage, listed, configs, reports, early>>
      BY <1>0, <1>3, ChildMovesItself
    <2> QED BY <1>0, <1>3, <2>1, ChildKeepsType, ChildKeepsFiles, ChildKeepsKeep,
               ChildKeepsStorage, OthersKeepBooks DEF OutputIInv, BooksIInv
  <1>4. ASSUME NEW f \in Finalizers, FinalizerNext(f) PROVE OutputIInv'
    <2>1. Busy' \subseteq Busy \cup {f}
      BY <1>0, <1>4, BusyKept DEF Busy
    <2>2. IsFiniteSet(Busy')
      BY <1>0, <2>1, FS_AddElement, FS_Subset
    <2> QED BY <1>0, <1>4, <2>2, FinalizerKeepsType, FinalizerKeepsFiles,
               FinalizerKeepsConfigs, FinalizerKeepsReports, FinalizerKeepsKeep,
               FinalizerKeepsStorage, FinalizerKeepsEarly DEF OutputIInv, BooksIInv
  <1> QED BY <1>1, <1>2, <1>3, <1>4 DEF Next

LEMMA AlwaysOutputIInv == Spec => []OutputIInv
  BY InitOutputIInv, NextOutputIInv, PTL DEF Spec

LEMMA OneIsAlone ==
    ASSUME OutputIInv, OneFinalizes PROVE Alone
  <1>1. IsFiniteSet(Busy) /\ Cardinality(Busy) <= 1
    BY DEF OutputIInv, OneFinalizes, Busy
  <1>2. Cardinality(Busy) \in Nat
    BY <1>1, FS_CardinalityType
  <1>3. Cardinality(Busy) = 0 \/ Cardinality(Busy) = 1
    BY <1>1, <1>2
  <1>4. Busy = {} \/ \E x : Busy = {x}
    BY <1>1, <1>3, FS_EmptySet, FS_Singleton
  <1> QED BY <1>4 DEF Alone

-----------------------------------------------------------------------------
(* The theorems *)

\* Type correctness of the bulk post-processing (cache_manager.cpp).
THEOREM ManagerTypeCorrect == Spec => []ManagerTypeOK
  <1>1. ManagerIInv => ManagerTypeOK
    BY DEF ManagerIInv
  <1> QED BY <1>1, AlwaysIInv, PTL

\* process_buffered_storage never parses the storage of a child that still writes it.
THEOREM ChildrenAreReadWhole == Spec => []ChildFilesAreReadWhole
  <1>1. ManagerIInv => ChildFilesAreReadWhole
    BY DEF ManagerIInv, DrainIInv
  <1> QED BY <1>1, AlwaysIInv, PTL

\* finalize_impl and post_process_bulk: while a single thread finalizes, the root
\* process's own storage is parsed after its last flush and before it is removed, and
\* each process is in each output once.
THEOREM OwnTraceIsWhole == Spec => []OwnTraceIsWrittenOnce
  <1>1. OutputIInv => OwnTraceIsWrittenOnce
    <2> SUFFICES ASSUME OutputIInv, OneFinalizes
                 PROVE  /\ \A r \in reports : r.config.pid = Root => r.buffer = "whole"
                        /\ \A r, s \in reports :
                             r.format = s.format /\ r.config.pid = s.config.pid => r = s
      BY DEF OwnTraceIsWrittenOnce
    <2>1. Alone
      BY OneIsAlone
    <2>2. \A r \in reports : r.config.pid = Root => r.buffer = "whole"
      BY <2>1 DEF OutputIInv, StorageIInv
    <2>3. ASSUME NEW r \in reports, NEW s \in reports,
                 r.format = s.format, r.config.pid = s.config.pid
          PROVE  r = s
      <3>1. /\ r.by \in Finalizers /\ stage[r.by] \in Reporting /\ r.config \in configs[r.by]
            /\ s.by \in Finalizers /\ stage[s.by] \in Reporting /\ s.config \in configs[s.by]
        BY DEF OutputIInv, ManagerTypeOK, BooksIInv, ReportsIInv
      <3>2. r.by = s.by
        BY <2>1, <3>1 DEF Alone, Busy, Reporting
      <3>3. r.config = s.config
        BY <2>3, <3>1, <3>2 DEF OutputIInv, BooksIInv, ConfigsIInv
      <3> QED BY <2>3, <3>2, <3>3 DEF OutputIInv, BooksIInv, ReportsIInv
    <2> QED BY <2>2, <2>3
  <1> QED BY <1>1, AlwaysOutputIInv, PTL

\* get_cache_files, create_processor_configs and dispatch_processing lose no child that
\* had ended when the directory was listed: it is in each output, complete.
THEOREM EndedChildrenAreKept == Spec => []EndedChildrenAreReported
  <1>1. OutputIInv => EndedChildrenAreReported
    <2> SUFFICES ASSUME OutputIInv, NEW f \in Finalizers, OneFinalizes,
                        stage[f] \in {"clear", "ended"},
                        NEW c \in early[f], NEW format \in Formats
                 PROVE  \E r \in reports :
                          /\ r.format = format /\ r.buffer = "whole"
                          /\ r.config.pid = c /\ r.config.metadata = "whole"
      BY DEF EndedChildrenAreReported
    <2>1. Alone /\ EarlyIInv /\ c \in Children
      BY OneIsAlone DEF OutputIInv, ManagerTypeOK
    <2>2. PICK g \in configs[f] : g.pid = c
      BY <2>1 DEF EarlyIInv, Reporting
    <2>3. g.metadata = "whole"
      BY <2>1, <2>2 DEF EarlyIInv
    <2>4. g \in Done(f, format)
      BY DEF OutputIInv, BooksIInv, ReportsIInv, Clearing
    <2>5. PICK r \in reports : r.by = f /\ r.format = format /\ r.config = g
      BY <2>4 DEF Done
    <2>6. r.buffer = "whole"
      BY <2>1, <2>2, <2>5 DEF EarlyIInv
    <2> QED BY <2>2, <2>3, <2>5, <2>6
  <1> QED BY <1>1, AlwaysOutputIInv, PTL

\* clear_cache_files leaves nothing of the root and of the children that had ended,
\* however many threads finalize, and never touches another root process's files.
THEOREM DirectoryIsCleared == Spec => []OnlyLateChildrenLeaveFiles
  <1>1. OutputIInv => OnlyLateChildrenLeaveFiles
    BY DEF OutputIInv, BooksIInv, FilesIInv, StrangersIInv, ClearIInv, Listing, Kinds,
           OnlyLateChildrenLeaveFiles
  <1> QED BY <1>1, AlwaysOutputIInv, PTL
=============================================================================
