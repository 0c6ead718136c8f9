----------------------------- MODULE CacheManager -----------------------------
(***************************************************************************)
(* The files of the trace cache and the processes that share them: the     *)
(* finalization of a process (rocprofsys_finalize_hidden, the exit gotcha) *)
(* and the bulk post-processing of the root process (cache_manager.cpp).   *)
(*                                                                         *)
(* The root process is followed from its Active state.  Finalizers are its *)
(* threads that reach the finalization, by a call of exit or by returning  *)
(* from main.  Children are processes it started with the library          *)
(* preloaded, Strangers processes of another root process: their files lie *)
(* in the same directory.  Files are absent, partial or whole.             *)
(***************************************************************************)
EXTENDS FiniteSets, Naturals

CONSTANTS Root, Children, Strangers, Finalizers, Formats

\* The root process is none of the others.
ASSUME ProcessesAssumption ==
    /\ Root \notin Children \cup Strangers
    /\ Children \cap Strangers = {}
    /\ Formats \subseteq {"perfetto", "rocpd"}

VARIABLES
    file,               \* the directory: the content of each file
    child,              \* how far each child has come
    state, storage,     \* the root process: get_state(), its storage
    alive,              \* it has not exited
    stage,              \* where each finalizer is
    listed,             \* the files a finalizer has listed (cache_files)
    configs,            \* processor_configs
    reports,            \* the outputs written
    early               \* history: children that had ended before the listing

rootVars == <<state, storage, alive, stage, listed, configs, reports, early>>
vars == <<file, child, rootVars>>

Pids == {Root} \cup Children \cup Strangers
Files == {"buffer", "metadata"} \X Pids
Contents == {"absent", "partial", "whole"}
ChildStages == {"spawned", "tracing", "drained", "saving", "ended", "killed"}
Stages == {"run", "mark", "stop", "wait", "list", "listing", "load", "parse",
           "clear", "ended", "skipped"}
Configs == [pid : Pids, own : BOOLEAN, metadata : Contents]

ManagerTypeOK ==
    /\ file \in [Files -> Contents]
    /\ child \in [Children -> ChildStages]
    /\ state \in {"Active", "Finalized"}
    /\ storage \in {"running", "stopping", "stopped"}
    /\ alive \in BOOLEAN
    /\ stage \in [Finalizers -> Stages]
    /\ listed \in [Finalizers -> SUBSET Files]
    /\ configs \in [Finalizers -> SUBSET Configs]
    /\ reports \subseteq [by : Finalizers, format : Formats, config : Configs,
                          buffer : Contents]
    /\ early \in [Finalizers -> SUBSET Children]

Init ==
    /\ file = [f \in Files |-> IF f = <<"buffer", Root>> THEN "partial"
                               ELSE IF f[2] \in Strangers THEN "whole" ELSE "absent"]
    /\ child = [c \in Children |-> "spawned"]
    /\ state = "Active" /\ storage = "running" /\ alive = TRUE
    /\ stage = [f \in Finalizers |-> "run"]
    /\ listed = [f \in Finalizers |-> {}]
    /\ configs = [f \in Finalizers |-> {}]
    /\ reports = {}
    /\ early = [f \in Finalizers |-> {}]

Present == {f \in Files : file[f] # "absent"}

\* Closing a file that another process has removed leaves it removed.
Completed(f) == [file EXCEPT ![f] = IF @ = "absent" THEN "absent" ELSE "whole"]

-----------------------------------------------------------------------------
(* A child: its tooling is initialized, it finalizes or is killed *)

ChildMoves(c, from, to) == child[c] = from /\ child' = [child EXCEPT ![c] = to]

\* buffer_storage::start creates the file.
ChildStarts(c) ==
    /\ ChildMoves(c, "spawned", "tracing")
    /\ file' = [file EXCEPT ![<<"buffer", c>>] = "partial"]
    /\ UNCHANGED rootVars

\* A wrong form of ChildDrains: the metadata is saved before the storage is drained.
ChildSavesFirst(c) ==
    /\ ChildMoves(c, "tracing", "saving")
    /\ file' = [file EXCEPT ![<<"metadata", c>>] = "partial"]
    /\ UNCHANGED rootVars

\* The child's finalization: shutdown of the storage, then save_to_file.
ChildDrains(c) ==
    /\ ChildMoves(c, "tracing", "drained")
    /\ file' = Completed(<<"buffer", c>>)
    /\ UNCHANGED rootVars

ChildOpensMetadata(c) ==
    /\ ChildMoves(c, "drained", "saving")
    /\ file' = [file EXCEPT ![<<"metadata", c>>] = "partial"]
    /\ UNCHANGED rootVars

ChildSavesMetadata(c) ==
    /\ ChildMoves(c, "saving", "ended")
    /\ file' = Completed(<<"metadata", c>>)
    /\ UNCHANGED rootVars

\* A signal, or an exit: the exit gotcha does not finalize a child.
ChildDies(c) ==
    /\ child[c] \in {"tracing", "drained", "saving"}
    /\ child' = [child EXCEPT ![c] = "killed"]
    /\ UNCHANGED <<file, rootVars>>

ChildNext(c) ==
    \/ ChildStarts(c) \/ ChildDrains(c) \/ ChildOpensMetadata(c)
    \/ ChildSavesMetadata(c) \/ ChildDies(c)

-----------------------------------------------------------------------------
(* The finalization of the root process *)

Moves(f, from, to) == /\ alive /\ stage[f] = from
                      /\ stage' = [stage EXCEPT ![f] = to]
                      /\ UNCHANGED <<child, alive>>

\* The exit gotcha and rocprofsys_finalize_hidden test the state, which is set later.
FinalizeTests(f) ==
    /\ Moves(f, "run", IF state = "Active" THEN "mark" ELSE "skipped")
    /\ UNCHANGED <<file, state, storage, listed, configs, reports, early>>

FinalizeMarks(f) ==
    /\ Moves(f, "mark", "stop")
    /\ state' = "Finalized"
    /\ UNCHANGED <<file, storage, listed, configs, reports, early>>

\* A wrong form of StopsStorage: it does not wait for the final flush.
StopsStorageAndGoes(f) ==
    /\ Moves(f, "stop", "list")
    /\ storage' = IF storage = "running" THEN "stopping" ELSE storage
    /\ UNCHANGED <<file, state, listed, configs, reports, early>>

\* buffer_storage::shutdown returns at once when is_running is already FALSE; the
\* test and the clearing, apart in FlushWorker, are one step here.
StopsStorage(f) ==
    /\ Moves(f, "stop", IF storage = "running" THEN "wait" ELSE "list")
    /\ storage' = IF storage = "running" THEN "stopping" ELSE storage
    /\ UNCHANGED <<file, state, listed, configs, reports, early>>

WorkerDrains ==
    /\ alive /\ storage = "stopping"
    /\ storage' = "stopped"
    /\ file' = Completed(<<"buffer", Root>>)
    /\ UNCHANGED <<child, state, alive, stage, listed, configs, reports, early>>

JoinsWorker(f) ==
    /\ storage = "stopped"
    /\ Moves(f, "wait", "list")
    /\ UNCHANGED <<file, state, storage, listed, configs, reports, early>>

\* list_dir_files: opendir, then readdir to the end.
ListBegins(f) ==
    /\ Moves(f, "list", "listing")
    /\ listed' = [listed EXCEPT ![f] = Present]
    /\ early' = [early EXCEPT ![f] = {c \in Children : child[c] = "ended"}]
    /\ UNCHANGED <<file, state, storage, configs, reports>>

\* get_cache_files: the names that carry this root process.
CacheFiles(names) == {n \in names : n[2] \notin Strangers}

\* A file created or removed meanwhile may be in the list or not.
ListEnds(f) ==
    /\ Moves(f, "listing", "load")
    /\ \E now \in SUBSET ((listed[f] \ Present) \cup (Present \ listed[f])) :
         listed' = [listed EXCEPT
                      ![f] = CacheFiles((listed[f] \cap Present) \cup now)]
    /\ UNCHANGED <<file, state, storage, configs, reports, early>>

\* ~cache_files_t::empty
HasPair(names, p) == <<"buffer", p>> \in names /\ <<"metadata", p>> \in names

Loaded(f) == {c.pid : c \in configs[f]}

\* create_processor_configs: load_from_file may fail; the config is kept.
Loads(f) ==
    \E p \in Pids \ Loaded(f) :
      /\ HasPair(listed[f], p)
      /\ Moves(f, "load", "load")
      /\ configs' = [configs EXCEPT ![f] = @ \cup
                       {[pid |-> p, own |-> FALSE, metadata |-> file[<<"metadata", p>>]]}]
      /\ UNCHANGED <<file, state, storage, listed, reports, early>>

\* A wrong form of AddsOwn: an incomplete pair ends the loop.
AddsOwnAtOnce(f) ==
    /\ Moves(f, "load", "parse")
    /\ configs' = [configs EXCEPT ![f] = @ \cup
                     {[pid |-> Root, own |-> TRUE, metadata |-> "whole"]}]
    /\ UNCHANGED <<file, state, storage, listed, reports, early>>

\* The root process's own configuration comes from its memory.
AddsOwn(f) ==
    /\ \A p \in Pids \ Loaded(f) : ~HasPair(listed[f], p)
    /\ Moves(f, "load", "parse")
    /\ configs' = [configs EXCEPT ![f] = @ \cup
                     {[pid |-> Root, own |-> TRUE, metadata |-> "whole"]}]
    /\ UNCHANGED <<file, state, storage, listed, reports, early>>

Done(f, format) == {r.config : r \in {s \in reports : s.by = f /\ s.format = format}}

\* dispatch_processing: perfetto for all configurations, then a thread of rocpd for
\* each.  process_buffered_storage reports what it could read.
Processes(f) ==
    \E format \in Formats, c \in configs[f] :
      /\ c \notin Done(f, format)
      /\ format = "rocpd" /\ "perfetto" \in Formats => configs[f] \subseteq Done(f, "perfetto")
      /\ Moves(f, "parse", "parse")
      /\ reports' = reports \cup {[by |-> f, format |-> format, config |-> c,
                                   buffer |-> file[<<"buffer", c.pid>>]]}
      /\ UNCHANGED <<file, state, storage, listed, configs, early>>

EndsProcessing(f) ==
    /\ \A format \in Formats : configs[f] \subseteq Done(f, format)
    /\ Moves(f, "parse", "clear")
    /\ UNCHANGED <<file, state, storage, listed, configs, reports, early>>

\* A wrong form of Cleared: the files of complete pairs only.
ClearedPairs(names) == {n \in names : HasPair(names, n[2])}

Cleared(names) == names

\* clear_cache_files: one file after the other, whoever may still write it.
Clears(f) ==
    /\ \/ \E n \in Cleared(listed[f]) :
            /\ Moves(f, "clear", "clear")
            /\ file' = [file EXCEPT ![n] = "absent"]
            /\ listed' = [listed EXCEPT ![f] = @ \ {n}]
       \/ /\ Cleared(listed[f]) = {} /\ Moves(f, "clear", "ended")
          /\ UNCHANGED <<file, listed>>
    /\ UNCHANGED <<state, storage, configs, reports, early>>

\* The thread returns from main, or the exit gotcha calls the real exit.
Exits(f) ==
    /\ alive /\ stage[f] \in {"ended", "skipped"}
    /\ alive' = FALSE
    /\ UNCHANGED <<file, child, state, storage, stage, listed, configs, reports, early>>

FinalizerNext(f) ==
    \/ FinalizeTests(f) \/ FinalizeMarks(f) \/ StopsStorage(f) \/ JoinsWorker(f)
    \/ ListBegins(f) \/ ListEnds(f) \/ Loads(f) \/ AddsOwn(f) \/ Processes(f)
    \/ EndsProcessing(f) \/ Clears(f) \/ Exits(f)

Next == \/ WorkerDrains
        \/ \E c \in Children : ChildNext(c)
        \/ \E f \in Finalizers : FinalizerNext(f)

Spec == Init /\ [][Next]_vars

-----------------------------------------------------------------------------
(* Properties *)

\* One thread finalizes: the others have not come or were turned away.
OneFinalizes == Cardinality({f \in Finalizers : stage[f] \notin {"run", "skipped"}}) <= 1

\* A child's storage is never read while the child still writes it, however its
\* finalization, its death and the listing fall: the metadata file that makes
\* the pair complete is created after the final flush.
ChildFilesAreReadWhole ==
    \A r \in reports : r.config.pid \in Children => r.buffer # "partial"

\* The root's own storage is read whole, once in each format, when one thread
\* finalizes: its buffer has no metadata file, so it is not taken for a child's.
OwnTraceIsWrittenOnce ==
    OneFinalizes =>
      /\ \A r \in reports : r.config.pid = Root => r.buffer = "whole"
      /\ \A r, s \in reports :
           r.format = s.format /\ r.config.pid = s.config.pid => r = s

\* A child that had ended when the directory was listed is in every output, with
\* all its samples and its whole metadata; a child cut off before does no harm.
EndedChildrenAreReported ==
    \A f \in Finalizers : OneFinalizes /\ stage[f] \in {"clear", "ended"} =>
      \A c \in early[f], format \in Formats :
        \E r \in reports : /\ r.format = format /\ r.buffer = "whole"
                           /\ r.config.pid = c /\ r.config.metadata = "whole"

\* What the finalization leaves behind belongs to children that had not ended
\* when it listed the directory; the files of another root process stay.
OnlyLateChildrenLeaveFiles ==
    /\ \A f \in Finalizers : stage[f] = "ended" =>
         \A p \in early[f] \cup {Root} : /\ file[<<"buffer", p>>] = "absent"
                                         /\ file[<<"metadata", p>>] = "absent"
    /\ \A s \in Strangers : file[<<"buffer", s>>] = "whole"

\* The exit gotcha finalizes "before calling" exit (exit_gotcha.cpp:66), so a
\* process that exits has written its trace.
ExitFindsTraceWritten == ~alive => \E f \in Finalizers : stage[f] = "ended"
=============================================================================
