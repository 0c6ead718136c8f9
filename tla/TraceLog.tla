------------------------------ MODULE TraceLog ------------------------------
(***************************************************************************)
(* What the buffered storage of the trace cache promises to its clients:   *)
(* an append-only log.  Every byte the storage accepts has an offset in    *)
(* the log, counted from 1, and the trace file receives the bytes in the   *)
(* order of their offsets, each one once.  A byte whose store() has not    *)
(* returned is "pending": the storage hands out its place before its value *)
(* is written, so its copy in the file may be anything.                    *)
(*                                                                         *)
(* BufferStorage implements this specification as long as no writer laps   *)
(* the flusher (see ImplementsTraceLog there).                             *)
(***************************************************************************)
EXTENDS Integers, Sequences

VARIABLES
    accepted,   \* the number of bytes the log has accepted
    pending,    \* the offsets accepted whose value is not written yet
    file        \* the bytes of the trace file, each named by its offset

logVars == <<accepted, pending, file>>

LogInit ==
    /\ accepted = 0
    /\ pending = {}
    /\ file = <<>>

\* The log accepts bytes; some of them may be pending.
Accept ==
    /\ accepted' \in Nat
    /\ accepted' > accepted
    /\ pending \subseteq pending'
    /\ pending' \ pending \subseteq (accepted + 1) .. accepted'
    /\ UNCHANGED file

\* A client writes the value of bytes it was given.
Finish ==
    /\ pending' \subseteq pending
    /\ UNCHANGED <<accepted, file>>

\* The next byte goes to the file: its value, unless it is still pending.
Persist ==
    LET next == Len(file) + 1
    IN  /\ next =< accepted
        /\ file' \in Seq(Nat)
        /\ Len(file') = next
        /\ file' = Append(file, file'[next])
        /\ file'[next] = next \/ next \in pending
        /\ UNCHANGED <<accepted, pending>>

LogNext == Accept \/ Finish \/ Persist

LogSpec == LogInit /\ [][LogNext]_logVars
=============================================================================
