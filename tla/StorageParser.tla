---------------------------- MODULE StorageParser ----------------------------
(***************************************************************************)
(* storage_parser::load of core/trace_cache/storage_parser.hpp: how the    *)
(* trace file is cut into records again.                                   *)
(*                                                                         *)
(* A file is a sequence of cells that hold the numbers of the bytes they   *)
(* received (see BufferStorage), 0 for the zero the buffer was created     *)
(* with.  A layout is the sequence of the records that were reserved,      *)
(* fillers included, each with the number of its first byte.               *)
(***************************************************************************)
EXTENDS Naturals, Sequences

CONSTANT HeaderSize

Records(sizes) == [type : {"sample", "fragmented_space"}, first : Nat \ {0}, size : sizes]

\* The header read at byte p of the file is the one written with record r, or
\* is still the zeros of a new buffer.
IsHeaderOf(r, file, p) == \A k \in 0 .. HeaderSize - 1 : file[p + k] = r.first + k
IsZero(file, p) == \A k \in 0 .. HeaderSize - 1 : file[p + k] = 0

\* A wrong form of Skips: fillers are handed over like samples.
SkipsEmptyOnly(r) == r.size = 0

\* Records without content and fillers are not handed to the processors.
Skips(r) == r.size = 0 \/ r.type = "fragmented_space"

\* What load() returns: the records it hands over, by their first bytes, and how
\* its loop ends, at the end of the file, with an exception for a record that is cut
\* short, or "lost" where no header was written, so that anything may be read from
\* there.
Returns(how) == [samples |-> <<>>, end |-> how]

HeadersAt(file, layout, p) == {i \in DOMAIN layout : IsHeaderOf(layout[i], file, p)}

\* One round of the loop, which reads a record at p; `from' is what the rounds from
\* a later byte on return.
Round(file, layout, from, p) ==
    CASE p + HeaderSize > Len(file) + 1 -> Returns("eof")
      [] p + HeaderSize =< Len(file) + 1 /\ IsZero(file, p) -> from[p + HeaderSize]
      [] p + HeaderSize =< Len(file) + 1 /\ ~IsZero(file, p) ->
           IF HeadersAt(file, layout, p) = {} THEN Returns("lost")
           ELSE LET r    == layout[CHOOSE i \in HeadersAt(file, layout, p) : TRUE]
                    next == p + HeaderSize + r.size
                IN  IF next > Len(file) + 1 THEN Returns("bad read")
                    ELSE IF Skips(r) THEN from[next]
                    ELSE [from[next] EXCEPT !.samples = <<r.first>> \o @]

\* The loop, round after round from the first byte.
Load(file, layout) ==
    LET from[p \in 1 .. Len(file) + 1] == Round(file, layout, from, p)
    IN  from[1]
=============================================================================
