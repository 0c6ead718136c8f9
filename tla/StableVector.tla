----------------------------- MODULE StableVector -----------------------------
(***************************************************************************)
(* core/containers/stable_vector.hpp: a vector whose elements never move.  *)
(* It is a sequence of chunks of fixed capacity, here the number of        *)
(* elements each of them holds.                                            *)
(***************************************************************************)
EXTENDS Integers, Sequences

CONSTANT ChunkSize      \* ChunkSizeV

ASSUME ChunkAssumption == ChunkSize \in Nat \ {0}

Capacity(v) == Len(v) * ChunkSize

\* size() counts every chunk but the last as full.
Size(v) == IF v = <<>> THEN 0 ELSE (Len(v) - 1) * ChunkSize + v[Len(v)]

\* at() throws out of these bounds.
InBounds(v, i) == i < Size(v)

\* emplace_back adds to the last chunk, or to a new one behind a full one.
EmplaceBack(v) ==
    IF v = <<>> \/ v[Len(v)] = ChunkSize THEN Append(v, 1)
    ELSE [v EXCEPT ![Len(v)] = @ + 1]

\* A wrong form of Reserve: one chunk more than asked for.
ReserveOneMore(v, n) ==
    v \o [i \in 1 .. IF n > Capacity(v) THEN (n - Capacity(v)) \div ChunkSize + 1
                     ELSE 0 |-> 0]

\* reserve adds chunks until the capacity suffices.
Reserve(v, n) ==
    v \o [i \in 1 .. IF n > Capacity(v) THEN (n - Capacity(v) + ChunkSize - 1) \div ChunkSize
                     ELSE 0 |-> 0]

\* The loop of resize: emplace_back until the size is reached.
EmplaceUpTo(v, n) ==
    LET added[k \in 0 .. n - Size(v)] == IF k = 0 THEN v ELSE EmplaceBack(added[k - 1])
    IN  IF Size(v) < n THEN added[n - Size(v)] ELSE v

\* resize reserves, then calls emplace_back until the size is reached.  The last
\* chunk has the room: size() counts the others as full.
Resize(v, n) ==
    LET w == Reserve(v, n)
    IN  IF Size(w) < n THEN [w EXCEPT ![Len(w)] = @ + (n - Size(w))] ELSE w
=============================================================================
