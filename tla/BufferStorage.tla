--------------------------- MODULE BufferStorage ---------------------------
(***************************************************************************)
(* The in-memory ring of the trace cache: buffer_storage::store, flush,    *)
(* fragment_memory and reserve_memory_space of                             *)
(* core/trace_cache/buffer_storage.hpp.                                    *)
(*                                                                         *)
(* Application threads (Writers) reserve room at m_head under m_mutex and  *)
(* then fill it without the lock.  One flusher moves m_tail to m_head      *)
(* under the lock and then copies what lay between to the file, without    *)
(* the lock.  reserve_memory_space never looks at m_tail.                  *)
(*                                                                         *)
(* Data is abstracted to its identity.  Bytes are numbered 1, 2, ... in    *)
(* the order in which they are reserved (filler included); a cell of the   *)
(* buffer, or a position of the file, holds the number of the byte that    *)
(* was last written there, 0 for the zero the buffer is created with.      *)
(* The numbers are history: no action of the code reads them.              *)
(***************************************************************************)
EXTENDS Integers, Sequences

CONSTANTS
    Writers,          \* the threads that call store()
    BufferSize,       \* buffer_size
    HeaderSize,       \* header_size<TypeIdentifierEnum>
    FlushThreshold,   \* flush_threshold
    SampleSizes,      \* the values get_size(value) may return
    MaxReserved       \* bound of the model: no reservation past this byte

\* A record, its header and one more header fit an empty buffer.  The code
\* does not check it: a larger record would be written past the buffer.
ASSUME SizesAssumption ==
    /\ HeaderSize \in Nat \ {0}
    /\ BufferSize \in Nat
    /\ FlushThreshold \in Nat
    /\ SampleSizes \subseteq Nat
    /\ \A n \in SampleSizes : HeaderSize + n + HeaderSize =< BufferSize
    /\ HeaderSize =< BufferSize
    /\ MaxReserved \in Nat

VARIABLES
    head,       \* m_head
    tail,       \* m_tail
    buffer,     \* *m_buffer, each cell the number of the byte it holds
    store,      \* the progress of each writer's call of store()
    flush,      \* the progress of the flusher's call of flush()
    file,       \* what ofs has received
    reserved,   \* history: how many bytes have been reserved
    released,   \* history: how many bytes m_tail has passed
    lapped      \* history: a reservation took a cell that was still in use

ringVars == <<head, tail, buffer, store, flush, file, reserved, released, lapped>>

Cells == 0 .. BufferSize - 1

NoStore == [stage |-> "idle", first |-> 0, at |-> 0, size |-> 0]
NoFlush == [stage |-> "idle", at |-> 0, until |-> 0]

StoreCalls == [stage : {"idle", "reserved", "headed"},
               first : Nat, at : Nat, size : Nat]
FlushCalls == [stage : {"idle", "copying", "failed"}, at : Nat, until : Nat]

RingTypeOK ==
    /\ head \in 0 .. BufferSize
    /\ tail \in 0 .. BufferSize
    /\ buffer \in [Cells -> Nat]
    /\ store \in [Writers -> StoreCalls]
    /\ flush \in FlushCalls
    /\ file \in Seq(Nat)
    /\ reserved \in Nat
    /\ released \in Nat
    /\ lapped \in BOOLEAN

RingInit ==
    /\ head = 0
    /\ tail = 0
    /\ buffer = [c \in Cells |-> 0]
    /\ store = [w \in Writers |-> NoStore]
    /\ flush = NoFlush
    /\ file = <<>>
    /\ reserved = 0
    /\ released = 0
    /\ lapped = FALSE

-----------------------------------------------------------------------------
(* Writers *)

\* The bytes of w's record that it has not written yet.
PendingOf(w) ==
    LET end == store[w].first + HeaderSize + store[w].size - 1
    IN  CASE store[w].stage = "idle"     -> {}
          [] store[w].stage = "reserved" -> store[w].first .. end
          [] store[w].stage = "headed"   -> (store[w].first + HeaderSize) .. end

Pending == UNION {PendingOf(w) : w \in Writers}

\* A wrong form of NeedsFragment: no room is left for the filler header.
FragmentsTooLate(bytes) == head + bytes > BufferSize

\* The condition under which reserve_memory_space calls fragment_memory.
NeedsFragment(bytes) == head + bytes + HeaderSize > BufferSize

\* History: after `upTo' bytes are reserved the ring would hold a byte that is
\* not in the file yet, or is still being written, under a newer one; or m_head
\* would stand on m_tail with a full ring between them.
Laps(upTo) ==
    \/ upTo - Len(file) > BufferSize
    \/ upTo - released >= BufferSize
    \/ \E s \in Pending : upTo - s >= BufferSize

\* A wrong form of Reserve: the header is not counted.
ReserveBodyOnly(w, n) ==
    LET pad == IF NeedsFragment(n) THEN BufferSize - head ELSE 0
        at  == IF NeedsFragment(n) THEN 0 ELSE head
    IN  /\ flush.stage # "failed"
        /\ store[w].stage = "idle"
        /\ reserved + pad + n =< MaxReserved
        /\ head' = at + n
        /\ reserved' = reserved + pad + n
        /\ store' = [store EXCEPT ![w] =
                       [stage |-> "reserved", first |-> reserved + pad + 1,
                        at |-> at, size |-> n]]
        /\ lapped' = (lapped \/ Laps(reserved + pad + n))
        /\ UNCHANGED <<tail, buffer, flush, file, released>>

\* reserve_memory_space, called by store with header_size + get_size(value).
Reserve(w, n) ==
    LET bytes == HeaderSize + n
        pad   == IF NeedsFragment(bytes) THEN BufferSize - head ELSE 0
        at    == IF NeedsFragment(bytes) THEN 0 ELSE head
        upTo  == reserved + pad + bytes
    IN  /\ flush.stage # "failed"
        /\ store[w].stage = "idle"
        /\ upTo =< MaxReserved
        /\ buffer' = [c \in Cells |-> IF pad > 0 /\ c >= head
                                        THEN reserved + 1 + c - head
                                        ELSE buffer[c]]
        /\ head' = at + bytes
        /\ reserved' = upTo
        /\ store' = [store EXCEPT ![w] =
                       [stage |-> "reserved", first |-> reserved + pad + 1,
                        at |-> at, size |-> n]]
        /\ lapped' = (lapped \/ Laps(upTo))
        /\ UNCHANGED <<tail, flush, file, released>>

\* The buffer after a writer stores `count' bytes, the first one `byte', at `at'.
Written(at, count, byte) ==
    [c \in Cells |-> IF c >= at /\ c < at + count THEN byte + c - at ELSE buffer[c]]

\* store writes the type identifier and the sample size.
StoreHeader(w) ==
    /\ flush.stage # "failed"
    /\ store[w].stage = "reserved"
    /\ buffer' = Written(store[w].at, HeaderSize, store[w].first)
    /\ store' = [store EXCEPT ![w].stage = "headed"]
    /\ UNCHANGED <<head, tail, flush, file, reserved, released, lapped>>

\* A wrong form of Serialize: it starts where the header does.
SerializeOverHeader(w) ==
    /\ flush.stage # "failed"
    /\ store[w].stage = "headed"
    /\ buffer' = Written(store[w].at, store[w].size, store[w].first + HeaderSize)
    /\ store' = [store EXCEPT ![w] = NoStore]
    /\ UNCHANGED <<head, tail, flush, file, reserved, released, lapped>>

\* store serializes the value after the header and returns.
Serialize(w) ==
    /\ flush.stage # "failed"
    /\ store[w].stage = "headed"
    /\ buffer' = Written(store[w].at + HeaderSize, store[w].size,
                         store[w].first + HeaderSize)
    /\ store' = [store EXCEPT ![w] = NoStore]
    /\ UNCHANGED <<head, tail, flush, file, reserved, released, lapped>>

-----------------------------------------------------------------------------
(* Flusher *)

\* A wrong form of UsedSpace: it forgets that the ring wraps.
UsedSpaceUnwrapped == IF head > tail THEN head - tail ELSE tail - head

UsedSpace == IF head > tail THEN head - tail ELSE BufferSize - tail + head

\* A wrong form of NothingToFlush: only the final flush writes.
OnlyForcedFlush(force) == head = tail \/ ~force

\* The early returns of flush.
NothingToFlush(force) ==
    \/ head = tail
    \/ ~force /\ UsedSpace < FlushThreshold

\* The locked part of flush: the room is free for writers from here on.
FlushSnapshot(force) ==
    /\ flush.stage = "idle"
    /\ ~NothingToFlush(force)
    /\ flush' = [stage |-> "copying", at |-> tail, until |-> head]
    /\ tail' = head
    /\ released' = reserved
    /\ UNCHANGED <<head, buffer, store, file, reserved, lapped>>

\* A wrong form of FlushCopy: the part before m_head is not copied when the
\* unflushed bytes wrap.
CopyFirstPartOnly ==
    /\ flush.stage = "copying"
    /\ file' = Append(file, buffer[flush.at])
    /\ flush' = IF flush.at + 1 \in {BufferSize, flush.until}
                  THEN NoFlush
                  ELSE [flush EXCEPT !.at = @ + 1]
    /\ UNCHANGED <<head, tail, buffer, store, reserved, released, lapped>>

\* A wrong form of FlushCopy: the copy begins one byte behind m_tail.
CopyOneByteOff ==
    /\ flush.stage = "copying"
    /\ LET next == IF flush.at + 1 = BufferSize THEN 0 ELSE flush.at + 1
       IN  /\ file' = Append(file, buffer[next])
           /\ flush' = IF next = flush.until THEN NoFlush
                                             ELSE [flush EXCEPT !.at = next]
    /\ UNCHANGED <<head, tail, buffer, store, reserved, released, lapped>>

\* ofs.write copies one more byte; the copy wraps at the end of the buffer.
FlushCopy ==
    /\ flush.stage = "copying"
    /\ file' = Append(file, buffer[flush.at])
    /\ LET next == IF flush.at + 1 = BufferSize THEN 0 ELSE flush.at + 1
       IN  flush' = IF next = flush.until THEN NoFlush
                                          ELSE [flush EXCEPT !.at = next]
    /\ UNCHANGED <<head, tail, buffer, store, reserved, released, lapped>>

\* A failed write throws from flush.  Nothing catches it in the worker thread,
\* so the process terminates.
FlushFails ==
    /\ flush.stage = "copying"
    /\ flush' = [flush EXCEPT !.stage = "failed"]
    /\ UNCHANGED <<head, tail, buffer, store, file, reserved, released, lapped>>

-----------------------------------------------------------------------------
RingNext ==
    \/ \E w \in Writers, n \in SampleSizes : Reserve(w, n)
    \/ \E w \in Writers : StoreHeader(w) \/ Serialize(w)
    \/ \E force \in BOOLEAN : FlushSnapshot(force)
    \/ FlushCopy
    \/ FlushFails

RingSpec == RingInit /\ [][RingNext]_ringVars

-----------------------------------------------------------------------------
(* Properties *)

\* Room for a filler header is left whatever was reserved before, so
\* fragment_memory never writes past the buffer and its
\* buffer_size - m_head - header_size never underflows, even when the
\* writers lap the flusher.
HeaderFits ==
    /\ head + HeaderSize =< BufferSize
    /\ tail + HeaderSize =< BufferSize

\* What flush computes from m_head and m_tail is what is really unflushed:
\* equal positions mean an empty ring, and used_space is exact.
UsedSpaceIsExact ==
    ~lapped => /\ head = tail <=> reserved = released
               /\ head # tail => UsedSpace = reserved - released

\* The bytes the last snapshots released and the file has not received are the
\* ones the flusher is copying: no byte is skipped, none is copied twice.
Uncopied ==
    IF flush.stage = "idle" THEN 0
    ELSE IF flush.until > flush.at THEN flush.until - flush.at
                                   ELSE BufferSize - flush.at + flush.until

CopyIsComplete == ~lapped => Len(file) + Uncopied = released

\* The cell of byte s, one of the last BufferSize bytes reserved.
CellOf(s) ==
    LET back == reserved + 1 - s
    IN  IF back =< head THEN head - back ELSE BufferSize + head - back

\* Between the return of store and the copy to the file nothing disturbs a
\* record: every byte not yet copied and not pending is where it was stored.
StoredBytesInPlace ==
    ~lapped => \A s \in (Len(file) + 1) .. reserved :
                  s \notin Pending => buffer[CellOf(s)] = s

\* The threads that fill their reservations without the lock never have the
\* same cell left to write.
CellsToWrite(w) == {store[w].at + s - store[w].first : s \in PendingOf(w)}

WritersAreDisjoint ==
    ~lapped => \A v, w \in Writers :
                  v # w => CellsToWrite(v) \cap CellsToWrite(w) = {}

\* Until a writer laps the flusher, the ring is an append-only log.
Log == INSTANCE TraceLog WITH accepted <- reserved, pending <- Pending, file <- file

ImplementsTraceLog ==
    Log!LogInit /\ [][lapped' \/ Log!LogNext \/ UNCHANGED Log!logVars]_ringVars
=============================================================================
