------------------------ MODULE BufferStorage_proofs ------------------------
(***************************************************************************)
(* Proofs about the ring of BufferStorage, for every number of writers and *)
(* every choice of sizes that SizesAssumption allows.                      *)
(***************************************************************************)
EXTENDS BufferStorage, TLAPS

-----------------------------------------------------------------------------
(* Type correctness and the bounds of the ring *)

\* The positions the flusher works with are cells of the buffer, and a copy in
\* progress has at least one cell to go.
FlushInRing ==
    /\ flush.at \in Cells
    /\ flush.until \in Cells
    /\ flush.stage # "idle" => flush.at # flush.until

RingIInv == RingTypeOK /\ HeaderFits /\ FlushInRing

\* The initial ring is empty and within its bounds (the constructor of
\* buffer_storage).
LEMMA InitRing == RingInit => RingIInv
<1> SUFFICES ASSUME RingInit PROVE RingIInv
  OBVIOUS
<1>1. RingTypeOK
  <2>1. store \in [Writers -> StoreCalls]
    BY DEF RingInit, NoStore, StoreCalls
  <2>2. flush \in FlushCalls
    BY DEF RingInit, NoFlush, FlushCalls
  <2>3. buffer \in [Cells -> Nat] /\ file \in Seq(Nat)
    BY DEF RingInit
  <2>4. 0 \in 0 .. BufferSize
    BY SizesAssumption
  <2> QED
    BY <2>1, <2>2, <2>3, <2>4 DEF RingInit, RingTypeOK
<1>2. HeaderFits
  BY SizesAssumption DEF RingInit, HeaderFits
<1>3. FlushInRing
  BY SizesAssumption DEF RingInit, FlushInRing, NoFlush, Cells
<1> QED
  BY <1>1, <1>2, <1>3 DEF RingIInv

\* A reservation leaves room for a filler header: reserve_memory_space
\* fragments the buffer early enough.
LEMMA ReserveKeepsRing ==
  ASSUME RingIInv, NEW w \in Writers, NEW n \in SampleSizes, Reserve(w, n)
  PROVE  RingIInv'
<1> DEFINE bytes == HeaderSize + n
           pad   == IF NeedsFragment(bytes) THEN BufferSize - head ELSE 0
           at    == IF NeedsFragment(bytes) THEN 0 ELSE head
<1>1. /\ n \in Nat /\ bytes \in Nat /\ head \in Nat /\ reserved \in Nat
      /\ bytes + HeaderSize =< BufferSize /\ head + HeaderSize =< BufferSize
      /\ BufferSize \in Nat /\ HeaderSize \in Nat
  BY SizesAssumption DEF RingIInv, RingTypeOK, HeaderFits
<1>2. pad \in Nat /\ at \in Nat /\ at + bytes + HeaderSize =< BufferSize
  BY <1>1 DEF NeedsFragment
<1> HIDE DEF pad, at
<1>3. /\ head' = at + bytes
      /\ reserved' = reserved + pad + bytes
      /\ buffer' = [c \in Cells |-> IF pad > 0 /\ c >= head
                                      THEN reserved + 1 + c - head
                                      ELSE buffer[c]]
      /\ store' = [store EXCEPT ![w] =
                     [stage |-> "reserved", first |-> reserved + pad + 1,
                      at |-> at, size |-> n]]
      /\ lapped' = (lapped \/ Laps(reserved + pad + bytes))
      /\ UNCHANGED <<tail, flush, file, released>>
  BY DEF Reserve, pad, at
<1>4. buffer' \in [Cells -> Nat]
  BY <1>1, <1>2, <1>3 DEF RingIInv, RingTypeOK, Cells
<1>5. store' \in [Writers -> StoreCalls]
  BY <1>1, <1>2, <1>3 DEF RingIInv, RingTypeOK, StoreCalls
<1>6. lapped' \in BOOLEAN
  BY <1>3 DEF RingIInv, RingTypeOK, Laps
<1>7. RingTypeOK'
  BY <1>1, <1>2, <1>3, <1>4, <1>5, <1>6 DEF RingIInv, RingTypeOK
<1>8. HeaderFits'
  BY <1>1, <1>2, <1>3 DEF RingIInv, HeaderFits
<1>9. FlushInRing'
  BY <1>3 DEF RingIInv, FlushInRing
<1> QED
  BY <1>7, <1>8, <1>9 DEF RingIInv

\* What store writes without the lock are byte numbers.
LEMMA WrittenType ==
  ASSUME RingIInv, NEW at \in Nat, NEW count \in Nat, NEW byte \in Nat
  PROVE  Written(at, count, byte) \in [Cells -> Nat]
BY SizesAssumption DEF Written, RingIInv, RingTypeOK, Cells

\* Every step of the ring keeps its types and bounds.
LEMMA StepKeepsRing == RingIInv /\ [RingNext]_ringVars => RingIInv'
<1> SUFFICES ASSUME RingIInv, [RingNext]_ringVars PROVE RingIInv'
  OBVIOUS
<1> USE DEF RingIInv
<1>1. ASSUME NEW w \in Writers, NEW n \in SampleSizes, Reserve(w, n)
      PROVE  RingIInv'
  BY <1>1, ReserveKeepsRing
<1>2. ASSUME NEW w \in Writers, StoreHeader(w)
      PROVE  RingIInv'
  <2>1. store[w] \in StoreCalls
    BY DEF RingTypeOK
  <2>2. buffer' \in [Cells -> Nat]
    BY <1>2, <2>1, SizesAssumption, WrittenType DEF StoreHeader, StoreCalls
  <2>3. store' \in [Writers -> StoreCalls]
    BY <1>2, <2>1 DEF StoreHeader, StoreCalls, RingTypeOK
  <2> QED
    BY <1>2, <2>2, <2>3 DEF StoreHeader, RingTypeOK, HeaderFits, FlushInRing
<1>3. ASSUME NEW w \in Writers, Serialize(w)
      PROVE  RingIInv'
  <2>1. store[w] \in StoreCalls
    BY DEF RingTypeOK
  <2>2. buffer' \in [Cells -> Nat]
    <3>1. /\ store[w].at + HeaderSize \in Nat
          /\ store[w].size \in Nat
          /\ store[w].first + HeaderSize \in Nat
      BY <2>1, SizesAssumption DEF StoreCalls
    <3> QED
      BY <1>3, <3>1, WrittenType DEF Serialize
  <2>3. store' \in [Writers -> StoreCalls]
    BY <1>3 DEF Serialize, StoreCalls, NoStore, RingTypeOK
  <2> QED
    BY <1>3, <2>2, <2>3 DEF Serialize, RingTypeOK, HeaderFits, FlushInRing
<1>4. ASSUME NEW force \in BOOLEAN, FlushSnapshot(force)
      PROVE  RingIInv'
  <2>1. head # tail /\ head \in Cells /\ tail \in Cells
    BY <1>4, SizesAssumption
       DEF FlushSnapshot, NothingToFlush, RingTypeOK, HeaderFits, Cells
  <2>2. flush' \in FlushCalls /\ FlushInRing'
    BY <1>4, <2>1 DEF FlushSnapshot, FlushCalls, FlushInRing, Cells
  <2> QED
    BY <1>4, <2>2 DEF FlushSnapshot, RingTypeOK, HeaderFits
<1>5. CASE FlushCopy
  <2>1. file' \in Seq(Nat)
    BY <1>5 DEF FlushCopy, RingTypeOK, FlushInRing
  <2>2. flush' \in FlushCalls /\ FlushInRing'
    <3> DEFINE next == IF flush.at + 1 = BufferSize THEN 0 ELSE flush.at + 1
    <3>1. next \in Cells /\ next \in Nat /\ 0 \in Cells
      BY SizesAssumption DEF FlushInRing, Cells
    <3> HIDE DEF next
    <3>2. flush' = IF next = flush.until THEN NoFlush ELSE [flush EXCEPT !.at = next]
      BY <1>5 DEF FlushCopy, next
    <3>3. CASE next = flush.until
      BY <3>1, <3>2, <3>3 DEF FlushInRing, FlushCalls, NoFlush
    <3>4. CASE next # flush.until
      BY <3>1, <3>2, <3>4 DEF FlushInRing, FlushCalls, RingTypeOK
    <3> QED
      BY <3>3, <3>4
  <2> QED
    BY <1>5, <2>1, <2>2 DEF FlushCopy, RingTypeOK, HeaderFits
<1>6. CASE FlushFails
  BY <1>6 DEF FlushFails, RingTypeOK, HeaderFits, FlushInRing, FlushCalls
<1>7. CASE UNCHANGED ringVars
  BY <1>7 DEF ringVars, RingTypeOK, HeaderFits, FlushInRing
<1> QED
  BY <1>1, <1>2, <1>3, <1>4, <1>5, <1>6, <1>7 DEF RingNext

LEMMA RingInvariant == RingSpec => []RingIInv
BY InitRing, StepKeepsRing, PTL DEF RingSpec

\* Every value the ring keeps has its type.
THEOREM RingTypeCorrect == RingSpec => []RingTypeOK
<1>1. RingIInv => RingTypeOK
  BY DEF RingIInv
<1> QED
  BY <1>1, RingInvariant, PTL

\* fragment_memory always has room for the filler header and its
\* remaining_bytes never underflows, whether or not writers lap the flusher.
THEOREM FillerHeaderFits == RingSpec => []HeaderFits
<1>1. RingIInv => HeaderFits
  BY DEF RingIInv
<1> QED
  BY <1>1, RingInvariant, PTL

-----------------------------------------------------------------------------
(* The two positions tell how much is unflushed, until a writer laps *)

\* Between two laps of the ring the positions and the history agree.
Accounting ==
    ~lapped =>
       /\ reserved - released = IF head >= tail THEN head - tail
                                                ELSE BufferSize - tail + head
       /\ Len(file) + Uncopied = released

\* What not lapping means, as bounds.
LEMMA LapsBounds ==
  ASSUME RingIInv, NEW upTo \in Nat, ~Laps(upTo)
  PROVE  /\ upTo - released < BufferSize
         /\ upTo - Len(file) =< BufferSize
BY SizesAssumption DEF Laps, RingIInv, RingTypeOK

\* A reservation that does not lap moves m_head to where the history says, at
\* most up to one cell before m_tail: a fragmented one cannot pass m_tail.
LEMMA ReserveKeepsAccounting ==
  ASSUME RingIInv, Accounting, NEW w \in Writers, NEW n \in SampleSizes,
         Reserve(w, n)
  PROVE  Accounting'
<1> SUFFICES ASSUME ~lapped' PROVE Accounting'
  BY DEF Accounting
<1> DEFINE bytes == HeaderSize + n
           pad   == IF NeedsFragment(bytes) THEN BufferSize - head ELSE 0
           at    == IF NeedsFragment(bytes) THEN 0 ELSE head
           upTo  == reserved + pad + bytes
<1>1. /\ n \in Nat /\ bytes \in Nat /\ head \in Nat /\ tail \in Nat
      /\ reserved \in Nat /\ released \in Nat /\ BufferSize \in Nat
      /\ HeaderSize \in Nat \ {0}
      /\ head + HeaderSize =< BufferSize /\ tail + HeaderSize =< BufferSize
  BY SizesAssumption DEF RingIInv, RingTypeOK, HeaderFits
<1>2. pad \in Nat /\ upTo \in Nat
  BY <1>1
<1>3. /\ head' = at + bytes
      /\ reserved' = upTo
      /\ lapped' = (lapped \/ Laps(upTo))
      /\ UNCHANGED <<tail, flush, file, released>>
  BY DEF Reserve
<1> HIDE DEF upTo
<1>4. ~lapped /\ ~Laps(upTo)
  BY <1>3, Zenon
<1>5. upTo - released < BufferSize
  BY <1>2, <1>4, LapsBounds
<1>6. /\ reserved - released = IF head >= tail THEN head - tail
                                               ELSE BufferSize - tail + head
      /\ Len(file) + Uncopied = released
  BY <1>4 DEF Accounting
<1>7. (Len(file) + Uncopied = released)'
  BY <1>3, <1>6 DEF Uncopied
<1>8. reserved' - released' = IF head' >= tail' THEN head' - tail'
                                                ELSE BufferSize - tail' + head'
  <2>1. CASE NeedsFragment(bytes)
    <3>1. head' = bytes /\ upTo = reserved + BufferSize - head + bytes
      BY <1>1, <1>3, <2>1 DEF upTo
    <3> QED
      BY <1>1, <1>3, <1>5, <1>6, <3>1
  <2>2. CASE ~NeedsFragment(bytes)
    <3>1. head' = head + bytes /\ upTo = reserved + bytes
      BY <1>1, <1>3, <2>2 DEF upTo
    <3> QED
      BY <1>1, <1>3, <1>5, <1>6, <3>1
  <2> QED
    BY <2>1, <2>2
<1> QED
  BY <1>7, <1>8 DEF Accounting

\* A snapshot turns what is unflushed into what is being copied.
LEMMA SnapshotKeepsAccounting ==
  ASSUME RingIInv, Accounting, NEW force \in BOOLEAN, FlushSnapshot(force)
  PROVE  Accounting'
<1> SUFFICES ASSUME ~lapped' PROVE Accounting'
  BY DEF Accounting
<1>1. /\ head \in Nat /\ tail \in Nat /\ reserved \in Nat /\ released \in Nat
      /\ BufferSize \in Nat /\ head # tail
      /\ Len(file) \in Nat
  BY SizesAssumption DEF RingIInv, RingTypeOK, FlushSnapshot, NothingToFlush
<1>2. /\ flush.stage = "idle"
      /\ flush' = [stage |-> "copying", at |-> tail, until |-> head]
      /\ tail' = head /\ released' = reserved
      /\ UNCHANGED <<head, file, reserved>>
      /\ ~lapped
  BY DEF FlushSnapshot
<1>3. /\ reserved - released = IF head >= tail THEN head - tail
                                               ELSE BufferSize - tail + head
      /\ Len(file) = released
  BY <1>1, <1>2 DEF Accounting, Uncopied
<1>4. Uncopied' = IF head > tail THEN head - tail ELSE BufferSize - tail + head
  BY <1>2 DEF Uncopied
<1> QED
  BY <1>1, <1>2, <1>3, <1>4 DEF Accounting

\* Copying a byte, at either end of the buffer, leaves one byte less to copy.
LEMMA CopyKeepsAccounting ==
  ASSUME RingIInv, Accounting, FlushCopy
  PROVE  Accounting'
<1> SUFFICES ASSUME ~lapped' PROVE Accounting'
  BY DEF Accounting
<1> DEFINE next == IF flush.at + 1 = BufferSize THEN 0 ELSE flush.at + 1
<1>1. /\ flush.at \in 0 .. BufferSize - 1 /\ flush.until \in 0 .. BufferSize - 1
      /\ flush.at # flush.until
      /\ BufferSize \in Nat /\ released \in Nat /\ flush \in FlushCalls
      /\ file \in Seq(Nat) /\ Len(file) \in Nat
  BY SizesAssumption DEF RingIInv, RingTypeOK, FlushInRing, Cells, FlushCopy
<1>2. Len(file') = Len(file) + 1
  BY <1>1 DEF FlushCopy, RingIInv, RingTypeOK, Cells
<1>3. /\ flush.stage = "copying"
      /\ flush' = IF next = flush.until THEN NoFlush ELSE [flush EXCEPT !.at = next]
      /\ UNCHANGED <<head, tail, reserved, released>>
      /\ ~lapped
  BY DEF FlushCopy
<1>4. Uncopied' = Uncopied - 1
  <2>1. Uncopied = IF flush.until > flush.at THEN flush.until - flush.at
                                             ELSE BufferSize - flush.at + flush.until
    BY <1>3 DEF Uncopied
  <2>2. CASE next = flush.until
    <3>1. Uncopied' = 0
      BY <1>3, <2>2 DEF Uncopied, NoFlush
    <3> QED
      BY <1>1, <2>1, <2>2, <3>1
  <2>3. CASE next # flush.until
    <3>1. flush'.at = next /\ flush'.until = flush.until /\ flush'.stage = "copying"
      BY <1>1, <1>3, <2>3 DEF FlushCalls
    <3>2. Uncopied' = IF flush.until > next THEN flush.until - next
                                            ELSE BufferSize - next + flush.until
      BY <3>1 DEF Uncopied
    <3>3. CASE flush.at + 1 = BufferSize
      <4>1. next = 0
        BY <3>3
      <4>2. flush.until > 0 /\ ~(flush.until > flush.at)
        BY <1>1, <2>3, <3>3, <4>1
      <4> HIDE DEF next
      <4> QED
        BY <1>1, <2>1, <3>2, <3>3, <4>1, <4>2
    <3>4. CASE flush.at + 1 # BufferSize
      <4>1. next = flush.at + 1
        BY <3>4
      <4>0. flush.at \in Int /\ flush.until \in Int /\ BufferSize \in Int
        BY <1>1
      <4> HIDE DEF next
      <4>2. CASE flush.until > flush.at
        <5>1. flush.until > next
          BY <1>1, <2>3, <4>1, <4>2
        <5> QED
          BY <2>1, <3>2, <4>0, <4>1, <4>2, <5>1
      <4>3. CASE ~(flush.until > flush.at)
        <5>1. ~(flush.until > next)
          BY <1>1, <4>1, <4>3
        <5> QED
          BY <2>1, <3>2, <4>0, <4>1, <4>3, <5>1
      <4> QED
        BY <4>2, <4>3
    <3> QED
      BY <3>3, <3>4
  <2> QED
    BY <2>2, <2>3
<1>5. Uncopied \in Int
  BY <1>1, <1>3 DEF Uncopied
<1>6. /\ reserved - released = IF head >= tail THEN head - tail
                                               ELSE BufferSize - tail + head
      /\ Len(file) + Uncopied = released
  BY <1>3 DEF Accounting
<1>7. Len(file') + Uncopied' = released'
  BY <1>1, <1>2, <1>3, <1>4, <1>5, <1>6
<1> QED
  BY <1>3, <1>6, <1>7 DEF Accounting

LEMMA StepKeepsAccounting ==
  RingIInv /\ Accounting /\ [RingNext]_ringVars => Accounting'
<1> SUFFICES ASSUME RingIInv, Accounting, [RingNext]_ringVars PROVE Accounting'
  OBVIOUS
<1>1. ASSUME NEW w \in Writers, NEW n \in SampleSizes, Reserve(w, n)
      PROVE  Accounting'
  BY <1>1, ReserveKeepsAccounting
<1>2. ASSUME NEW w \in Writers, StoreHeader(w) \/ Serialize(w)
      PROVE  Accounting'
  BY <1>2 DEF StoreHeader, Serialize, Accounting, Uncopied
<1>3. ASSUME NEW force \in BOOLEAN, FlushSnapshot(force)
      PROVE  Accounting'
  BY <1>3, SnapshotKeepsAccounting
<1>4. CASE FlushCopy
  BY <1>4, CopyKeepsAccounting
<1>5. CASE FlushFails
  BY <1>5 DEF FlushFails, Accounting, Uncopied, RingIInv, RingTypeOK, FlushCalls
<1>6. CASE UNCHANGED ringVars
  BY <1>6 DEF ringVars, Accounting, Uncopied
<1> QED
  BY <1>1, <1>2, <1>3, <1>4, <1>5, <1>6 DEF RingNext

LEMMA AccountingInvariant == RingSpec => [](RingIInv /\ Accounting)
<1>1. RingInit => Accounting
  BY SizesAssumption DEF RingInit, Accounting, Uncopied, NoFlush
<1> QED
  BY <1>1, InitRing, StepKeepsRing, StepKeepsAccounting, PTL DEF RingSpec

\* Unless a writer has lapped the flusher, equal positions mean that nothing is
\* unflushed and flush() computes the exact number of unflushed bytes.
THEOREM UsedSpaceExact == RingSpec => []UsedSpaceIsExact
<1>1. RingIInv /\ Accounting => UsedSpaceIsExact
  <2> SUFFICES ASSUME RingIInv, Accounting, ~lapped
               PROVE  /\ head = tail <=> reserved = released
                      /\ head # tail => UsedSpace = reserved - released
    BY DEF UsedSpaceIsExact
  <2>1. /\ head \in Nat /\ tail \in Nat /\ BufferSize \in Nat
        /\ reserved \in Nat /\ released \in Nat
        /\ HeaderSize \in Nat \ {0}
        /\ head + HeaderSize =< BufferSize /\ tail + HeaderSize =< BufferSize
    BY SizesAssumption DEF RingIInv, RingTypeOK, HeaderFits
  <2>2. reserved - released = IF head >= tail THEN head - tail
                                              ELSE BufferSize - tail + head
    BY DEF Accounting
  <2> QED
    BY <2>1, <2>2 DEF UsedSpace
<1> QED
  BY <1>1, AccountingInvariant, PTL

\* Unless a writer has lapped the flusher, the flusher skips no byte and copies
\* none twice: the file and the copy in progress are all that was released.
THEOREM EveryReleasedByteIsCopied == RingSpec => []CopyIsComplete
<1>1. Accounting => CopyIsComplete
  BY DEF Accounting, CopyIsComplete
<1> QED
  BY <1>1, AccountingInvariant, PTL

-----------------------------------------------------------------------------
(* Where the bytes are, until a writer laps *)

Busy(w) == store[w].stage # "idle"

\* The last byte of the record w is storing.
EndOf(w) == store[w].first + HeaderSize + store[w].size - 1

\* Records being stored are apart from each other.
SpanIInv ==
    /\ \A w \in Writers : Busy(w) => store[w].first >= 1 /\ EndOf(w) =< reserved
    /\ \A v, w \in Writers :
         v # w /\ Busy(v) /\ Busy(w) =>
           EndOf(v) < store[w].first \/ EndOf(w) < store[v].first

\* The bytes that have a cell of their own: the last BufferSize reserved.
InWindow(s) == s \in 1 .. reserved /\ reserved - s < BufferSize

\* Until a writer laps, no byte that is still needed has left the window, a writer
\* is about to write each byte where CellOf looks for it, and StoredBytesInPlace.
PlaceIInv ==
    ~lapped =>
      /\ reserved - Len(file) =< BufferSize
      /\ \A w \in Writers : \A s \in PendingOf(w) :
           InWindow(s) /\ CellOf(s) = store[w].at + s - store[w].first
      /\ \A s \in (Len(file) + 1) .. reserved :
           s \notin Pending => buffer[CellOf(s)] = s

\* The flusher copies up to m_tail, which moves only when it is idle.
UntilIInv == flush.stage # "idle" => flush.until = tail

LogIInv == RingIInv /\ Accounting /\ UntilIInv /\ SpanIInv /\ PlaceIInv

\* The numbers the arithmetic below is about.
LEMMA RingNumbers ==
  ASSUME RingIInv
  PROVE  /\ head \in Nat /\ tail \in Nat /\ reserved \in Nat /\ released \in Nat
         /\ BufferSize \in Nat /\ HeaderSize \in Nat \ {0} /\ Len(file) \in Nat
         /\ head + HeaderSize =< BufferSize /\ tail + HeaderSize =< BufferSize
BY SizesAssumption DEF RingIInv, RingTypeOK, HeaderFits

LEMMA StoreNumbers ==
  ASSUME RingIInv, NEW w \in Writers
  PROVE  /\ store[w] \in StoreCalls
         /\ store[w].first \in Nat /\ store[w].at \in Nat /\ store[w].size \in Nat
         /\ store[w].stage \in {"idle", "reserved", "headed"}
BY DEF RingIInv, RingTypeOK, StoreCalls

LEMMA EndOfType == ASSUME RingIInv, NEW w \in Writers PROVE EndOf(w) \in Int
BY StoreNumbers, RingNumbers, SMTT(30) DEF EndOf

\* The bytes in the window have distinct cells of the buffer.
LEMMA CellOfIsACell ==
  ASSUME RingIInv, NEW s, InWindow(s)
  PROVE  CellOf(s) \in Cells
<1>1. s \in Nat /\ reserved + 1 - s \in 1 .. BufferSize
  BY RingNumbers DEF InWindow
<1> QED
  BY <1>1, RingNumbers, SMTT(30) DEF CellOf, Cells

LEMMA CellOfIsInjective ==
  ASSUME RingIInv, NEW s, NEW t, InWindow(s), InWindow(t), CellOf(s) = CellOf(t)
  PROVE  s = t
<1>1. /\ s \in Nat /\ reserved + 1 - s \in 1 .. BufferSize
      /\ t \in Nat /\ reserved + 1 - t \in 1 .. BufferSize
  BY RingNumbers, SMTT(30) DEF InWindow
<1> DEFINE a == reserved + 1 - s
           b == reserved + 1 - t
<1>2. /\ a \in 1 .. BufferSize /\ b \in 1 .. BufferSize
      /\ head \in Nat /\ BufferSize \in Nat /\ reserved \in Nat
  BY <1>1, RingNumbers
<1>3. /\ CellOf(s) = IF a =< head THEN head - a ELSE BufferSize + head - a
      /\ CellOf(t) = IF b =< head THEN head - b ELSE BufferSize + head - b
  BY DEF CellOf
<1>4. (IF a =< head THEN head - a ELSE BufferSize + head - a)
        = IF b =< head THEN head - b ELSE BufferSize + head - b
  BY <1>3
<1> HIDE DEF a, b
<1>5. a = b
  BY <1>2, <1>4
<1> QED
  BY <1>1, <1>2, <1>5 DEF a, b

\* What is left to write lies within the record.
LEMMA PendingInSpan ==
  ASSUME RingIInv, NEW w \in Writers, NEW s \in PendingOf(w)
  PROVE  Busy(w) /\ s \in store[w].first .. EndOf(w)
<1>1. Busy(w)
  BY DEF PendingOf, Busy
<1>2. s \in store[w].first .. EndOf(w)
  BY <1>1, StoreNumbers, RingNumbers DEF PendingOf, Busy, EndOf
<1> QED
  BY <1>1, <1>2

LEMMA PendingIsApart ==
  ASSUME RingIInv, SpanIInv, NEW v \in Writers, NEW w \in Writers, v # w
  PROVE  PendingOf(v) \cap PendingOf(w) = {}
<1> SUFFICES ASSUME NEW s \in PendingOf(v), s \in PendingOf(w) PROVE FALSE
  OBVIOUS
<1>1. /\ Busy(v) /\ s \in store[v].first .. EndOf(v)
      /\ Busy(w) /\ s \in store[w].first .. EndOf(w)
  BY PendingInSpan
<1>2. EndOf(v) < store[w].first \/ EndOf(w) < store[v].first
  BY <1>1 DEF SpanIInv
<1>3. EndOf(v) \in Int /\ EndOf(w) \in Int
  BY EndOfType
<1> QED
  BY <1>1, <1>2, <1>3, StoreNumbers

\* The cell `back' bytes before m_head = h, around the end of the buffer.
Behind(h, back) == IF back =< h THEN h - back ELSE BufferSize + h - back

LEMMA CellOfIsBehind == \A s : CellOf(s) = Behind(head, reserved + 1 - s)
BY DEF CellOf, Behind

\* When m_head advances, with or without a wrap, a byte stays in its cell.
LEMMA AdvanceKeepsCell ==
  ASSUME NEW h \in Nat, NEW bytes \in Nat, NEW back \in Nat \ {0}, h =< BufferSize
  PROVE  /\ Behind(h + bytes, back + bytes) = Behind(h, back)
         /\ back + bytes =< h =>
              /\ Behind(bytes, back + BufferSize - h + bytes) = h - back
              /\ Behind(h, back) = h - back
BY SizesAssumption DEF Behind

\* A reservation moves m_head and the window, and no byte of both windows to
\* another cell; a fragmented one takes only cells that have left the window.
LEMMA ReserveKeepsCells ==
  ASSUME RingIInv, NEW bytes \in Nat,
         head' = IF NeedsFragment(bytes) THEN bytes ELSE head + bytes,
         reserved' = reserved + bytes +
                       (IF NeedsFragment(bytes) THEN BufferSize - head ELSE 0),
         NEW s \in 1 .. reserved, reserved' - s < BufferSize
  PROVE  /\ CellOf(s)' = CellOf(s)
         /\ NeedsFragment(bytes) => CellOf(s) < head
<1> DEFINE back == reserved + 1 - s
<1>1. back \in Nat \ {0} /\ s \in Nat
  BY RingNumbers
<1>2. CellOf(s) = Behind(head, back) /\ CellOf(s)' = Behind(head', reserved' + 1 - s)
  BY CellOfIsBehind DEF CellOf, Behind
<1>3. CASE NeedsFragment(bytes)
  <2>1. head' = bytes /\ reserved' = reserved + bytes + (BufferSize - head)
    BY <1>3
  <2>2. reserved' + 1 - s = back + BufferSize - head + bytes
    BY <2>1, RingNumbers, SMTT(30)
  <2>3. back + bytes =< head
    BY <2>1, RingNumbers, SMTT(30)
  <2> HIDE DEF back
  <2>a. /\ Behind(bytes, back + BufferSize - head + bytes) = head - back
        /\ Behind(head, back) = head - back
    <3>1. head =< BufferSize
      BY RingNumbers
    <3> QED
      BY <1>1, <2>3, <3>1, RingNumbers, AdvanceKeepsCell
  <2>4. CellOf(s)' = head - back /\ CellOf(s) = head - back
    BY <1>2, <2>1, <2>2, <2>a
  <2>5. head - back < head
    BY <1>1, RingNumbers
  <2> QED
    BY <2>4, <2>5
<1>4. CASE ~NeedsFragment(bytes)
  <2>1. head' = head + bytes /\ reserved' + 1 - s = back + bytes
    BY <1>4, RingNumbers
  <2> HIDE DEF back
  <2>2. Behind(head + bytes, back + bytes) = Behind(head, back)
    <3>1. head =< BufferSize
      BY RingNumbers
    <3> QED
      BY <1>1, <3>1, RingNumbers, AdvanceKeepsCell
  <2> QED
    BY <1>2, <1>4, <2>1, <2>2
<1> QED
  BY <1>3, <1>4

\* The cells of the bytes that an advance of m_head takes: those of the record, and
\* those of a filler.
LEMMA RecordTakesCells ==
  ASSUME NEW bytes \in Nat, NEW at \in Nat, NEW i \in Nat, i < bytes
  PROVE  Behind(at + bytes, bytes - i) = at + i
BY SizesAssumption DEF Behind

LEMMA FillerTakesCells ==
  ASSUME NEW bytes \in Nat, NEW pad \in Nat, NEW i \in Nat, i < pad
  PROVE  Behind(bytes, pad + bytes - i) = BufferSize - pad + i
BY SizesAssumption DEF Behind

\* The record takes the cells from where it begins, a filler the end of the buffer.
LEMMA ReserveTakesCells ==
  ASSUME RingIInv, NEW bytes \in Nat, NEW pad \in Nat, NEW at \in Nat,
         (pad = 0 /\ at = head) \/ (pad = BufferSize - head /\ at = 0),
         head' = at + bytes,
         reserved' = reserved + pad + bytes,
         NEW s \in reserved + 1 .. reserved + pad + bytes
  PROVE  /\ s > reserved + pad => CellOf(s)' = at + s - (reserved + pad + 1)
         /\ s =< reserved + pad => CellOf(s)' = head + s - (reserved + 1)
<1>1. /\ s \in Nat /\ s > reserved /\ s =< reserved + pad + bytes /\ reserved \in Nat
      /\ head \in Nat /\ BufferSize \in Nat
  BY RingNumbers
<1>2. CellOf(s)' = Behind(at + bytes, reserved + pad + bytes + 1 - s)
  BY DEF CellOf, Behind
<1>3. ASSUME s > reserved + pad PROVE CellOf(s)' = at + s - (reserved + pad + 1)
  <2>1. PICK i \in Nat : s = reserved + pad + 1 + i
    <3>1. s - (reserved + pad + 1) \in Nat /\ s = reserved + pad + 1 + (s - (reserved + pad + 1))
      BY <1>1, <1>3
    <3> QED
      BY <3>1
  <2>2. /\ i < bytes
        /\ reserved + pad + bytes + 1 - s = bytes - i
        /\ at + i = at + s - (reserved + pad + 1)
    BY <1>1, <2>1
  <2>3. Behind(at + bytes, bytes - i) = at + i
    BY <2>2, RecordTakesCells
  <2>4. CellOf(s)' = Behind(at + bytes, bytes - i)
    BY <1>2, <2>2
  <2> QED
    BY <2>2, <2>3, <2>4
<1>4. ASSUME s =< reserved + pad PROVE CellOf(s)' = head + s - (reserved + 1)
  <2>1. PICK i \in Nat : s = reserved + 1 + i
    <3>1. s - (reserved + 1) \in Nat /\ s = reserved + 1 + (s - (reserved + 1))
      BY <1>1
    <3> QED
      BY <3>1
  <2>2. i < pad /\ pad = BufferSize - head /\ at = 0
    BY <1>1, <1>4, <2>1
  <2>3. /\ at + bytes = bytes
        /\ reserved + pad + bytes + 1 - s = pad + bytes - i
        /\ BufferSize - pad + i = head + s - (reserved + 1)
    BY <1>1, <2>1, <2>2
  <2>4. Behind(bytes, pad + bytes - i) = BufferSize - pad + i
    BY <2>2, FillerTakesCells
  <2>5. CellOf(s)' = Behind(bytes, pad + bytes - i)
    BY <1>2, <2>3
  <2> QED
    BY <2>3, <2>4, <2>5
<1> QED
  BY <1>3, <1>4

\* The hypotheses under which the step of a reservation is examined.
LEMMA ReserveFacts ==
  ASSUME RingIInv, NEW w \in Writers, NEW n \in SampleSizes, Reserve(w, n)
  PROVE  \E bytes, pad, at \in Nat :
           /\ bytes = HeaderSize + n /\ n \in Nat /\ bytes + HeaderSize =< BufferSize
           /\ \/ pad = 0 /\ at = head /\ ~NeedsFragment(bytes)
              \/ pad = BufferSize - head /\ at = 0 /\ NeedsFragment(bytes)
           /\ head' = at + bytes
           /\ reserved' = reserved + pad + bytes
           /\ buffer' = [c \in Cells |-> IF pad > 0 /\ c >= head
                                           THEN reserved + 1 + c - head ELSE buffer[c]]
           /\ store[w].stage = "idle"
           /\ store' = [store EXCEPT ![w] =
                          [stage |-> "reserved", first |-> reserved + pad + 1,
                           at |-> at, size |-> n]]
           /\ lapped' = (lapped \/ Laps(reserved'))
           /\ UNCHANGED <<tail, flush, file, released>>
<1> DEFINE bytes == HeaderSize + n
           pad   == IF NeedsFragment(bytes) THEN BufferSize - head ELSE 0
           at    == IF NeedsFragment(bytes) THEN 0 ELSE head
<1>1. n \in Nat /\ bytes \in Nat /\ bytes + HeaderSize =< BufferSize
  BY RingNumbers, SizesAssumption
<1>2. /\ pad \in Nat /\ at \in Nat
      /\ \/ pad = 0 /\ at = head /\ ~NeedsFragment(bytes)
         \/ pad = BufferSize - head /\ at = 0 /\ NeedsFragment(bytes)
  BY RingNumbers
<1>3. /\ head' = at + bytes
      /\ reserved' = reserved + pad + bytes
      /\ buffer' = [c \in Cells |-> IF pad > 0 /\ c >= head
                                      THEN reserved + 1 + c - head ELSE buffer[c]]
      /\ store[w].stage = "idle"
      /\ store' = [store EXCEPT ![w] =
                     [stage |-> "reserved", first |-> reserved + pad + 1,
                      at |-> at, size |-> n]]
      /\ UNCHANGED <<tail, flush, file, released>>
  BY DEF Reserve
<1>4. lapped' = (lapped \/ Laps(reserved'))
  BY Zenon DEF Reserve
<1> HIDE DEF bytes, pad, at
<1>5. bytes = HeaderSize + n
  BY DEF bytes
<1> QED
  BY <1>1, <1>2, <1>3, <1>4, <1>5

\* The spans and the bytes left to write after a reservation by w.
LEMMA ReserveKeepsSpans ==
  ASSUME RingIInv, SpanIInv, NEW w \in Writers, NEW n \in Nat,
         NEW pad \in Nat, NEW at \in Nat
  PROVE  /\ store[w].stage = "idle"
         /\ store' = [store EXCEPT ![w] =
                       [stage |-> "reserved", first |-> reserved + pad + 1,
                        at |-> at, size |-> n]]
         /\ reserved' = reserved + pad + (HeaderSize + n)
         => /\ SpanIInv'
            /\ PendingOf(w)' = (reserved + pad + 1) .. reserved'
            /\ \A v \in Writers : v # w => PendingOf(v)' = PendingOf(v)
            /\ Pending' = Pending \cup (reserved + pad + 1) .. reserved'
<1>0. SUFFICES
        ASSUME /\ store[w].stage = "idle"
               /\ store' = [store EXCEPT ![w] =
                             [stage |-> "reserved", first |-> reserved + pad + 1,
                              at |-> at, size |-> n]]
               /\ reserved' = reserved + pad + (HeaderSize + n)
        PROVE  /\ SpanIInv'
               /\ PendingOf(w)' = (reserved + pad + 1) .. reserved'
               /\ \A v \in Writers : v # w => PendingOf(v)' = PendingOf(v)
               /\ Pending' = Pending \cup (reserved + pad + 1) .. reserved'
  OBVIOUS
<1>n. reserved \in Nat /\ HeaderSize \in Nat
  BY RingNumbers
<1>1. store \in [Writers -> StoreCalls]
  BY DEF RingIInv, RingTypeOK
<1>2. /\ store'[w].stage = "reserved" /\ store'[w].first = reserved + pad + 1
      /\ store'[w].at = at /\ store'[w].size = n
      /\ reserved' = reserved + pad + (HeaderSize + n)
  BY <1>0, <1>1
<1>3. \A v \in Writers : v # w => store'[v] = store[v]
  BY <1>0, <1>1
<1>4. Busy(w)' /\ EndOf(w)' = reserved'
  <2>0. EndOf(w)' = store'[w].first + HeaderSize + store'[w].size - 1
    BY DEF EndOf
  <2>1. EndOf(w)' = reserved + pad + 1 + HeaderSize + n - 1
    BY <1>2, <2>0, <1>n
  <2>2. reserved + pad + 1 + HeaderSize + n - 1 = reserved + pad + (HeaderSize + n)
    BY <1>n
  <2> QED
    BY <1>2, <2>1, <2>2 DEF Busy
<1>5. \A v \in Writers : v # w => Busy(v)' = Busy(v) /\ EndOf(v)' = EndOf(v)
  BY <1>3 DEF Busy, EndOf
<1>6. \A v \in Writers : EndOf(v) \in Int
  BY EndOfType
<1>7. SpanIInv'
  <2>1. ASSUME NEW v \in Writers, Busy(v)'
        PROVE  store'[v].first >= 1 /\ EndOf(v)' =< reserved'
    <3>1. CASE v = w
      BY <1>2, <1>4, <3>1, <1>n
    <3>2. CASE v # w
      <4>1. store[v].first >= 1 /\ EndOf(v) =< reserved
        BY <1>5, <2>1, <3>2 DEF SpanIInv
      <4>2. EndOf(v) \in Int
        BY <1>6
      <4>3. EndOf(v) =< reserved + pad + (HeaderSize + n)
        BY <1>n, <4>1, <4>2
      <4> QED
        BY <1>2, <1>3, <1>5, <2>1, <3>2, <4>1, <4>3
    <3> QED
      BY <3>1, <3>2
  <2>2. ASSUME NEW u \in Writers, NEW v \in Writers, u # v, Busy(u)', Busy(v)'
        PROVE  EndOf(u)' < store'[v].first \/ EndOf(v)' < store'[u].first
    <3>1. ASSUME NEW x \in Writers, x # w, Busy(x)' PROVE EndOf(x)' < store'[w].first
      <4>1. EndOf(x)' = EndOf(x) /\ EndOf(x) =< reserved
        BY <1>5, <3>1 DEF SpanIInv
      <4>2. EndOf(x) < reserved + pad + 1
        BY <1>6, <4>1, <1>n
      <4> QED
        BY <1>2, <4>1, <4>2
    <3>2. CASE u = w \/ v = w
      BY <2>2, <3>1, <3>2
    <3>3. CASE u # w /\ v # w
      BY <1>3, <1>5, <2>2, <3>3 DEF SpanIInv
    <3> QED
      BY <3>2, <3>3
  <2> QED
    BY <2>1, <2>2 DEF SpanIInv
<1>8. PendingOf(w)' = (reserved + pad + 1) .. reserved'
  <2>1. store'[w].first + HeaderSize + store'[w].size - 1 = reserved'
    BY <1>4 DEF EndOf
  <2> QED
    BY <1>2, <2>1 DEF PendingOf
<1>9. \A v \in Writers : v # w => PendingOf(v)' = PendingOf(v)
  BY <1>3 DEF PendingOf
<1>10. PendingOf(w) = {}
  BY <1>0 DEF PendingOf
<1>11. Pending' = Pending \cup (reserved + pad + 1) .. reserved'
  BY <1>8, <1>9, <1>10 DEF Pending
<1> QED
  BY <1>7, <1>8, <1>9, <1>11

LEMMA PendingOfWriters ==
  ASSUME NEW s PROVE s \in Pending <=> \E w \in Writers : s \in PendingOf(w)
BY DEF Pending

\* A reservation that does not lap leaves every byte that is needed in its cell and
\* writes the filler in the filler's own cells.
LEMMA ReserveKeepsPlace ==
  ASSUME RingIInv, SpanIInv, PlaceIInv, NEW w \in Writers, NEW n \in SampleSizes,
         Reserve(w, n)
  PROVE  SpanIInv' /\ PlaceIInv'
<1>1. PICK bytes \in Nat, pad \in Nat, at \in Nat :
           /\ bytes = HeaderSize + n /\ n \in Nat /\ bytes + HeaderSize =< BufferSize
           /\ \/ pad = 0 /\ at = head /\ ~NeedsFragment(bytes)
              \/ pad = BufferSize - head /\ at = 0 /\ NeedsFragment(bytes)
           /\ head' = at + bytes
           /\ reserved' = reserved + pad + bytes
           /\ buffer' = [c \in Cells |-> IF pad > 0 /\ c >= head
                                           THEN reserved + 1 + c - head ELSE buffer[c]]
           /\ store[w].stage = "idle"
           /\ store' = [store EXCEPT ![w] =
                          [stage |-> "reserved", first |-> reserved + pad + 1,
                           at |-> at, size |-> n]]
           /\ lapped' = (lapped \/ Laps(reserved'))
           /\ UNCHANGED <<tail, flush, file, released>>
  BY ReserveFacts
<1>n. /\ head \in Nat /\ reserved \in Nat /\ BufferSize \in Nat /\ HeaderSize \in Nat \ {0}
      /\ head + HeaderSize =< BufferSize /\ Len(file) \in Nat
      /\ bytes + HeaderSize =< BufferSize /\ file' = file
      /\ reserved' = reserved + pad + bytes
  BY <1>1, RingNumbers
<1>2. /\ SpanIInv'
      /\ PendingOf(w)' = (reserved + pad + 1) .. reserved'
      /\ \A v \in Writers : v # w => PendingOf(v)' = PendingOf(v)
      /\ Pending' = Pending \cup (reserved + pad + 1) .. reserved'
  BY <1>1, ReserveKeepsSpans
<1>3. SUFFICES ASSUME ~lapped' PROVE PlaceIInv'
  BY <1>2 DEF PlaceIInv
<1>4. /\ ~lapped
      /\ reserved' - Len(file) =< BufferSize
      /\ \A s \in Pending : reserved' - s < BufferSize
  <2>1. ~lapped /\ ~Laps(reserved')
    BY <1>1, <1>3, Zenon
  <2>2. \A s \in Pending : ~(reserved' - s >= BufferSize)
    BY <2>1, Zenon DEF Laps
  <2>3. ASSUME NEW s \in Pending PROVE reserved' - s < BufferSize
    <3>1. PICK v \in Writers : s \in PendingOf(v)
      BY PendingOfWriters
    <3>2. s \in store[v].first .. EndOf(v)
      BY <3>1, PendingInSpan
    <3> QED
      BY <1>n, <2>2, <3>2
  <2>4. ~(reserved' - Len(file) > BufferSize)
    BY <2>1, Zenon DEF Laps
  <2> QED
    BY <1>n, <2>1, <2>3, <2>4
<1>5. ASSUME NEW s \in 1 .. reserved, reserved' - s < BufferSize
      PROVE  CellOf(s)' = CellOf(s) /\ (pad > 0 => CellOf(s) < head)
  <2>1. /\ head' = IF NeedsFragment(bytes) THEN bytes ELSE head + bytes
        /\ reserved' = reserved + bytes +
                          (IF NeedsFragment(bytes) THEN BufferSize - head ELSE 0)
        /\ pad > 0 => NeedsFragment(bytes)
    <3>1. CASE NeedsFragment(bytes)
      BY <1>1, <1>n, <3>1
    <3>2. CASE ~NeedsFragment(bytes)
      BY <1>1, <1>n, <3>2
    <3> QED
      BY <3>1, <3>2
  <2> QED
    BY <1>5, <2>1, ReserveKeepsCells
<1>6. ASSUME NEW s \in reserved + 1 .. reserved + pad + bytes
      PROVE  /\ s > reserved + pad => CellOf(s)' = at + s - (reserved + pad + 1)
             /\ s =< reserved + pad => CellOf(s)' = head + s - (reserved + 1)
  <2>1. (pad = 0 /\ at = head) \/ (pad = BufferSize - head /\ at = 0)
    BY <1>1
  <2>2. head' = at + bytes
    BY <1>1
  <2>3. reserved' = reserved + pad + bytes
    BY <1>1
  <2> QED
    BY <2>1, <2>2, <2>3, ReserveTakesCells
<1>7. ASSUME NEW v \in Writers, NEW s \in PendingOf(v)'
      PROVE  InWindow(s)' /\ CellOf(s)' = store'[v].at + s - store'[v].first
  <2>1. CASE v # w
    <3>1. s \in PendingOf(v) /\ s \in Pending
      BY <1>2, <1>7, <2>1, PendingOfWriters
    <3>2. InWindow(s) /\ CellOf(s) = store[v].at + s - store[v].first
      BY <1>4, <3>1 DEF PlaceIInv
    <3>3. s \in 1 .. reserved /\ reserved' - s < BufferSize
      BY <1>4, <3>1, <3>2 DEF InWindow
    <3>4. InWindow(s)'
      BY <1>n, <3>3 DEF InWindow
    <3>5. store'[v] = store[v]
      BY <1>1, <2>1 DEF RingIInv, RingTypeOK
    <3> QED
      BY <1>5, <3>2, <3>3, <3>4, <3>5
  <2>2. CASE v = w
    <3>1. s \in (reserved + pad + 1) .. reserved'
      BY <1>2, <1>7, <2>2
    <3>2. s \in reserved + 1 .. reserved + pad + bytes /\ s > reserved + pad
      BY <1>n, <3>1
    <3>3. CellOf(s)' = at + s - (reserved + pad + 1)
      BY <1>6, <3>2
    <3>4. InWindow(s)'
      BY <1>n, <3>2 DEF InWindow
    <3>5. store'[w].at = at /\ store'[w].first = reserved + pad + 1
      BY <1>1 DEF RingIInv, RingTypeOK
    <3> QED
      BY <2>2, <3>3, <3>4, <3>5
  <2> QED
    BY <2>1, <2>2
<1>8. ASSUME NEW s \in (Len(file') + 1) .. reserved', s \notin Pending'
      PROVE  buffer'[CellOf(s)'] = s
  <2>0. /\ \A c \in Cells : ~(pad > 0 /\ c >= head) => buffer'[c] = buffer[c]
        /\ \A c \in Cells : pad > 0 /\ c >= head => buffer'[c] = reserved + 1 + c - head
    BY <1>1
  <2>1. CASE s =< reserved
    <3>1. s \in 1 .. reserved /\ reserved' - s < BufferSize /\ s \in (Len(file) + 1) .. reserved
      BY <1>4, <1>n, <1>8, <2>1
    <3>2. InWindow(s)
      BY <1>n, <3>1 DEF InWindow
    <3>3. CellOf(s) \in Cells /\ CellOf(s)' = CellOf(s) /\ (pad > 0 => CellOf(s) < head)
      BY <1>5, <3>1, <3>2, CellOfIsACell
    <3>4. buffer[CellOf(s)] = s
      BY <1>2, <1>4, <1>8, <3>1 DEF PlaceIInv
    <3>5. ~(pad > 0 /\ CellOf(s) >= head)
      BY <1>n, <3>3 DEF Cells
    <3> QED
      BY <2>0, <3>3, <3>4, <3>5
  <2>2. CASE s > reserved
    <3>1. s \in Int /\ s =< reserved + pad + bytes
      BY <1>n, <1>8
    <3>2. s =< reserved + pad
      BY <1>2, <1>n, <1>8, <3>1
    <3>3. CellOf(s)' = head + s - (reserved + 1)
      BY <1>6, <1>n, <2>2, <3>1, <3>2
    <3>4. pad > 0 /\ pad = BufferSize - head
      BY <1>1, <1>n, <2>2, <3>1, <3>2
    <3>5. /\ head + s - (reserved + 1) \in Cells
          /\ head + s - (reserved + 1) >= head
          /\ reserved + 1 + (head + s - (reserved + 1)) - head = s
      BY <1>n, <2>2, <3>1, <3>2, <3>4 DEF Cells
    <3> QED
      BY <2>0, <3>3, <3>4, <3>5
  <2> QED
    BY <1>n, <1>8, <2>1, <2>2
<1>9. reserved' - Len(file') =< BufferSize
  BY <1>4, <1>n
<1> QED
  BY <1>7, <1>8, <1>9 DEF PlaceIInv

\* The bytes w writes in one step of store(): `count' of them, the first one byte
\* `byte', are no longer pending, and each is in its cell.
WritesPending(w, byte, count) ==
    /\ byte .. (byte + count - 1) \subseteq PendingOf(w)
    /\ Pending' = Pending \ (byte .. (byte + count - 1))
    /\ buffer' = Written(store[w].at + (byte - store[w].first), count, byte)
    /\ \A v \in Writers : \A s \in PendingOf(v)' :
         /\ s \in PendingOf(v)
         /\ store'[v].at = store[v].at /\ store'[v].first = store[v].first
    /\ UNCHANGED <<head, file, reserved, lapped>>

LEMMA WriteKeepsPlace ==
  ASSUME RingIInv, SpanIInv, PlaceIInv, NEW w \in Writers,
         NEW byte \in Nat, NEW count \in Nat, WritesPending(w, byte, count)
  PROVE  PlaceIInv'
<1>1. SUFFICES ASSUME ~lapped' PROVE PlaceIInv'
  BY DEF PlaceIInv
<1>2. /\ ~lapped
      /\ head' = head /\ file' = file /\ reserved' = reserved
      /\ reserved \in Nat /\ BufferSize \in Nat /\ Len(file) \in Nat
      /\ store[w].at \in Nat /\ store[w].first \in Nat
  BY <1>1, RingNumbers, StoreNumbers DEF WritesPending
<1>3. ASSUME NEW s PROVE CellOf(s)' = CellOf(s) /\ InWindow(s)' = InWindow(s)
  BY <1>2 DEF CellOf, InWindow
<1>4. ASSUME NEW v \in Writers, NEW s \in PendingOf(v)'
      PROVE  InWindow(s)' /\ CellOf(s)' = store'[v].at + s - store'[v].first
  <2>1. /\ s \in PendingOf(v)
        /\ store'[v].at = store[v].at /\ store'[v].first = store[v].first
    BY <1>4 DEF WritesPending
  <2>2. InWindow(s) /\ CellOf(s) = store[v].at + s - store[v].first
    BY <1>2, <2>1 DEF PlaceIInv
  <2> QED
    BY <1>3, <2>1, <2>2
<1> DEFINE cell == store[w].at + (byte - store[w].first)
<1>5. ASSUME NEW s \in byte .. (byte + count - 1)
      PROVE  InWindow(s) /\ CellOf(s) = cell + s - byte /\ CellOf(s) \in Cells
  <2>1. s \in PendingOf(w)
    BY DEF WritesPending
  <2>2. InWindow(s) /\ CellOf(s) = store[w].at + s - store[w].first
    BY <1>2, <2>1 DEF PlaceIInv
  <2>3. store[w].at + s - store[w].first = cell + s - byte
    BY <1>2
  <2> QED
    BY <2>2, <2>3, CellOfIsACell
<1>6. /\ \A c \in Cells : ~(c >= cell /\ c < cell + count) => buffer'[c] = buffer[c]
      /\ \A c \in Cells : c >= cell /\ c < cell + count => buffer'[c] = byte + c - cell
  BY DEF WritesPending, Written
<1>7. cell \in Int
  BY <1>2
<1> HIDE DEF cell
<1>8. ASSUME NEW s \in (Len(file') + 1) .. reserved', s \notin Pending'
      PROVE  buffer'[CellOf(s)'] = s
  <2>1. s \in (Len(file) + 1) .. reserved /\ InWindow(s)
    BY <1>2 DEF InWindow, PlaceIInv
  <2>2. CellOf(s) \in Cells
    BY <2>1, CellOfIsACell
  <2>3. CASE s \in byte .. (byte + count - 1)
    <3>1. CellOf(s) = cell + s - byte
      BY <1>5, <2>3
    <3>2. /\ cell + s - byte >= cell /\ cell + s - byte < cell + count
          /\ byte + (cell + s - byte) - cell = s
      BY <1>7, <2>3
    <3> QED
      BY <1>3, <1>6, <2>2, <3>1, <3>2
  <2>4. CASE s \notin byte .. (byte + count - 1)
    <3>1. s \notin Pending
      BY <1>8, <2>4 DEF WritesPending
    <3>2. buffer[CellOf(s)] = s
      BY <1>2, <2>1, <3>1 DEF PlaceIInv
    <3>3. ASSUME CellOf(s) >= cell, CellOf(s) < cell + count PROVE FALSE
      <4>1. CellOf(s) \in Int
        BY <1>2, <2>2 DEF Cells
      <4>2. PICK t \in byte .. (byte + count - 1) : CellOf(s) = cell + t - byte
        <5>1. /\ byte + CellOf(s) - cell \in byte .. (byte + count - 1)
              /\ CellOf(s) = cell + (byte + CellOf(s) - cell) - byte
          BY <1>7, <3>3, <4>1
        <5> QED
          BY <5>1
      <4>3. InWindow(t) /\ CellOf(t) = CellOf(s)
        BY <1>5, <4>2
      <4>4. s = t
        BY <2>1, <4>3, CellOfIsInjective
      <4> QED
        BY <2>4, <4>4
    <3> QED
      BY <1>3, <1>6, <2>2, <3>2, <3>3
  <2> QED
    BY <2>3, <2>4
<1>9. reserved' - Len(file') =< BufferSize
  BY <1>2 DEF PlaceIInv
<1> QED
  BY <1>4, <1>8, <1>9 DEF PlaceIInv

\* store() writes its header, and then its value, over bytes of its own that were
\* pending until then.
LEMMA HeaderWritesPending ==
  ASSUME RingIInv, SpanIInv, NEW w \in Writers, StoreHeader(w)
  PROVE  SpanIInv' /\ WritesPending(w, store[w].first, HeaderSize)
<1> DEFINE first == store[w].first
           size == store[w].size
<1>1. /\ store \in [Writers -> StoreCalls] /\ first \in Nat /\ size \in Nat
      /\ store[w].at \in Nat /\ HeaderSize \in Nat
  BY RingNumbers, StoreNumbers DEF RingIInv, RingTypeOK
<1>2. /\ store[w].stage = "reserved"
      /\ store' = [store EXCEPT ![w].stage = "headed"]
      /\ buffer' = Written(store[w].at, HeaderSize, first)
      /\ UNCHANGED <<head, file, reserved, lapped>>
  BY DEF StoreHeader
<1>3. /\ store'[w].stage = "headed" /\ store'[w].first = first
      /\ store'[w].size = size /\ store'[w].at = store[w].at
      /\ \A v \in Writers : v # w => store'[v] = store[v]
  BY <1>1, <1>2 DEF StoreCalls
<1>4. /\ PendingOf(w) = first .. (first + HeaderSize + size - 1)
      /\ PendingOf(w)' = (first + HeaderSize) .. (first + HeaderSize + size - 1)
  BY <1>2, <1>3 DEF PendingOf
<1>5. ASSUME NEW v \in Writers, v # w PROVE PendingOf(v)' = PendingOf(v)
  BY <1>3, <1>5 DEF PendingOf
<1>6. SpanIInv'
  <2>1. ASSUME NEW v \in Writers
        PROVE  Busy(v)' = Busy(v) /\ EndOf(v)' = EndOf(v) /\ store'[v].first = store[v].first
    BY <1>2, <1>3 DEF Busy, EndOf
  <2> QED
    BY <1>2, <2>1 DEF SpanIInv
<1>7. /\ first .. (first + HeaderSize - 1) \subseteq PendingOf(w)
      /\ PendingOf(w)' = PendingOf(w) \ (first .. (first + HeaderSize - 1))
  BY <1>1, <1>4
<1>8. Pending' = Pending \ (first .. (first + HeaderSize - 1))
  <2>1. ASSUME NEW v \in Writers, v # w
        PROVE  PendingOf(v) \cap (first .. (first + HeaderSize - 1)) = {}
    BY <1>7, <2>1, PendingIsApart
  <2> QED
    BY <1>5, <1>7, <2>1 DEF Pending
<1>9. store[w].at + (first - first) = store[w].at
  BY <1>1
<1>10. ASSUME NEW v \in Writers, NEW s \in PendingOf(v)'
       PROVE  /\ s \in PendingOf(v)
              /\ store'[v].at = store[v].at /\ store'[v].first = store[v].first
  BY <1>3, <1>5, <1>7
<1> HIDE DEF first
<1>11. WritesPending(w, first, HeaderSize)
  BY <1>2, <1>7, <1>8, <1>9, <1>10 DEF WritesPending, first
<1> QED
  BY <1>6, <1>11 DEF first

LEMMA ValueWritesPending ==
  ASSUME RingIInv, SpanIInv, NEW w \in Writers, Serialize(w)
  PROVE  SpanIInv' /\ WritesPending(w, store[w].first + HeaderSize, store[w].size)
<1> DEFINE byte == store[w].first + HeaderSize
           size == store[w].size
<1>1. /\ store \in [Writers -> StoreCalls] /\ store[w].first \in Nat /\ size \in Nat
      /\ store[w].at \in Nat /\ HeaderSize \in Nat /\ byte \in Nat
  BY RingNumbers, StoreNumbers DEF RingIInv, RingTypeOK
<1>2. /\ store[w].stage = "headed"
      /\ store' = [store EXCEPT ![w] = NoStore]
      /\ buffer' = Written(store[w].at + HeaderSize, size, byte)
      /\ UNCHANGED <<head, file, reserved, lapped>>
  BY DEF Serialize
<1>3. /\ store'[w].stage = "idle"
      /\ \A v \in Writers : v # w => store'[v] = store[v]
  BY <1>1, <1>2 DEF NoStore
<1>4. PendingOf(w) = byte .. (byte + size - 1) /\ PendingOf(w)' = {}
  BY <1>2, <1>3 DEF PendingOf
<1>5. ASSUME NEW v \in Writers, v # w PROVE PendingOf(v)' = PendingOf(v)
  BY <1>3, <1>5 DEF PendingOf
<1>6. SpanIInv'
  <2>1. ASSUME NEW v \in Writers, Busy(v)'
        PROVE  /\ Busy(v) /\ EndOf(v)' = EndOf(v) /\ store'[v].first = store[v].first
    BY <1>3, <2>1 DEF Busy, EndOf
  <2> QED
    BY <1>2, <2>1 DEF SpanIInv
<1>7. Pending' = Pending \ (byte .. (byte + size - 1))
  <2>1. ASSUME NEW v \in Writers, v # w
        PROVE  PendingOf(v) \cap (byte .. (byte + size - 1)) = {}
    BY <1>4, <2>1, PendingIsApart
  <2> QED
    BY <1>4, <1>5, <2>1 DEF Pending
<1>8. store[w].at + (byte - store[w].first) = store[w].at + HeaderSize
  BY <1>1
<1>9. ASSUME NEW v \in Writers, NEW s \in PendingOf(v)'
      PROVE  /\ s \in PendingOf(v)
             /\ store'[v].at = store[v].at /\ store'[v].first = store[v].first
  BY <1>3, <1>4, <1>5, <1>9
<1> HIDE DEF byte
<1>10. WritesPending(w, byte, size)
  BY <1>2, <1>4, <1>7, <1>8, <1>9 DEF WritesPending
<1> QED
  BY <1>6, <1>10 DEF byte

\* The flusher neither reserves nor writes in the ring; a copy makes the file longer.
LEMMA FlusherKeepsPlace ==
  ASSUME RingIInv, SpanIInv, PlaceIInv,
         UNCHANGED <<head, buffer, store, reserved, lapped>>,
         Len(file) =< Len(file'), Len(file') \in Nat
  PROVE  SpanIInv' /\ PlaceIInv'
<1>1. SpanIInv'
  BY DEF SpanIInv, Busy, EndOf
<1>2. /\ \A w \in Writers : PendingOf(w)' = PendingOf(w)
      /\ Pending' = Pending
  BY DEF PendingOf, Pending
<1>3. \A s : CellOf(s)' = CellOf(s) /\ InWindow(s)' = InWindow(s)
  BY DEF CellOf, InWindow
<1>4. /\ reserved \in Nat /\ BufferSize \in Nat /\ Len(file) \in Nat
      /\ Len(file) =< Len(file') /\ Len(file') \in Nat
  BY RingNumbers
<1>5. SUFFICES ASSUME ~lapped' PROVE PlaceIInv'
  BY <1>1 DEF PlaceIInv
<1>6. ~lapped /\ reserved' - Len(file') =< BufferSize
  BY <1>4, <1>5 DEF PlaceIInv
<1>7. ASSUME NEW s \in (Len(file') + 1) .. reserved' PROVE s \in (Len(file) + 1) .. reserved
  BY <1>4
<1> QED
  BY <1>2, <1>3, <1>6, <1>7 DEF PlaceIInv

\* The flusher stands on the cell of the next byte of the file.
LEMMA CopyReadsNextByte ==
  ASSUME LogIInv, ~lapped, flush.stage = "copying"
  PROVE  /\ Len(file) + 1 \in 1 .. reserved
         /\ CellOf(Len(file) + 1) = flush.at
<1>1. /\ head \in Nat /\ tail \in Nat /\ reserved \in Nat /\ released \in Nat
      /\ BufferSize \in Nat /\ Len(file) \in Nat
      /\ head < BufferSize /\ tail < BufferSize
      /\ flush.at \in 0 .. BufferSize - 1 /\ flush.until = tail /\ flush.at # tail
  BY RingNumbers DEF LogIInv, RingIInv, FlushInRing, UntilIInv, Cells
<1>2. /\ reserved - released = IF head >= tail THEN head - tail
                                                ELSE BufferSize - tail + head
      /\ Len(file) + Uncopied = released
      /\ reserved - Len(file) =< BufferSize
  BY DEF LogIInv, Accounting, PlaceIInv
<1>3. Uncopied = IF tail > flush.at THEN tail - flush.at ELSE BufferSize - flush.at + tail
  BY <1>1 DEF Uncopied
<1> DEFINE back == reserved - Len(file)
<1>4. back = (IF head >= tail THEN head - tail ELSE BufferSize - tail + head)
               + (IF tail > flush.at THEN tail - flush.at
                                     ELSE BufferSize - flush.at + tail)
  <2>1. Uncopied \in Int
    BY <1>1, <1>3
  <2>2. back = (reserved - released) + Uncopied
    BY <1>1, <1>2, <2>1
  <2> QED
    BY <1>2, <1>3, <2>2
<1>5. back >= 1
  BY <1>1, <1>4, SMTT(30)
<1>6. reserved + 1 - (Len(file) + 1) = back
  BY <1>1
<1>7. CellOf(Len(file) + 1) = IF back =< head THEN head - back ELSE BufferSize + head - back
  BY <1>6 DEF CellOf
<1>8. back \in Int /\ back =< BufferSize
  BY <1>1, <1>2
<1>9. Len(file) + 1 \in 1 .. reserved
  BY <1>1, <1>5
<1> HIDE DEF back
<1>10. (IF back =< head THEN head - back ELSE BufferSize + head - back) = flush.at
  <2>1. CASE tail > flush.at /\ head >= tail
    BY <1>1, <1>4, <1>8, <2>1
  <2>2. CASE tail > flush.at /\ ~(head >= tail)
    BY <1>1, <1>4, <1>8, <2>2
  <2>3. CASE ~(tail > flush.at) /\ head >= tail
    BY <1>1, <1>4, <1>8, <2>3
  <2>4. CASE ~(tail > flush.at) /\ ~(head >= tail)
    BY <1>1, <1>4, <1>8, <2>4
  <2> QED
    BY <2>1, <2>2, <2>3, <2>4
<1> QED
  BY <1>7, <1>9, <1>10

\* What a copy adds to the file.
LEMMA CopyAppends ==
  ASSUME RingIInv, FlushCopy
  PROVE  /\ file' = Append(file, buffer[flush.at]) /\ file' \in Seq(Nat)
         /\ Len(file') = Len(file) + 1
         /\ file'[Len(file) + 1] = buffer[flush.at]
<1>1. file \in Seq(Nat) /\ buffer[flush.at] \in Nat
  BY DEF RingIInv, RingTypeOK, FlushInRing
<1>2. file' = Append(file, buffer[flush.at])
  BY DEF FlushCopy
<1> QED
  BY <1>1, <1>2

LEMMA InitLog == RingInit => LogIInv
<1> SUFFICES ASSUME RingInit PROVE LogIInv
  OBVIOUS
<1>1. Accounting
  BY SizesAssumption DEF RingInit, Accounting, Uncopied, NoFlush
<1>2. UntilIInv
  BY DEF RingInit, UntilIInv, NoFlush
<1>3. SpanIInv
  BY DEF RingInit, SpanIInv, Busy, NoStore
<1>4. PlaceIInv
  <2>1. \A w \in Writers : PendingOf(w) = {}
    BY DEF RingInit, PendingOf, NoStore
  <2>2. Len(file) = 0 /\ reserved = 0
    BY DEF RingInit
  <2> QED
    BY <2>1, <2>2, SizesAssumption DEF PlaceIInv
<1> QED
  BY <1>1, <1>2, <1>3, <1>4, InitRing DEF LogIInv

LEMMA StepKeepsLog == LogIInv /\ [RingNext]_ringVars => LogIInv'
<1> SUFFICES ASSUME LogIInv, [RingNext]_ringVars PROVE LogIInv'
  OBVIOUS
<1>1. RingIInv /\ Accounting /\ UntilIInv /\ SpanIInv /\ PlaceIInv
  BY DEF LogIInv
<1>2. RingIInv' /\ Accounting'
  BY <1>1, StepKeepsRing, StepKeepsAccounting
<1>3. UntilIInv'
  BY <1>1 DEF RingNext, ringVars, Reserve, StoreHeader, Serialize, FlushSnapshot,
              FlushCopy, FlushFails, UntilIInv, NoFlush, RingIInv, RingTypeOK, FlushCalls
<1>4. SpanIInv' /\ PlaceIInv'
  <2>1. ASSUME NEW w \in Writers, NEW n \in SampleSizes, Reserve(w, n)
        PROVE  SpanIInv' /\ PlaceIInv'
    BY <1>1, <2>1, ReserveKeepsPlace
  <2>2. ASSUME NEW w \in Writers, StoreHeader(w)
        PROVE  SpanIInv' /\ PlaceIInv'
    <3>1. SpanIInv' /\ WritesPending(w, store[w].first, HeaderSize)
      BY <1>1, <2>2, HeaderWritesPending
    <3>2. store[w].first \in Nat /\ HeaderSize \in Nat
      BY <1>1, RingNumbers, StoreNumbers
    <3> QED
      BY <1>1, <3>1, <3>2, WriteKeepsPlace
  <2>3. ASSUME NEW w \in Writers, Serialize(w)
        PROVE  SpanIInv' /\ PlaceIInv'
    <3>1. SpanIInv' /\ WritesPending(w, store[w].first + HeaderSize, store[w].size)
      BY <1>1, <2>3, ValueWritesPending
    <3>2. store[w].first \in Nat /\ HeaderSize \in Nat /\ store[w].size \in Nat
      BY <1>1, RingNumbers, StoreNumbers
    <3>3. store[w].first + HeaderSize \in Nat
      BY <3>2
    <3> QED
      BY <1>1, <3>1, <3>2, <3>3, WriteKeepsPlace
  <2>4. ASSUME UNCHANGED <<head, buffer, store, reserved, lapped, file>>
        PROVE  SpanIInv' /\ PlaceIInv'
    <3>1. Len(file) =< Len(file') /\ Len(file') \in Nat
      BY <1>1, <2>4, RingNumbers
    <3> QED
      BY <1>1, <2>4, <3>1, FlusherKeepsPlace
  <2>5. CASE (\E force \in BOOLEAN : FlushSnapshot(force)) \/ FlushFails
    BY <2>4, <2>5 DEF FlushSnapshot, FlushFails
  <2>6. CASE FlushCopy
    <3>1. Len(file') = Len(file) + 1 /\ Len(file) \in Nat
      BY <1>1, <2>6, CopyAppends, RingNumbers
    <3>2. Len(file) =< Len(file') /\ Len(file') \in Nat
      BY <3>1
    <3>3. UNCHANGED <<head, buffer, store, reserved, lapped>>
      BY <2>6 DEF FlushCopy
    <3> QED
      BY <1>1, <3>2, <3>3, FlusherKeepsPlace
  <2>7. CASE UNCHANGED ringVars
    BY <2>4, <2>7 DEF ringVars
  <2> QED
    BY <2>1, <2>2, <2>3, <2>5, <2>6, <2>7 DEF RingNext
<1> QED
  BY <1>2, <1>3, <1>4 DEF LogIInv

LEMMA LogInvariant == RingSpec => []LogIInv
BY InitLog, StepKeepsLog, PTL DEF RingSpec

\* Unless a writer has lapped the flusher, a record whose store() has returned is
\* not disturbed before it is copied to the file.
THEOREM StoredBytesStay == RingSpec => []StoredBytesInPlace
<1>1. LogIInv => StoredBytesInPlace
  BY DEF LogIInv, PlaceIInv, StoredBytesInPlace
<1> QED
  BY <1>1, LogInvariant, PTL

\* Unless a writer has lapped the flusher, no two threads inside store() have a cell
\* in common, although they write without the lock.
THEOREM WritersNeverCollide == RingSpec => []WritersAreDisjoint
<1>1. LogIInv => WritersAreDisjoint
  <2> SUFFICES ASSUME LogIInv, ~lapped, NEW v \in Writers, NEW w \in Writers, v # w,
                      NEW s \in PendingOf(v), NEW t \in PendingOf(w),
                      store[v].at + s - store[v].first = store[w].at + t - store[w].first
               PROVE  FALSE
    BY DEF WritersAreDisjoint, CellsToWrite
  <2>1. RingIInv /\ SpanIInv
    BY DEF LogIInv
  <2>2. /\ InWindow(s) /\ CellOf(s) = store[v].at + s - store[v].first
        /\ InWindow(t) /\ CellOf(t) = store[w].at + t - store[w].first
    BY DEF LogIInv, PlaceIInv
  <2>3. s = t
    BY <2>1, <2>2, CellOfIsInjective
  <2> QED
    BY <2>1, <2>3, PendingIsApart
<1> QED
  BY <1>1, LogInvariant, PTL

\* The steps of the ring, as steps of the log it implements.
LEMMA ReserveAccepts ==
  ASSUME LogIInv, NEW w \in Writers, NEW n \in SampleSizes, Reserve(w, n)
  PROVE  Log!Accept
<1>0. RingIInv /\ SpanIInv
  BY DEF LogIInv
<1>1. PICK bytes, pad, at \in Nat :
        /\ bytes = HeaderSize + n /\ n \in Nat
        /\ reserved' = reserved + pad + bytes
        /\ store[w].stage = "idle"
        /\ store' = [store EXCEPT ![w] =
                       [stage |-> "reserved", first |-> reserved + pad + 1,
                        at |-> at, size |-> n]]
        /\ UNCHANGED file
  BY <1>0, ReserveFacts
<1>2. reserved' = reserved + pad + (HeaderSize + n)
  BY <1>1
<1>3. Pending' = Pending \cup (reserved + pad + 1) .. reserved'
  BY <1>0, <1>1, <1>2, ReserveKeepsSpans
<1>n. /\ reserved \in Nat /\ HeaderSize \in Nat \ {0}
      /\ pad \in Nat /\ n \in Nat /\ bytes \in Nat
  BY <1>0, <1>1, RingNumbers
<1>4. /\ reserved' \in Nat /\ reserved' > reserved
      /\ (reserved + pad + 1) .. reserved' \subseteq (reserved + 1) .. reserved'
  BY <1>n, <1>2
<1> QED
  BY <1>1, <1>3, <1>4 DEF Log!Accept

LEMMA WriteFinishes ==
  ASSUME NEW w \in Writers, NEW byte, NEW count, WritesPending(w, byte, count)
  PROVE  Log!Finish
BY DEF WritesPending, Log!Finish

LEMMA CopyPersists ==
  ASSUME LogIInv, ~lapped, FlushCopy
  PROVE  Log!Persist
<1>0. RingIInv /\ PlaceIInv /\ flush.stage = "copying"
  BY DEF LogIInv, FlushCopy
<1> DEFINE next == Len(file) + 1
<1>1. /\ file' = Append(file, buffer[flush.at]) /\ file' \in Seq(Nat)
      /\ Len(file') = next /\ file'[next] = buffer[flush.at]
  BY <1>0, CopyAppends
<1>2. next \in 1 .. reserved /\ CellOf(next) = flush.at
  BY <1>0, CopyReadsNextByte
<1>3. next \in next .. reserved /\ next =< reserved
  BY <1>0, <1>2, RingNumbers
<1>4. next \notin Pending => buffer[flush.at] = next
  BY <1>0, <1>2, <1>3 DEF PlaceIInv
<1>5. UNCHANGED <<reserved, Pending>>
  BY DEF FlushCopy, Pending, PendingOf
<1>6. /\ file' = Append(file, file'[next])
      /\ file'[next] = next \/ next \in Pending
  BY <1>1, <1>4
<1> QED
  BY <1>1, <1>3, <1>5, <1>6 DEF Log!Persist

\* As long as no writer laps the flusher, every step of store() and flush() is a step
\* of the append-only log of TraceLog: a reservation accepts bytes, a write finishes
\* some of them, and flush copies the next byte of the log and its value.
THEOREM RingImplementsTraceLog == RingSpec => ImplementsTraceLog
<1>1. RingInit => Log!LogInit
  BY DEF RingInit, Log!LogInit, Pending, PendingOf, NoStore
<1>2. LogIInv /\ [RingNext]_ringVars
        => lapped' \/ Log!LogNext \/ UNCHANGED Log!logVars
  <2> SUFFICES ASSUME LogIInv, [RingNext]_ringVars, ~lapped'
               PROVE  Log!LogNext \/ UNCHANGED Log!logVars
    OBVIOUS
  <2>0. RingIInv /\ SpanIInv
    BY DEF LogIInv
  <2>1. CASE \E w \in Writers, n \in SampleSizes : Reserve(w, n)
    BY <2>1, ReserveAccepts DEF Log!LogNext
  <2>2. CASE \E w \in Writers : StoreHeader(w)
    BY <2>0, <2>2, HeaderWritesPending, WriteFinishes DEF Log!LogNext
  <2>3. CASE \E w \in Writers : Serialize(w)
    BY <2>0, <2>3, ValueWritesPending, WriteFinishes DEF Log!LogNext
  <2>4. CASE FlushCopy
    <3>1. ~lapped
      BY <2>4 DEF FlushCopy
    <3> QED
      BY <2>4, <3>1, CopyPersists DEF Log!LogNext
  <2>5. ASSUME UNCHANGED <<store, file, reserved>> PROVE UNCHANGED Log!logVars
    BY <2>5 DEF Log!logVars, Pending, PendingOf
  <2>6. CASE (\E force \in BOOLEAN : FlushSnapshot(force)) \/ FlushFails
    BY <2>5, <2>6 DEF FlushSnapshot, FlushFails
  <2>7. CASE UNCHANGED ringVars
    BY <2>5, <2>7 DEF ringVars
  <2> QED
    BY <2>1, <2>2, <2>3, <2>4, <2>6, <2>7 DEF RingNext
<1> QED
  BY <1>1, <1>2, LogInvariant, PTL DEF RingSpec, ImplementsTraceLog
=============================================================================
