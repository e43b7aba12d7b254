------------------------------ MODULE FifoProofs ------------------------------
(***************************************************************************)
(* The ring buffer keeps the stream, whatever its size, the width of its   *)
(* counters and the interleaving of its two threads.                       *)
(***************************************************************************)
EXTENDS Fifo, TLAPS

\* A counter that is n ahead of another differs from it by n in uint32_t.
LEMMA MinusIsDistance ==
    ASSUME NEW a \in UInt, NEW b \in UInt, NEW n \in Int,
           0 <= n, n < Modulus, Ahead(a, b, n, Modulus)
    PROVE  Minus(a, b) = n
BY FifoAssumption DEF UInt, Minus, Ahead

\* Advancing a counter keeps it a uint32_t and moves it ahead.
LEMMA PlusAdvances ==
    ASSUME NEW a \in UInt, NEW k \in 0..Size
    PROVE  /\ Plus(a, k) \in UInt
           /\ Ahead(Plus(a, k), a, k, Modulus)
BY FifoAssumption DEF UInt, Plus, Ahead

\* A pointer advanced by no more than the ring's size stays in it.
LEMMA WrapInRing ==
    ASSUME NEW p \in Cell, NEW k \in 0..Size
    PROVE  Wrap(p + k) \in Cell /\ Ahead(Wrap(p + k), p, k, Size)
BY FifoAssumption DEF Cell, Wrap, Ahead

\* Where Init starts, everything is empty.
LEMMA InitConsistent == Init => Consistent
BY FifoAssumption DEF Init, Consistent, TypeOK, Cell, UInt, Ahead, Intact, Wrap

LEMMA WriteStep == Consistent /\ Write => Consistent'
<1>. SUFFICES ASSUME Consistent, Write PROVE Consistent'
  OBVIOUS
<1>. USE FifoAssumption DEF Consistent, TypeOK
<1>0. st_fifo_size = pub - freed
  BY MinusIsDistance DEF st_fifo_size
<1>1. ASSUME NEW n \in 1..Size, WriteCall(n) PROVE Consistent'
  BY <1>0, <1>1 DEF WriteCall, reader, st_fifo_space, Intact
<1>2. CASE WriteByte
  <2>1. wp' \in Cell /\ Ahead(wp', rptr', put' - rpos', Size)
    BY <1>2 DEF WriteByte, Cell, Wrap, Ahead, reader
  <2>2. wn' \in UInt /\ Ahead(wn', wndx', put' - pub', Modulus)
    BY <1>2 DEF WriteByte, UInt, Plus, Ahead
  <2>3. put >= rpos => wp = Wrap(rptr + (put - rpos))
    BY <1>2 DEF WriteByte, Cell, Wrap, Ahead, reader
  <2>4. ASSUME NEW i \in 0..(put' - rpos' - 1)
        PROVE  buffer'[Wrap(rptr' + i)] = rpos' + i
    <3>1. CASE i = put - rpos
      <4>1. buffer' = [buffer EXCEPT ![wp] = put] /\ rptr' = rptr /\ rpos' = rpos
        BY <1>2 DEF WriteByte, reader
      <4>2. put >= rpos /\ rpos + i = put
        BY <3>1
      <4>3. Wrap(rptr + i) = wp
        BY <2>3, <3>1, <4>2
      <4>4. buffer'[wp] = put
        BY <4>1
      <4>. QED
        BY <4>1, <4>2, <4>3, <4>4
    <3>2. CASE i # put - rpos
      <4>1. Wrap(rptr + i) # wp /\ Wrap(rptr + i) \in Cell
        BY <1>2, <2>3, <3>2 DEF WriteByte, reader, Cell, Wrap
      <4>. QED
        BY <1>2, <3>2, <4>1 DEF WriteByte, reader, Intact
    <3>. QED
      BY <3>1, <3>2
  <2>5. buffer' \in [Cell -> Int]
    BY <1>2 DEF WriteByte
  <2>. QED
    BY <1>2, <2>1, <2>2, <2>4, <2>5 DEF WriteByte, reader, Intact
<1>3. CASE WriteNdx
  BY <1>3 DEF WriteNdx, reader, Intact, Ahead, UInt
<1>4. CASE WriteNdxEarly
  <2>1. wndx' \in UInt /\ Ahead(wndx', wn, wsize, Modulus)
    BY <1>4, PlusAdvances DEF WriteNdxEarly
  <2>2. Ahead(wndx', rndx', pub' - freed', Modulus)
    BY <1>4, <2>1 DEF WriteNdxEarly, UInt, Ahead, reader
  <2>. QED
    BY <1>4, <2>1, <2>2 DEF WriteNdxEarly, UInt, Ahead, reader, Intact
<1>5. CASE WritePtr
  BY <1>5 DEF WritePtr, reader, Intact
<1>. QED
  BY <1>1, <1>2, <1>3, <1>4, <1>5 DEF Write

LEMMA ReadStep == Consistent /\ Read => Consistent'
<1>. SUFFICES ASSUME Consistent, Read PROVE Consistent'
  OBVIOUS
<1>. USE FifoAssumption DEF Consistent, TypeOK
<1>0. st_fifo_size = pub - freed
  BY MinusIsDistance DEF st_fifo_size
<1>1. ASSUME NEW n \in 1..Size, ReadCall(n) PROVE Consistent'
  BY <1>0, <1>1 DEF ReadCall, writer, Piece, Cell, Intact
<1>2. ASSUME NEW n \in 1..Size, DrainCall(n) PROVE Consistent'
  BY <1>0, <1>2 DEF DrainCall, writer, Intact
<1>3. CASE ReadByte
  BY <1>3 DEF ReadByte, writer, Intact
<1>4. CASE DrainPtr
  <2>1. rptr' \in Cell /\ Ahead(wp', rptr', put' - rpos', Size)
    BY <1>4 DEF DrainPtr, writer, Cell, Wrap, Ahead
  <2>2. ASSUME NEW i \in 0..(put' - rpos' - 1)
        PROVE  buffer'[Wrap(rptr' + i)] = rpos' + i
    <3>1. Wrap(rptr' + i) = Wrap(rptr + (rlen + i)) /\ rlen + i \in 0..(put - rpos - 1)
      BY <1>4 DEF DrainPtr, writer, Cell, Wrap
    <3>. QED
      BY <1>4, <3>1 DEF DrainPtr, Intact
  <2>. QED
    BY <1>4, <2>1, <2>2 DEF DrainPtr, writer, Intact
<1>5. CASE DrainNdx
  <2>1. rndx' \in UInt /\ Ahead(wndx', rndx', pub' - freed', Modulus)
    BY <1>5 DEF DrainNdx, writer, UInt, Plus, Ahead
  <2>. QED
    BY <1>5, <2>1 DEF DrainNdx, writer, Piece, Cell, Intact
<1>. QED
  BY <1>1, <1>2, <1>3, <1>4, <1>5 DEF Read

LEMMA ResetStep == Consistent /\ Reset => Consistent'
BY FifoAssumption DEF Reset, Consistent, TypeOK, Cell, UInt, Ahead, Intact, Wrap

LEMMA ConsistentStep == Consistent /\ [Next]_vars => Consistent'
<1>1. CASE UNCHANGED vars
  BY <1>1 DEF vars, writer, reader, Consistent, TypeOK, Intact, Ahead
<1>. QED
  BY <1>1, WriteStep, ReadStep, ResetStep DEF Next

\* The inductive invariant.
THEOREM AlwaysConsistent == Spec => []Consistent
<1>. QED
  BY InitConsistent, ConsistentStep, PTL DEF Spec

\* st_fifo_size counts the bytes of the stream that are announced and not yet
\* freed, though both counters wrap and neither thread locks.
THEOREM SizeIsExact == Spec => []SizeExact
<1>1. Consistent => SizeExact
  BY MinusIsDistance, FifoAssumption
  DEF Consistent, TypeOK, SizeExact, st_fifo_size
<1>. QED
  BY <1>1, AlwaysConsistent, PTL

\* st_fifo_read delivers the stream in order: no byte is read before it is
\* written or after it is overwritten.
THEOREM StreamInOrder == Spec => []ReadsInOrder
<1>1. ASSUME Consistent, rpc = "copy", off < rlen, ordered \/ rpos + off < put
      PROVE  buffer[rptr + off] = rpos + off
  <2>1. off \in 0..(put - rpos - 1)
    BY <1>1 DEF Consistent, TypeOK
  <2>2. Wrap(rptr + off) = rptr + off
    BY <1>1, FifoAssumption DEF Consistent, TypeOK, Wrap, Cell
  <2>. QED
    BY <1>1, <2>1, <2>2 DEF Consistent, Intact
<1>2. Consistent => ReadsInOrder
  BY <1>1 DEF ReadsInOrder
<1>. QED
  BY <1>2, AlwaysConsistent, PTL
=============================================================================
