--------------------------------- MODULE Fifo ---------------------------------
(***************************************************************************)
(* The ring buffer of libutils/fifo.c, used by one thread that writes and  *)
(* one that reads, without a lock: wndx and rndx count the bytes modulo    *)
(* 2^32, wptr and rptr point into the ring.  memcpy is modelled byte by    *)
(* byte, and the update of each shared field is a step of its own.         *)
(*                                                                         *)
(* The code notes where "memory barriers are needed for SMP" and has none: *)
(* where stores are not ordered, those of a write may become visible in    *)
(* another order than the program's.  As in the header, a caller writes no *)
(* more than st_fifo_space() bytes and reads no more than st_fifo_size().  *)
(* The bytes written are numbered 0, 1, 2, ... to tell them apart.         *)
(***************************************************************************)
EXTENDS Integers

CONSTANTS Size,     \* f->end - f->buffer
          Modulus,  \* uint32_t counts modulo this
          MaxBytes  \* bytes written in a run

ASSUME FifoAssumption ==
    /\ Size \in Nat \ {0}
    /\ Modulus \in Nat /\ Size < Modulus
    /\ MaxBytes \in Nat

Cell == 0..(Size - 1)
UInt == 0..(Modulus - 1)

VARIABLES
    ordered,                 \* are stores visible in program order?
    buffer, rptr, wptr, rndx, wndx,
    wpc, wsize, wp, wn,      \* st_fifo_write: bytes to go, its wptr and wndx
    rpc, rsize, rlen, off,   \* st_fifo_read: bytes to go, size of this piece,
                             \* bytes of it copied
    put, pub,                \* history: bytes copied in; announced by wndx
    rpos, freed              \* number of the byte at rptr; announced by rndx

writer == <<wpc, wsize, wp, wn, put, pub>>
reader == <<rpc, rsize, rlen, off, rpos, freed>>
vars == <<ordered, buffer, rptr, wptr, rndx, wndx, writer, reader>>

TypeOK ==
    /\ ordered \in BOOLEAN
    /\ buffer \in [Cell -> Int]
    /\ rptr \in Cell /\ wptr \in Cell /\ wp \in Cell
    /\ rndx \in UInt /\ wndx \in UInt /\ wn \in UInt
    /\ wpc \in {"idle", "copy", "late", "ptr"} /\ rpc \in {"idle", "copy", "ndx"}
    /\ wsize \in 0..Size /\ rsize \in 0..Size
    /\ rlen \in 0..Size /\ off \in 0..Size
    /\ put \in Nat /\ pub \in Nat /\ rpos \in Nat /\ freed \in Nat

\* st_fifo_alloc
Init ==
    /\ ordered \in BOOLEAN
    /\ buffer = [k \in Cell |-> -1]
    /\ rptr = 0 /\ wptr = 0 /\ rndx = 0 /\ wndx = 0
    /\ wpc = "idle" /\ wsize = 0 /\ wp = 0 /\ wn = 0
    /\ rpc = "idle" /\ rsize = 0 /\ rlen = 0 /\ off = 0
    /\ put = 0 /\ pub = 0 /\ rpos = 0 /\ freed = 0
-----------------------------------------------------------------------------
(* Arithmetic of uint32_t, and of pointers into the ring.                  *)

Plus(a, n)  == IF a + n >= Modulus THEN a + n - Modulus ELSE a + n
\* Mutant: a signed difference.
MinusSigned(a, b) == a - b

Minus(a, b) == IF a >= b THEN a - b ELSE a - b + Modulus

Wrap(p) == IF p >= Size THEN p - Size ELSE p

st_fifo_size  == Minus(wndx, rndx)
st_fifo_space == Size - st_fifo_size
-----------------------------------------------------------------------------
(* st_fifo_write                                                           *)

\* Mutant: the bytes are announced before they are copied.
WriteCallAnnounces(n) ==
    /\ wpc = "idle" /\ n <= st_fifo_space /\ put + n <= MaxBytes
    /\ wpc' = "copy" /\ wsize' = n
    /\ wndx' = Plus(wndx, n) /\ pub' = put + n
    /\ UNCHANGED <<ordered, buffer, rptr, wptr, rndx, wp, wn, put, reader>>

WriteCall(n) ==
    /\ wpc = "idle" /\ n <= st_fifo_space /\ put + n <= MaxBytes
    /\ wpc' = "copy" /\ wsize' = n
    /\ UNCHANGED <<ordered, buffer, rptr, wptr, rndx, wndx, wp, wn, put, pub, reader>>

WriteByte ==
    /\ wpc \in {"copy", "late"} /\ wsize > 0
    /\ buffer' = [buffer EXCEPT ![wp] = put]
    /\ wp' = Wrap(wp + 1) /\ wn' = Plus(wn, 1)
    /\ wsize' = wsize - 1 /\ put' = put + 1
    /\ UNCHANGED <<ordered, rptr, wptr, rndx, wndx, wpc, pub, reader>>

\* Without the barrier wndx may be visible before the bytes that are left.
WriteNdxEarly ==
    /\ ~ordered /\ wpc = "copy" /\ wsize > 0
    /\ wndx' = Plus(wn, wsize) /\ pub' = put + wsize
    /\ wpc' = "late"
    /\ UNCHANGED <<ordered, buffer, rptr, wptr, rndx, wsize, wp, wn, put, reader>>

WriteNdx ==
    /\ wpc \in {"copy", "late"} /\ wsize = 0
    /\ wndx' = wn /\ pub' = put
    /\ wpc' = "ptr"
    /\ UNCHANGED <<ordered, buffer, rptr, wptr, rndx, wsize, wp, wn, put, reader>>

WritePtr ==
    /\ wpc = "ptr"
    /\ wptr' = wp
    /\ wpc' = "idle"
    /\ UNCHANGED <<ordered, buffer, rptr, rndx, wndx, wsize, wp, wn, put, pub, reader>>
-----------------------------------------------------------------------------
(* st_fifo_read and st_fifo_drain                                          *)

\* Mutant: one memcpy for all of it.
PieceNotSplit(p, n) == n

\* One memcpy goes no further than the end of the ring.
Piece(p, n) == IF Size - p > n THEN n ELSE Size - p

ReadCall(n) ==
    /\ rpc = "idle" /\ n <= st_fifo_size
    /\ rpc' = "copy" /\ rsize' = n /\ rlen' = Piece(rptr, n) /\ off' = 0
    /\ UNCHANGED <<ordered, buffer, rptr, wptr, rndx, wndx, writer, rpos, freed>>

\* Copies buffer[rptr + off].
ReadByte ==
    /\ rpc = "copy" /\ off < rlen
    /\ off' = off + 1
    /\ UNCHANGED <<ordered, buffer, rptr, wptr, rndx, wndx, writer, rpc, rsize, rlen, rpos,
                   freed>>

\* A drain alone skips what a read copies.
DrainCall(n) ==
    /\ rpc = "idle" /\ n <= st_fifo_size
    /\ rpc' = "copy" /\ rsize' = n /\ rlen' = n /\ off' = n
    /\ UNCHANGED <<ordered, buffer, rptr, wptr, rndx, wndx, writer, rpos, freed>>

DrainPtr ==
    /\ rpc = "copy" /\ off = rlen
    /\ rptr' = Wrap(rptr + rlen) /\ rpos' = rpos + rlen
    /\ rpc' = "ndx"
    /\ UNCHANGED <<ordered, buffer, wptr, rndx, wndx, writer, rsize, rlen, off, freed>>

DrainNdx ==
    /\ rpc = "ndx"
    /\ rndx' = Plus(rndx, rlen) /\ freed' = freed + rlen
    /\ rsize' = rsize - rlen
    /\ rpc' = IF rsize = rlen THEN "idle" ELSE "copy"
    /\ rlen' = Piece(rptr, rsize - rlen) /\ off' = 0
    /\ UNCHANGED <<ordered, buffer, rptr, wptr, wndx, writer, rpos>>

\* st_fifo_reset, called by neither side while the other works.
Reset ==
    /\ wpc = "idle" /\ rpc = "idle"
    /\ wptr' = 0 /\ rptr' = 0 /\ wndx' = 0 /\ rndx' = 0
    /\ wp' = 0 /\ wn' = 0
    /\ rpos' = put /\ freed' = put
    /\ UNCHANGED <<ordered, buffer, wpc, wsize, put, pub, rpc, rsize, rlen, off>>
-----------------------------------------------------------------------------
Write == \/ \E n \in 1..Size : WriteCall(n)
         \/ WriteByte \/ WriteNdxEarly \/ WriteNdx \/ WritePtr
Read == \/ \E n \in 1..Size : ReadCall(n) \/ DrainCall(n)
        \/ ReadByte \/ DrainPtr \/ DrainNdx
Next == Write \/ Read \/ Reset

Spec == Init /\ [][Next]_vars
-----------------------------------------------------------------------------
(* Properties.                                                             *)

\* st_fifo_size is the number of bytes announced and not yet freed, and never
\* more than fit, although its two counters wrap at 2^32, are written by two
\* threads and may be seen before the bytes they count.
SizeExact == st_fifo_size = pub - freed /\ pub - freed <= Size

\* The byte st_fifo_read copies next is the next of the stream: the writer has
\* copied it in and does not overwrite it before the reader is done with it.
\* Where stores are not ordered, this is so unless the reader is ahead of them.
ReadsInOrder ==
    rpc = "copy" /\ off < rlen /\ (ordered \/ rpos + off < put) =>
        buffer[rptr + off] = rpos + off

\* Every byte written and not yet consumed is in the ring, in order, also where
\* a write or a read was split at the end of the ring.
Intact == \A i \in 0..(put - rpos - 1) : buffer[Wrap(rptr + i)] = rpos + i

\* a is n ahead of b, in a ring of m.
Ahead(a, b, n, m) == a - b = n \/ a - b = n - m \/ a - b = n + m

\* The inductive invariant: Intact, and how the pointers and the counters of the
\* ring, which each thread updates one after the other, follow the stream.
Consistent ==
    /\ TypeOK
    /\ freed <= rpos /\ rpos <= pub
    /\ IF wpc = "late" THEN ~ordered /\ pub = put + wsize ELSE pub <= put
    /\ put + wsize <= freed + Size
    /\ Ahead(wndx, rndx, pub - freed, Modulus)
    /\ Ahead(wn, wndx, put - pub, Modulus)
    /\ Ahead(wp, rptr, put - rpos, Size)
    /\ wpc \in {"idle", "ptr"} => wsize = 0 /\ wn = wndx /\ put = pub
    /\ wpc = "idle" => wptr = wp
    /\ rpc # "ndx" => rpos = freed
    /\ rpc # "idle" => rlen <= rsize /\ freed + rsize <= pub
    /\ rpc = "copy" => /\ off <= rlen
                       /\ off < rlen => rptr + rlen <= Size
    /\ rpc = "ndx" => rpos = freed + rlen
    /\ Intact
=============================================================================
