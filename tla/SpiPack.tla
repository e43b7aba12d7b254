------------------------------- MODULE SpiPack -------------------------------
(***************************************************************************)
(* demo/perfdemo/perfdemo.c: a frame for a display packed as a stream of   *)
(* 9-bit symbols, a command or data flag and a byte, into p_spi_send_buf.  *)
(* filling_spi_send_display_data writes symbol by symbol at a bit          *)
(* position; display_data2 and display_data3 pack eight bytes at a time.   *)
(*                                                                         *)
(* A byte or a word is the set of its bits that are one: a | b is a union, *)
(* a & m an intersection.                                                  *)
(***************************************************************************)
EXTENDS Integers, Sequences

CONSTANTS MaxLen,          \* words in the caller's frame
          TX_BUF_MAX_LEN,  \* bytes in p_spi_send_buf
          Pattern,         \* bytes the caller writes
          Lens,            \* words it has packed
          MaxPoke,         \* bound: changes of the caller to its data
          MaxCall          \* bound: frames it has packed

Byte == SUBSET (0..7)
Word == SUBSET (0..31)

ASSUME SpiAssumption ==
    /\ MaxLen \in Nat /\ TX_BUF_MAX_LEN \in Nat
    /\ MaxPoke \in Nat /\ MaxCall \in Nat /\ Lens \subseteq 0..MaxLen
    /\ Pattern \subseteq Byte

VARIABLES data_buf, x, y,                \* the caller's frame and area, by byte
          p_spi_send_buf, spi_send_len,
          call,                          \* the last packer, its len, where it ended
          pokes, calls                   \* bounded

vars == <<data_buf, x, y, p_spi_send_buf, spi_send_len, call, pokes, calls>>

Cell == 0..(TX_BUF_MAX_LEN - 1)
Packer == {"none", "display_data", "display_data2", "display_data3"}

TypeOK ==
    /\ data_buf \in [0..(4 * MaxLen - 1) -> Byte]
    /\ x \in [0..3 -> Byte] /\ y \in [0..3 -> Byte]
    /\ p_spi_send_buf \in [Cell -> Byte]
    /\ spi_send_len \in Nat
    /\ call \in [by : Packer, len : 0..MaxLen, end : Nat]
    /\ pokes \in 0..MaxPoke /\ calls \in 0..MaxCall

\* p_spi_send_buf comes from malloc.
Init ==
    /\ data_buf = [k \in 0..(4 * MaxLen - 1) |-> {}]
    /\ x = [k \in 0..3 |-> {}] /\ y = [k \in 0..3 |-> {}]
    /\ \E b \in {{}, 0..7} : p_spi_send_buf = [k \in Cell |-> b]
    /\ spi_send_len = 0
    /\ call = [by |-> "none", len |-> 0, end |-> 0]
    /\ pokes = 0 /\ calls = 0
-----------------------------------------------------------------------------
(* Bits: a << n in a word of width bits, a >> n.                           *)

Shl(w, n, width) == {b \in n..(width - 1) : b - n \in w}
Shr(w, n) == {b \in 0..31 : b + n \in w}

swap_endian_32(w) == {8 * (3 - (b \div 8)) + (b % 8) : b \in w}

\* A word as the bytes it has in the memory of a little-endian machine.
Stored(w) == [k \in 1..4 |-> Shr(w, 8 * k - 8) \intersect (0..7)]

\* swap_endian_64 and a store: the bytes from the most significant one on.
Swapped64(w) == [k \in 1..8 |-> {b \in 0..7 : 8 * (8 - k) + b \in w}]

\* spi_send_len for so many symbols.
SendLen(symbols) == (symbols * 9 + 7) \div 8

Cleared(n) == [k \in Cell |-> IF k < n THEN {} ELSE p_spi_send_buf[k]]
-----------------------------------------------------------------------------
(* filling_spi_send_display_data, one symbol after the other.              *)

Command(b) == [data |-> FALSE, byte |-> b]
Data(b) == [data |-> TRUE, byte |-> b]
Nop == Command({})

\* get_u8_from_u32, and the order in which the bytes of a pixel pair are sent.
Coordinate(c) == <<Data(c[3]), Data(c[2]), Data(c[1]), Data(c[0])>>
Pixels(k) == Data(data_buf[4 * (k \div 4) + <<1, 0, 3, 2>>[(k % 4) + 1]])

\* The symbols of a frame of len words.
Stream(len) ==
    <<Command({5, 3, 1})>> \o Coordinate(x) \o
    <<Command({5, 3, 1, 0})>> \o Coordinate(y) \o
    <<Command({5, 3, 2})>> \o [k \in 1..(4 * len) |-> Pixels(k - 1)]

Or(buf, i, b) == [buf EXCEPT ![i] = @ \union b]

\* Mutant of WriteLcm: a symbol that starts at a byte's last bit is not told apart.
WriteLcmStays(acc, symbol) ==
    LET i == acc.pos \div 8
        j == acc.pos % 8
        flag == IF symbol.data THEN {7 - j} ELSE {}
        n == (j + 1) % 8
    IN  [buf |-> Or(Or(Or(acc.buf, i, flag), i, Shr(symbol.byte, n)), i + 1,
                    Shl(symbol.byte, 8 - n, 8)),
         pos |-> acc.pos + 9]

\* write_lcm_command and write_lcm_data
WriteLcm(acc, symbol) ==
    LET i == acc.pos \div 8
        j == acc.pos % 8
        flag == IF symbol.data THEN {7 - j} ELSE {}
        n == (j + 1) % 8
        flagged == Or(acc.buf, i, flag)
    IN  [buf |-> IF n = 0 THEN [flagged EXCEPT ![i + 1] = symbol.byte]
                 ELSE Or(Or(flagged, i, Shr(symbol.byte, n)), i + 1, Shl(symbol.byte, 8 - n, 8)),
         pos |-> acc.pos + 9]

\* All symbols, from the first bit of the buffer on.
Written(buf, symbols) ==
    LET after[n \in 0..Len(symbols)] ==
            IF n = 0 THEN [buf |-> buf, pos |-> 0]
            ELSE WriteLcm(after[n - 1], symbols[n])
    IN  after[Len(symbols)]

\* A frame that does not fit is refused, after spi_send_len was set.
display_data(len) ==
    LET size == SendLen(12 + 4 * len)
        done == Written(Cleared(size), Append(Stream(len), Nop))
    IN  /\ spi_send_len' = size
        /\ IF size > TX_BUF_MAX_LEN
           THEN /\ call' = [by |-> "none", len |-> len, end |-> 0]
                /\ UNCHANGED p_spi_send_buf
           ELSE /\ p_spi_send_buf' = done.buf
                /\ call' = [by |-> "display_data", len |-> len, end |-> (done.pos + 7) \div 8]
        /\ UNCHANGED <<data_buf, x, y, pokes>>
-----------------------------------------------------------------------------
(* display_data2 and display_data3, two words after the other.             *)

\* Mutant of fill_header_withnop1: y is taken from x, as in fill_header_withnop.
header_of_x ==
    LET word0 == Shl(x[3], 14, 32) \union Shl(x[2], 5, 32) \union Shr(x[1], 4)
                 \union {28, 26, 24, 22, 13, 4}
        word1 == Shl(x[1], 28, 32) \union Shl(x[0], 19, 32) \union Shl(x[3], 1, 32)
                 \union {27, 15, 13, 11, 10, 9, 0}
        word2 == Shl(x[1], 23, 32) \union Shl(x[0], 14, 32) \union {31, 22}
    IN  Stored(swap_endian_32(word0)) \o Stored(swap_endian_32(word1)) \o <<x[2]>> \o
        Stored(swap_endian_32(word2)) \o Stored({}) \o <<{5, 3, 2}>>

\* The commands and coordinates, with five NOP before the last command.
fill_header_withnop1 ==
    LET word0 == Shl(x[3], 14, 32) \union Shl(x[2], 5, 32) \union Shr(x[1], 4)
                 \union {28, 26, 24, 22, 13, 4}
        word1 == Shl(x[1], 28, 32) \union Shl(x[0], 19, 32) \union Shl(y[3], 1, 32)
                 \union {27, 15, 13, 11, 10, 9, 0}
        word2 == Shl(y[1], 23, 32) \union Shl(y[0], 14, 32) \union {31, 22}
    IN  Stored(swap_endian_32(word0)) \o Stored(swap_endian_32(word1)) \o <<y[2]>> \o
        Stored(swap_endian_32(word2)) \o Stored({}) \o <<{5, 3, 2}>>

\* Eight bytes in nine.
Group(p) ==
    LET word0 == Shl(p[1], 23, 32) \union Shl(p[0], 14, 32) \union Shl(p[3], 5, 32)
                 \union Shr(p[2], 4) \union {31, 22, 13, 4}
        word1 == Shl(p[2], 28, 32) \union Shl(p[5], 19, 32) \union Shl(p[4], 10, 32)
                 \union Shl(p[7], 1, 32) \union {27, 18, 9, 0}
    IN  Stored(swap_endian_32(word0)) \o Stored(swap_endian_32(word1)) \o <<p[6]>>

\* Mutant of Group2: the rest of a byte is shifted one bit too little.
Group2Short(p) ==
    LET Mix(mark, hi, n, lo) == {mark} \union Shr(hi, n) \union Shl(lo, 8 - n, 8)
    IN  << {7} \union Shr(p[1], 1),
           Mix(6, p[0], 2, p[1]), Mix(5, p[3], 3, p[0]), Mix(4, p[2], 4, p[3]),
           Mix(3, p[5], 5, p[2]), Mix(2, p[4], 6, p[5]), Mix(1, p[7], 7, p[4]),
           {0} \union Shl(p[7], 1, 8), p[6] >>

\* Eight bytes in nine, as filling_spi_send_display_data2 computes them.
Group2(p) ==
    LET Mix(mark, hi, n, lo) == {mark} \union Shr(hi, n) \union Shl(lo, 9 - n, 8)
    IN  << {7} \union Shr(p[1], 1),
           Mix(6, p[0], 2, p[1]), Mix(5, p[3], 3, p[0]), Mix(4, p[2], 4, p[3]),
           Mix(3, p[5], 5, p[2]), Mix(2, p[4], 6, p[5]), Mix(1, p[7], 7, p[4]),
           {0} \union Shl(p[7], 1, 8), p[6] >>

\* The header of display_data2: its mask is one bit off and y is taken from x.
fill_header_withnop ==
    LET BIG_HEADER0_MASK == {59, 57, 55, 53, 44, 35, 26, 14, 12, 10, 9, 8, 0}
        BIG_HEADER_NOP_MASK == {62, 53}
        word0 == BIG_HEADER0_MASK \union Shl(x[3], 46, 64) \union Shl(x[2], 37, 64)
                 \union Shl(x[1], 28, 64) \union Shl(x[0], 19, 64) \union Shl(x[3], 1, 64)
        word1 == BIG_HEADER_NOP_MASK \union Shl(x[1], 55, 64) \union Shl(x[0], 46, 64)
    IN  Swapped64(word0) \o <<x[2]>> \o Swapped64(word1) \o <<{5, 3, 2}>>

Eight(g) == [k \in 0..7 |-> data_buf[8 * g + k]]

\* What is written for len words: an odd one at the end is not sent.
Packed(header, groups, len) ==
    header \o [k \in 1..(9 * (len \div 2)) |-> groups[(k - 1) \div 9][((k - 1) % 9) + 1]]

PackWords(packer, bytes, len) ==
    LET size == SendLen(16 + 4 * len + 8)
    IN  /\ spi_send_len' = size
        /\ IF size > TX_BUF_MAX_LEN
           THEN /\ call' = [by |-> "none", len |-> len, end |-> 0]
                /\ UNCHANGED p_spi_send_buf
           ELSE /\ p_spi_send_buf' = [k \in Cell |-> IF k < Len(bytes) THEN bytes[k + 1]
                                                     ELSE Cleared(size)[k]]
                /\ call' = [by |-> packer, len |-> len, end |-> Len(bytes)]
        /\ UNCHANGED <<data_buf, x, y, pokes>>

display_data2(len) ==
    LET groups == [g \in 0..(len \div 2 - 1) |-> Group2(Eight(g))]
    IN  PackWords("display_data2", Packed(fill_header_withnop, groups, len), len)

display_data3(len) ==
    LET groups == [g \in 0..(len \div 2 - 1) |-> Group(Eight(g))]
    IN  PackWords("display_data3", Packed(fill_header_withnop1, groups, len), len)
-----------------------------------------------------------------------------
\* The caller draws, or chooses another area.
Poke(b) ==
    /\ pokes < MaxPoke /\ pokes' = pokes + 1
    /\ \/ /\ \E k \in DOMAIN data_buf : data_buf' = [data_buf EXCEPT ![k] = b]
          /\ UNCHANGED <<x, y>>
       \/ (\E k \in 0..3 : x' = [x EXCEPT ![k] = b]) /\ UNCHANGED <<data_buf, y>>
       \/ (\E k \in 0..3 : y' = [y EXCEPT ![k] = b]) /\ UNCHANGED <<data_buf, x>>
    /\ call' = [call EXCEPT !.by = "none"]
    /\ UNCHANGED <<p_spi_send_buf, spi_send_len, calls>>

Next ==
    \/ /\ calls < MaxCall /\ calls' = calls + 1
       /\ \E len \in Lens : display_data(len) \/ display_data2(len) \/ display_data3(len)
    \/ \E b \in Pattern : Poke(b)

Spec == Init /\ [][Next]_vars
-----------------------------------------------------------------------------
(* Properties.                                                             *)

\* Bit t of what is sent, most significant bit of a byte first, and symbol s.
Bit(t) == 7 - (t % 8) \in p_spi_send_buf[t \div 8]
Symbol(s) == [data |-> Bit(9 * s), byte |-> {b \in 0..7 : Bit(9 * s + 8 - b)}]

\* What the display receives from a symbol on: those sent, without NOP commands.
ReceivedFrom(first) ==
    LET Sent == (8 * spi_send_len) \div 9
        before[s \in first..Sent] ==
            IF s = first THEN <<>>
            ELSE IF Symbol(s - 1) = Nop THEN before[s - 1]
            ELSE Append(before[s - 1], Symbol(s - 1))
    IN  before[Sent]
Received == ReceivedFrom(0)

\* All packers write only bytes that are sent.
WritesAreSent == call.by # "none" => call.end <= spi_send_len /\ spi_send_len <= TX_BUF_MAX_LEN

\* The bit-by-bit packer sends the frame, whatever the buffer held before, and
\* writes no byte that is not sent.
SlowSendsFrame == call.by = "display_data" => Received = Stream(call.len) /\ WritesAreSent

\* The word-wise packer sends the same frame, up to an odd word at the end.
FastSendsFrame ==
    call.by = "display_data3" => Received = Stream(2 * (call.len \div 2)) /\ WritesAreSent

\* After a header of sixteen symbols display_data2 too sends the pixels, whatever
\* the buffer held before.
PixelsArrive ==
    call.by = "display_data2" =>
        ReceivedFrom(16) = [k \in 1..(8 * (call.len \div 2)) |-> Pixels(k - 1)]
=============================================================================
