----------------------------- MODULE SpiPackProofs -----------------------------
(***************************************************************************)
(* The packers, for frames of any length: what the display decodes is what *)
(* was to be sent.  Bits are followed from the words the code shifts and   *)
(* swaps to the bytes that are sent, symbols from the bytes to the display.*)
(***************************************************************************)
EXTENDS SpiPack, SequenceTheorems, WellFoundedInduction, TLAPS

(* Bits and symbols of a sequence of bytes.                                *)

\* Bit t of the bytes c, the most significant bit of a byte first.
BitOf(c, t) == 7 - (t % 8) \in c[(t \div 8) + 1]

\* Symbol j of the bytes c.
Codes(c, j, symbol) ==
    /\ BitOf(c, 9 * j) <=> symbol.data
    /\ \A b \in 0..7 : BitOf(c, 9 * j + 8 - b) <=> b \in symbol.byte

\* Bytes one after the other: the bits of the first come first.
LEMMA ConcatBits ==
    ASSUME NEW a \in Seq(Byte), NEW c \in Seq(Byte), NEW t \in Nat, t < 8 * (Len(a) + Len(c))
    PROVE  BitOf(a \o c, t) <=> IF t < 8 * Len(a) THEN BitOf(a, t) ELSE BitOf(c, t - 8 * Len(a))
<1>1. PICK q \in Nat, r \in 0..7 : t = 8 * q + r
  BY t = 8 * (t \div 8) + (t % 8)
<1>2. t \div 8 = q /\ t % 8 = r BY <1>1
<1>a. (a \o c)[q + 1] = IF q + 1 <= Len(a) THEN a[q + 1] ELSE c[q + 1 - Len(a)]
  <2>1. q + 1 \in 1..(Len(a) + Len(c)) BY <1>1
  <2>2. \A k \in 1..(Len(a) + Len(c)) : (a \o c)[k] = IF k <= Len(a) THEN a[k] ELSE c[k - Len(a)]
    BY ConcatProperties
  <2> QED BY <2>1, <2>2
<1>3. CASE q < Len(a)
  <2>1. (a \o c)[q + 1] = a[q + 1]
    <3>1. q + 1 <= Len(a) BY <1>3
    <3> QED BY <3>1, <1>a, Zenon
  <2> QED BY <2>1, <1>1, <1>2, <1>3 DEF BitOf
<1>4. CASE q >= Len(a)
  <2>1. (a \o c)[q + 1] = c[q + 1 - Len(a)]
    <3>1. ~(q + 1 <= Len(a)) BY <1>4
    <3> QED BY <3>1, <1>a, Zenon
  <2>2. (t - 8 * Len(a)) \div 8 = q - Len(a) /\ (t - 8 * Len(a)) % 8 = r BY <1>1, <1>4
  <2>3. q - Len(a) + 1 = q + 1 - Len(a) BY <1>1, <1>4
  <2>4. BitOf(a \o c, t) <=> BitOf(c, t - 8 * Len(a)) BY <2>1, <2>2, <2>3, <1>2, Zenon DEF BitOf
  <2> QED BY <2>4, <1>1, <1>4
<1> QED BY <1>1, <1>3, <1>4

\* A word that is swapped and stored is sent from its most significant bit on.
LEMMA WordBits ==
    ASSUME NEW w \in SUBSET (0..31)
    PROVE  /\ Stored(swap_endian_32(w)) \in Seq(Byte) /\ Len(Stored(swap_endian_32(w))) = 4
           /\ \A t \in 0..31 : BitOf(Stored(swap_endian_32(w)), t) <=> 31 - t \in w
<1>1. \A k \in 1..4 : Stored(swap_endian_32(w))[k] = {b \in 0..7 : 8 * (4 - k) + b \in w}
  BY DEF Stored, swap_endian_32, Shr
<1>2. \A v : Stored(v) \in Seq(Byte) /\ Len(Stored(v)) = 4
  BY DEF Stored, Byte
<1>3. ASSUME NEW t \in 0..31 PROVE BitOf(Stored(swap_endian_32(w)), t) <=> 31 - t \in w
  <2> DEFINE c == Stored(swap_endian_32(w))
  <2>1. PICK q \in 0..3, r \in 0..7 : t = 8 * q + r
    BY t = 8 * (t \div 8) + (t % 8)
  <2>2. t \div 8 = q /\ t % 8 = r BY <2>1
  <2>3. c[q + 1] = {b \in 0..7 : 8 * (4 - (q + 1)) + b \in w} BY <1>1, <2>1
  <2> HIDE DEF c
  <2>4. BitOf(c, t) <=> 7 - r \in c[q + 1] BY <2>2 DEF BitOf
  <2>5. 8 * (4 - (q + 1)) + (7 - r) = 31 - t /\ 7 - r \in 0..7 BY <2>1
  <2> QED BY <2>3, <2>4, <2>5 DEF c
<1> QED BY <1>2, <1>3

\* Nine bytes from two words and a byte, and their bits.
Nine(w, v, u) == Stored(swap_endian_32(w)) \o Stored(swap_endian_32(v)) \o <<u>>

NineBit(w, v, u, t) ==
    IF t < 32 THEN 31 - t \in w ELSE IF t < 64 THEN 63 - t \in v ELSE 71 - t \in u

\* The nine bytes of two swapped words and one more, bit by bit.
LEMMA NineBits ==
    ASSUME NEW w \in SUBSET (0..31), NEW v \in SUBSET (0..31), NEW u \in Byte
    PROVE  /\ Nine(w, v, u) \in Seq(Byte) /\ Len(Nine(w, v, u)) = 9
           /\ \A t \in 0..71 : BitOf(Nine(w, v, u), t) <=> NineBit(w, v, u, t)
<1> DEFINE a == Stored(swap_endian_32(w))
           d == Stored(swap_endian_32(v))
<1>1. a \in Seq(Byte) /\ Len(a) = 4 /\ d \in Seq(Byte) /\ Len(d) = 4 BY WordBits
<1>2. <<u>> \in Seq(Byte) /\ Len(<<u>>) = 1 OBVIOUS
<1>3. \A t \in 0..31 : (BitOf(a, t) <=> 31 - t \in w) /\ (BitOf(d, t) <=> 31 - t \in v)
  BY WordBits
<1>4. \A t \in 0..7 : BitOf(<<u>>, t) <=> 7 - t \in u BY DEF BitOf
<1> DEFINE e == <<u>>
<1> HIDE DEF a, d, e
<1>5. a \o d \in Seq(Byte) /\ Len(a \o d) = 8
  <2>1. a \o d \in Seq(Byte) /\ Len(a \o d) = Len(a) + Len(d) BY <1>1, ConcatProperties, Zenon
  <2> QED BY <2>1, <1>1
<1>6. (a \o d) \o e \in Seq(Byte) /\ Len((a \o d) \o e) = 9
  <2>1. (a \o d) \o e \in Seq(Byte) /\ Len((a \o d) \o e) = Len(a \o d) + Len(e)
    BY <1>5, <1>2, ConcatProperties, Zenon DEF e
  <2> QED BY <2>1, <1>5, <1>2 DEF e
<1>7. ASSUME NEW t \in 0..71 PROVE BitOf((a \o d) \o e, t) <=> NineBit(w, v, u, t)
  <2>0. t \in Nat /\ t < 8 * (8 + 1) OBVIOUS
  <2>1. BitOf((a \o d) \o e, t) <=> IF t < 8 * Len(a \o d) THEN BitOf(a \o d, t) ELSE BitOf(e, t - 8 * Len(a \o d))
    <3>1. t < 8 * (Len(a \o d) + Len(e)) BY <1>5, <1>2, <2>0 DEF e
    <3>2. e \in Seq(Byte) BY <1>2 DEF e
    <3> QED BY <1>5, <3>1, <3>2, <2>0, ConcatBits, Zenon
  <2>2. t < 64 => (BitOf(a \o d, t) <=> IF t < 8 * Len(a) THEN BitOf(a, t) ELSE BitOf(d, t - 8 * Len(a)))
    <3> SUFFICES ASSUME t < 64 PROVE BitOf(a \o d, t) <=> IF t < 8 * Len(a) THEN BitOf(a, t) ELSE BitOf(d, t - 8 * Len(a))
      OBVIOUS
    <3>1. t < 8 * (Len(a) + Len(d)) BY <1>1, <2>0
    <3> QED BY <1>1, <3>1, <2>0, ConcatBits, Zenon
  <2>3. CASE t < 32
    <3>1. BitOf((a \o d) \o e, t) <=> BitOf(a, t) BY <2>1, <2>2, <2>3, <1>1, <1>5
    <3> QED BY <3>1, <2>3, <1>3 DEF NineBit
  <2>4. CASE 32 <= t /\ t < 64
    <3>1. t - 32 \in 0..31 /\ 31 - (t - 32) = 63 - t BY <2>4
    <3>2. BitOf((a \o d) \o e, t) <=> BitOf(d, t - 32) BY <2>1, <2>2, <2>4, <1>1, <1>5
    <3>3. BitOf(d, t - 32) <=> 63 - t \in v BY <3>1, <1>3
    <3> QED BY <3>2, <3>3, <2>4 DEF NineBit
  <2>5. CASE 64 <= t
    <3>1. t - 64 \in 0..7 /\ 7 - (t - 64) = 71 - t BY <2>5
    <3>2. BitOf((a \o d) \o e, t) <=> BitOf(e, t - 64) BY <2>1, <2>5, <1>5
    <3>3. BitOf(e, t - 64) <=> 71 - t \in u BY <3>1, <1>4 DEF e
    <3> QED BY <3>2, <3>3, <2>5 DEF NineBit
  <2> QED BY <2>3, <2>4, <2>5
<1> QED BY <1>6, <1>7 DEF a, d, e, Nine

\* They hold a symbol where its bits are.
LEMMA NineCodes ==
    ASSUME NEW w \in SUBSET (0..31), NEW v \in SUBSET (0..31), NEW u \in Byte,
           NEW j \in 0..7, NEW symbol,
           NineBit(w, v, u, 9 * j) <=> symbol.data,
           \A b \in 0..7 : NineBit(w, v, u, 9 * j + 8 - b) <=> b \in symbol.byte
    PROVE  Codes(Nine(w, v, u), j, symbol)
<1>1. \A t \in 0..71 : BitOf(Nine(w, v, u), t) <=> NineBit(w, v, u, t) BY NineBits
<1>2. 9 * j \in 0..71 OBVIOUS
<1>3. BitOf(Nine(w, v, u), 9 * j) <=> symbol.data BY <1>1, <1>2, Zenon
<1>4. ASSUME NEW b \in 0..7 PROVE BitOf(Nine(w, v, u), 9 * j + 8 - b) <=> b \in symbol.byte
  <2>1. 9 * j + 8 - b \in 0..71 OBVIOUS
  <2> QED BY <1>1, <2>1, Zenon
<1> QED BY <1>3, <1>4, Zenon DEF Codes

\* The order in which the bytes of two pixels are sent.
Sends(p) == [j \in 0..7 |-> Data(p[<<1, 0, 3, 2, 5, 4, 7, 6>>[j + 1]])]

\* The nine bytes of a group are the eight symbols of its bytes.
LEMMA GroupCodes ==
    ASSUME NEW p \in [0..7 -> Byte]
    PROVE  /\ Group(p) \in Seq(Byte) /\ Len(Group(p)) = 9
           /\ \A j \in 0..7 : Codes(Group(p), j, Sends(p)[j])
<1> DEFINE w == Shl(p[1], 23, 32) \union Shl(p[0], 14, 32) \union Shl(p[3], 5, 32)
                \union Shr(p[2], 4) \union {31, 22, 13, 4}
           v == Shl(p[2], 28, 32) \union Shl(p[5], 19, 32) \union Shl(p[4], 10, 32)
                \union Shl(p[7], 1, 32) \union {27, 18, 9, 0}
           c == Nine(w, v, p[6])
<1>1. w \in SUBSET (0..31) /\ v \in SUBSET (0..31) /\ p[6] \in Byte BY DEF Shl, Shr, Byte
<1>2. Group(p) = c BY DEF Group, Nine
<1> HIDE DEF w, v
<1>3. c \in Seq(Byte) /\ Len(c) = 9 BY <1>1, NineBits
<1>4. Codes(c, 0, Data(p[1]))
  <2>1. NineBit(w, v, p[6], 9 * 0) <=> Data(p[1]).data BY DEF NineBit, Data, w, v
  <2>2. \A b \in 0..7 : NineBit(w, v, p[6], 9 * 0 + 8 - b) <=> b \in Data(p[1]).byte
    BY DEF NineBit, Data, w, v, Shl, Shr, Byte
  <2>3. 0 \in 0..7 OBVIOUS
  <2> QED BY <1>1, <2>1, <2>2, <2>3, NineCodes, Zenon DEF c
<1>5. Codes(c, 1, Data(p[0]))
  <2>1. NineBit(w, v, p[6], 9 * 1) <=> Data(p[0]).data BY DEF NineBit, Data, w, v
  <2>2. \A b \in 0..7 : NineBit(w, v, p[6], 9 * 1 + 8 - b) <=> b \in Data(p[0]).byte
    BY DEF NineBit, Data, w, v, Shl, Shr, Byte
  <2>3. 1 \in 0..7 OBVIOUS
  <2> QED BY <1>1, <2>1, <2>2, <2>3, NineCodes, Zenon DEF c
<1>6. Codes(c, 2, Data(p[3]))
  <2>1. NineBit(w, v, p[6], 9 * 2) <=> Data(p[3]).data BY DEF NineBit, Data, w, v
  <2>2. \A b \in 0..7 : NineBit(w, v, p[6], 9 * 2 + 8 - b) <=> b \in Data(p[3]).byte
    BY DEF NineBit, Data, w, v, Shl, Shr, Byte
  <2>3. 2 \in 0..7 OBVIOUS
  <2> QED BY <1>1, <2>1, <2>2, <2>3, NineCodes, Zenon DEF c
<1>7. Codes(c, 3, Data(p[2]))
  <2>1. NineBit(w, v, p[6], 9 * 3) <=> Data(p[2]).data BY DEF NineBit, Data, w, v
  <2>2. \A b \in 0..7 : NineBit(w, v, p[6], 9 * 3 + 8 - b) <=> b \in Data(p[2]).byte
    BY DEF NineBit, Data, w, v, Shl, Shr, Byte
  <2>3. 3 \in 0..7 OBVIOUS
  <2> QED BY <1>1, <2>1, <2>2, <2>3, NineCodes, Zenon DEF c
<1>8. Codes(c, 4, Data(p[5]))
  <2>1. NineBit(w, v, p[6], 9 * 4) <=> Data(p[5]).data BY DEF NineBit, Data, w, v
  <2>2. \A b \in 0..7 : NineBit(w, v, p[6], 9 * 4 + 8 - b) <=> b \in Data(p[5]).byte
    BY DEF NineBit, Data, w, v, Shl, Shr, Byte
  <2>3. 4 \in 0..7 OBVIOUS
  <2> QED BY <1>1, <2>1, <2>2, <2>3, NineCodes, Zenon DEF c
<1>9. Codes(c, 5, Data(p[4]))
  <2>1. NineBit(w, v, p[6], 9 * 5) <=> Data(p[4]).data BY DEF NineBit, Data, w, v
  <2>2. \A b \in 0..7 : NineBit(w, v, p[6], 9 * 5 + 8 - b) <=> b \in Data(p[4]).byte
    BY DEF NineBit, Data, w, v, Shl, Shr, Byte
  <2>3. 5 \in 0..7 OBVIOUS
  <2> QED BY <1>1, <2>1, <2>2, <2>3, NineCodes, Zenon DEF c
<1>10. Codes(c, 6, Data(p[7]))
  <2>1. NineBit(w, v, p[6], 9 * 6) <=> Data(p[7]).data BY DEF NineBit, Data, w, v
  <2>2. \A b \in 0..7 : NineBit(w, v, p[6], 9 * 6 + 8 - b) <=> b \in Data(p[7]).byte
    BY DEF NineBit, Data, w, v, Shl, Shr, Byte
  <2>3. 6 \in 0..7 OBVIOUS
  <2> QED BY <1>1, <2>1, <2>2, <2>3, NineCodes, Zenon DEF c
<1>11. Codes(c, 7, Data(p[6]))
  <2>1. NineBit(w, v, p[6], 9 * 7) <=> Data(p[6]).data BY DEF NineBit, Data, w, v
  <2>2. \A b \in 0..7 : NineBit(w, v, p[6], 9 * 7 + 8 - b) <=> b \in Data(p[6]).byte
    BY DEF NineBit, Data, w, v, Shl, Shr, Byte
  <2>3. 7 \in 0..7 OBVIOUS
  <2> QED BY <1>1, <2>1, <2>2, <2>3, NineCodes, Zenon DEF c
<1>12. \A j \in 0..7 : Codes(c, j, Sends(p)[j])
  <2> HIDE DEF c
  <2> QED BY <1>4, <1>5, <1>6, <1>7, <1>8, <1>9, <1>10, <1>11 DEF Sends
<1> QED BY <1>2, <1>3, <1>12

\* The same of the group as display_data2 computes it.
LEMMA Group2Codes ==
    ASSUME NEW p \in [0..7 -> Byte]
    PROVE  /\ Group2(p) \in Seq(Byte) /\ Len(Group2(p)) = 9
           /\ \A j \in 0..7 : Codes(Group2(p), j, Sends(p)[j])
<1>1. Codes(Group2(p), 0, Data(p[1])) BY DEF Codes, BitOf, Group2, Shl, Shr, Data, Byte
<1>2. Codes(Group2(p), 1, Data(p[0])) BY DEF Codes, BitOf, Group2, Shl, Shr, Data, Byte
<1>3. Codes(Group2(p), 2, Data(p[3])) BY DEF Codes, BitOf, Group2, Shl, Shr, Data, Byte
<1>4. Codes(Group2(p), 3, Data(p[2])) BY DEF Codes, BitOf, Group2, Shl, Shr, Data, Byte
<1>5. Codes(Group2(p), 4, Data(p[5])) BY DEF Codes, BitOf, Group2, Shl, Shr, Data, Byte
<1>6. Codes(Group2(p), 5, Data(p[4])) BY DEF Codes, BitOf, Group2, Shl, Shr, Data, Byte
<1>7. Codes(Group2(p), 6, Data(p[7])) BY DEF Codes, BitOf, Group2, Shl, Shr, Data, Byte
<1>8. Codes(Group2(p), 7, Data(p[6])) BY DEF Codes, BitOf, Group2, Shl, Shr, Data, Byte
<1>9. Group2(p) \in Seq(Byte) /\ Len(Group2(p)) = 9 BY DEF Group2, Shl, Shr, Byte
<1>10. \A j \in 0..7 : Codes(Group2(p), j, Sends(p)[j])
  BY <1>1, <1>2, <1>3, <1>4, <1>5, <1>6, <1>7, <1>8 DEF Sends
<1> QED BY <1>9, <1>10

\* Symbols of bytes that follow m times nine bytes.
LEMMA ConcatCodes ==
    ASSUME NEW a \in Seq(Byte), NEW c \in Seq(Byte), NEW m \in Nat, Len(a) = 9 * m,
           NEW j \in Nat, 9 * j + 8 < 8 * (Len(a) + Len(c)), NEW symbol
    PROVE  Codes(a \o c, j, symbol) <=>
               IF j < 8 * m THEN Codes(a, j, symbol) ELSE Codes(c, j - 8 * m, symbol)
<1>0. Len(c) \in Nat OBVIOUS
<1>1. CASE j < 8 * m
  <2>1. ASSUME NEW u \in 0..8 PROVE BitOf(a \o c, 9 * j + u) <=> BitOf(a, 9 * j + u)
    <3>1. 9 * j + u \in Nat /\ 9 * j + u < 8 * (Len(a) + Len(c)) /\ 9 * j + u < 8 * Len(a)
      BY <1>0, <1>1
    <3> QED BY <3>1, ConcatBits, Zenon
  <2>2. 9 * j + 0 = 9 * j /\ 0 \in 0..8 OBVIOUS
  <2>3. BitOf(a \o c, 9 * j) <=> BitOf(a, 9 * j) BY <2>1, <2>2, Zenon
  <2>4. ASSUME NEW b \in 0..7 PROVE BitOf(a \o c, 9 * j + 8 - b) <=> BitOf(a, 9 * j + 8 - b)
    <3>1. 9 * j + (8 - b) = 9 * j + 8 - b /\ 8 - b \in 0..8 OBVIOUS
    <3> QED BY <2>1, <3>1, Zenon
  <2>5. Codes(a \o c, j, symbol) <=> Codes(a, j, symbol) BY <2>3, <2>4, Zenon DEF Codes
  <2> QED BY <2>5, <1>1
<1>2. CASE ~(j < 8 * m)
  <2> DEFINE i == j - 8 * m
  <2>0. i \in Nat /\ 9 * j = 9 * i + 8 * Len(a) BY <1>2
  <2>1. ASSUME NEW u \in 0..8 PROVE BitOf(a \o c, 9 * j + u) <=> BitOf(c, 9 * i + u)
    <3> DEFINE t == 9 * j + u
    <3>1. t \in Nat /\ t < 8 * (Len(a) + Len(c)) /\ ~(t < 8 * Len(a)) BY <1>0, <1>2
    <3>2. t - 8 * Len(a) = 9 * i + u BY <2>0
    <3> HIDE DEF t, i
    <3>3. BitOf(a \o c, t) <=> IF t < 8 * Len(a) THEN BitOf(a, t) ELSE BitOf(c, t - 8 * Len(a))
      BY <3>1, ConcatBits, Zenon
    <3>4. BitOf(a \o c, t) <=> BitOf(c, t - 8 * Len(a)) BY <3>1, <3>3
    <3> QED BY <3>2, <3>4, Zenon DEF t
  <2>2. 9 * j + 0 = 9 * j /\ 9 * i + 0 = 9 * i /\ 0 \in 0..8 BY <2>0
  <2>3. BitOf(a \o c, 9 * j) <=> BitOf(c, 9 * i) BY <2>1, <2>2, Zenon
  <2>4. ASSUME NEW b \in 0..7 PROVE BitOf(a \o c, 9 * j + 8 - b) <=> BitOf(c, 9 * i + 8 - b)
    <3>1. 9 * j + (8 - b) = 9 * j + 8 - b /\ 9 * i + (8 - b) = 9 * i + 8 - b /\ 8 - b \in 0..8
      BY <2>0
    <3> QED BY <2>1, <3>1, Zenon
  <2>5. Codes(a \o c, j, symbol) <=> Codes(c, i, symbol) BY <2>3, <2>4, Zenon DEF Codes
  <2> QED BY <2>5, <1>2
<1> QED BY <1>1, <1>2

\* Groups of nine bytes are one function on bytes.
Body(groups, n) == [k \in 1..(9 * n) |-> groups[(k - 1) \div 9][((k - 1) % 9) + 1]]

\* Nine bytes per group hold its eight symbols.
LEMMA BodyCodes ==
    ASSUME NEW n \in Nat, NEW groups,
           \A g \in 0..(n - 1) : groups[g] \in Seq(Byte) /\ Len(groups[g]) = 9
    PROVE  /\ Body(groups, n) \in Seq(Byte) /\ Len(Body(groups, n)) = 9 * n
           /\ \A g \in 0..(n - 1), j \in 0..7 : \A symbol :
                  Codes(Body(groups, n), 8 * g + j, symbol) <=> Codes(groups[g], j, symbol)
<1>1. ASSUME NEW g \in 0..(n - 1), NEW i \in 0..8
      PROVE  9 * g + i + 1 \in 1..(9 * n) /\ Body(groups, n)[9 * g + i + 1] = groups[g][i + 1]
  <2>1. PICK k \in 1..(9 * n) : k = 9 * g + i + 1 OBVIOUS
  <2>2. (k - 1) \div 9 = g /\ (k - 1) % 9 = i BY <2>1
  <2>3. Body(groups, n)[k] = groups[(k - 1) \div 9][((k - 1) % 9) + 1] BY DEF Body
  <2> QED BY <2>1, <2>2, <2>3
<1>2. Body(groups, n) \in Seq(Byte) /\ Len(Body(groups, n)) = 9 * n
  <2>1. ASSUME NEW k \in 1..(9 * n) PROVE groups[(k - 1) \div 9][((k - 1) % 9) + 1] \in Byte
    <3>1. PICK g \in 0..(n - 1), i \in 0..8 : k - 1 = 9 * g + i
      <4>1. k - 1 = 9 * ((k - 1) \div 9) + ((k - 1) % 9) /\ (k - 1) \div 9 \in 0..(n - 1)
            /\ (k - 1) % 9 \in 0..8
        OBVIOUS
      <4> QED BY <4>1
    <3>2. (k - 1) \div 9 = g /\ (k - 1) % 9 = i BY <3>1
    <3>3. groups[g] \in Seq(Byte) /\ Len(groups[g]) = 9 OBVIOUS
    <3>4. i + 1 \in 1..Len(groups[g]) BY <3>1, <3>3
    <3>5. groups[g][i + 1] \in Byte BY <3>3, <3>4, ElementOfSeq, Zenon
    <3> QED BY <3>2, <3>5
  <2>2. 9 * n \in Nat OBVIOUS
  <2>3. Body(groups, n) \in [1..(9 * n) -> Byte] BY <2>1, Zenon DEF Body
  <2> QED BY <2>2, <2>3
<1>3. ASSUME NEW g \in 0..(n - 1), NEW t \in 0..71
      PROVE  BitOf(Body(groups, n), 72 * g + t) <=> BitOf(groups[g], t)
  <2>1. PICK i \in 0..8, r \in 0..7 : t = 8 * i + r
    BY t = 8 * (t \div 8) + (t % 8)
  <2>2. t \div 8 = i /\ t % 8 = r BY <2>1
  <2>3. (72 * g + t) \div 8 = 9 * g + i /\ (72 * g + t) % 8 = r BY <2>1
  <2>4. Body(groups, n)[9 * g + i + 1] = groups[g][i + 1] BY <1>1
  <2> QED BY <2>2, <2>3, <2>4, Zenon DEF BitOf
<1>4. ASSUME NEW g \in 0..(n - 1), NEW j \in 0..7, NEW symbol
      PROVE  Codes(Body(groups, n), 8 * g + j, symbol) <=> Codes(groups[g], j, symbol)
  <2>1. 9 * (8 * g + j) = 72 * g + 9 * j /\ 9 * j \in 0..71 OBVIOUS
  <2>2. BitOf(Body(groups, n), 9 * (8 * g + j)) <=> BitOf(groups[g], 9 * j) BY <1>3, <2>1, Zenon
  <2>3. ASSUME NEW b \in 0..7
        PROVE  BitOf(Body(groups, n), 9 * (8 * g + j) + 8 - b) <=> BitOf(groups[g], 9 * j + 8 - b)
    <3>1. 9 * (8 * g + j) + 8 - b = 72 * g + (9 * j + 8 - b) /\ 9 * j + 8 - b \in 0..71 OBVIOUS
    <3> QED BY <1>3, <3>1, Zenon
  <2> QED BY <2>2, <2>3, Zenon DEF Codes
<1> QED BY <1>2, <1>4, Zenon

\* What the word-wise packers write: the symbols of the header, then those of the groups.
LEMMA PackedCodes ==
    ASSUME NEW len \in Nat, NEW groups, NEW header \in Seq(Byte), Len(header) = 18,
           \A g \in 0..(len \div 2 - 1) : groups[g] \in Seq(Byte) /\ Len(groups[g]) = 9
    PROVE  LET bytes == Packed(header, groups, len) IN
           /\ bytes \in Seq(Byte) /\ Len(bytes) = 18 + 9 * (len \div 2)
           /\ \A j \in 0..15 : \A symbol : Codes(header, j, symbol) => Codes(bytes, j, symbol)
           /\ \A g \in 0..(len \div 2 - 1), j \in 0..7 : \A symbol :
                  Codes(groups[g], j, symbol) => Codes(bytes, 16 + 8 * g + j, symbol)
<1>1. PICK n \in Nat : n = len \div 2 OBVIOUS
<1> DEFINE body == Body(groups, n)
<1>2. Packed(header, groups, len) = header \o body BY <1>1 DEF Packed, Body
<1>3. \A g \in 0..(n - 1) : groups[g] \in Seq(Byte) /\ Len(groups[g]) = 9 BY <1>1
<1>4. /\ body \in Seq(Byte) /\ Len(body) = 9 * n
      /\ \A g \in 0..(n - 1), j \in 0..7 : \A symbol :
             Codes(body, 8 * g + j, symbol) <=> Codes(groups[g], j, symbol)
  BY <1>3, BodyCodes
<1> HIDE DEF body
<1>5. header \o body \in Seq(Byte) /\ Len(header \o body) = 18 + 9 * n
  <2>1. header \o body \in Seq(Byte) /\ Len(header \o body) = Len(header) + Len(body)
    BY <1>4, ConcatProperties, Zenon
  <2> QED BY <2>1, <1>4
<1>6. ASSUME NEW j \in 0..15, NEW symbol, Codes(header, j, symbol) PROVE Codes(header \o body, j, symbol)
  <2>1. j \in Nat /\ 2 \in Nat /\ Len(header) = 9 * 2 /\ 9 * j + 8 < 8 * (Len(header) + Len(body))
        /\ j < 8 * 2
    BY <1>4
  <2> QED BY <2>1, <1>6, <1>4, ConcatCodes, Zenon
<1>7. ASSUME NEW g \in 0..(n - 1), NEW j \in 0..7, NEW symbol, Codes(groups[g], j, symbol)
      PROVE  Codes(header \o body, 16 + 8 * g + j, symbol)
  <2>1. Codes(body, 8 * g + j, symbol) BY <1>4, <1>7, Zenon
  <2> DEFINE i == 16 + 8 * g + j
  <2>2. i \in Nat /\ 2 \in Nat /\ Len(header) = 9 * 2 /\ 9 * i + 8 < 8 * (Len(header) + Len(body))
        /\ ~(i < 8 * 2) /\ i - 8 * 2 = 8 * g + j
    BY <1>4
  <2> HIDE DEF i
  <2>3. Codes(header \o body, i, symbol) BY <2>1, <2>2, <1>4, ConcatCodes, Zenon
  <2> QED BY <2>3 DEF i
<1> QED BY <1>1, <1>2, <1>5, <1>6, <1>7

-----------------------------------------------------------------------------
(* The header, and the frame.                                              *)

\* The symbols before the pixels.
Heading ==
    << Command({5, 3, 1}), Data(x[3]), Data(x[2]), Data(x[1]), Data(x[0]),
       Command({5, 3, 1, 0}), Data(y[3]), Data(y[2]), Data(y[1]), Data(y[0]), Command({5, 3, 2}) >>

\* With five NOP before the last.
HeaderSymbol(j) == IF j < 10 THEN Heading[j + 1] ELSE IF j < 15 THEN Nop ELSE Heading[11]

\* The header of display_data3 has these symbols.
LEMMA HeaderCodes ==
    ASSUME x \in [0..3 -> Byte], y \in [0..3 -> Byte]
    PROVE  /\ fill_header_withnop1 \in Seq(Byte) /\ Len(fill_header_withnop1) = 18
           /\ \A j \in 0..15 : Codes(fill_header_withnop1, j, HeaderSymbol(j))
<1> DEFINE w0 == Shl(x[3], 14, 32) \union Shl(x[2], 5, 32) \union Shr(x[1], 4)
                 \union {28, 26, 24, 22, 13, 4}
           w1 == Shl(x[1], 28, 32) \union Shl(x[0], 19, 32) \union Shl(y[3], 1, 32)
                 \union {27, 15, 13, 11, 10, 9, 0}
           w2 == Shl(y[1], 23, 32) \union Shl(y[0], 14, 32) \union {31, 22}
           c == Nine(w0, w1, y[2])
           d == Nine(w2, {}, {5, 3, 2})
<1>1. /\ w0 \in SUBSET (0..31) /\ w1 \in SUBSET (0..31) /\ w2 \in SUBSET (0..31)
      /\ {} \in SUBSET (0..31) /\ y[2] \in Byte /\ {5, 3, 2} \in Byte
  BY DEF Shl, Shr, Byte
<1>2. swap_endian_32({}) = {} BY DEF swap_endian_32
<1>3. fill_header_withnop1 = c \o Stored(swap_endian_32(w2)) \o Stored(swap_endian_32({})) \o <<{5, 3, 2}>>
  BY <1>2 DEF fill_header_withnop1, Nine
<1> HIDE DEF w0, w1, w2
<1>4. /\ c \in Seq(Byte) /\ Len(c) = 9 /\ d \in Seq(Byte) /\ Len(d) = 9
  BY <1>1, NineBits
<1>5. fill_header_withnop1 = c \o d
  <2> DEFINE e == Stored(swap_endian_32(w2))
             f == Stored(swap_endian_32({}))
             g == <<{5, 3, 2}>>
  <2>1. e \in Seq(Byte) /\ f \in Seq(Byte) BY <1>1, WordBits
  <2>2. g \in Seq(Byte) BY <1>1
  <2>3. fill_header_withnop1 = ((c \o e) \o f) \o g BY <1>3
  <2>4. d = (e \o f) \o g BY DEF Nine
  <2> HIDE DEF c, d, e, f, g
  <2>5. c \o e \in Seq(Byte) /\ e \o f \in Seq(Byte) BY <1>4, <2>1, ConcatProperties, Zenon
  <2>6. (c \o e) \o f = c \o (e \o f) BY <1>4, <2>1, ConcatAssociative
  <2> DEFINE h == e \o f
  <2>7. (c \o h) \o g = c \o (h \o g)
    <3> HIDE DEF h
    <3>1. h \in Seq(Byte) BY <2>5 DEF h
    <3> QED BY <1>4, <3>1, <2>2, ConcatAssociative
  <2> QED BY <2>3, <2>4, <2>6, <2>7
<1>6. c \o d \in Seq(Byte) /\ Len(c \o d) = 18
  <2> HIDE DEF c, d
  <2>1. c \o d \in Seq(Byte) /\ Len(c \o d) = Len(c) + Len(d) BY <1>4, ConcatProperties, Zenon
  <2> QED BY <2>1, <1>4
<1>7. Codes(c, 0, Command({5, 3, 1}))
  <2>1. NineBit(w0, w1, y[2], 9 * 0) <=> Command({5, 3, 1}).data BY DEF NineBit, Data, Command, Nop, w0, w1, w2, Shl, Shr, Byte
  <2>2. \A b \in 0..7 : NineBit(w0, w1, y[2], 9 * 0 + 8 - b) <=> b \in Command({5, 3, 1}).byte
    BY DEF NineBit, Data, Command, Nop, w0, w1, w2, Shl, Shr, Byte
  <2>3. 0 \in 0..7 OBVIOUS
  <2> QED BY <1>1, <2>1, <2>2, <2>3, NineCodes, Zenon
<1>8. Codes(c, 1, Data(x[3]))
  <2>1. NineBit(w0, w1, y[2], 9 * 1) <=> Data(x[3]).data BY DEF NineBit, Data, Command, Nop, w0, w1, w2, Shl, Shr, Byte
  <2>2. \A b \in 0..7 : NineBit(w0, w1, y[2], 9 * 1 + 8 - b) <=> b \in Data(x[3]).byte
    BY DEF NineBit, Data, Command, Nop, w0, w1, w2, Shl, Shr, Byte
  <2>3. 1 \in 0..7 OBVIOUS
  <2> QED BY <1>1, <2>1, <2>2, <2>3, NineCodes, Zenon
<1>9. Codes(c, 2, Data(x[2]))
  <2>1. NineBit(w0, w1, y[2], 9 * 2) <=> Data(x[2]).data BY DEF NineBit, Data, Command, Nop, w0, w1, w2, Shl, Shr, Byte
  <2>2. \A b \in 0..7 : NineBit(w0, w1, y[2], 9 * 2 + 8 - b) <=> b \in Data(x[2]).byte
    BY DEF NineBit, Data, Command, Nop, w0, w1, w2, Shl, Shr, Byte
  <2>3. 2 \in 0..7 OBVIOUS
  <2> QED BY <1>1, <2>1, <2>2, <2>3, NineCodes, Zenon
<1>10. Codes(c, 3, Data(x[1]))
  <2>1. NineBit(w0, w1, y[2], 9 * 3) <=> Data(x[1]).data BY DEF NineBit, Data, Command, Nop, w0, w1, w2, Shl, Shr, Byte
  <2>2. \A b \in 0..7 : NineBit(w0, w1, y[2], 9 * 3 + 8 - b) <=> b \in Data(x[1]).byte
    BY DEF NineBit, Data, Command, Nop, w0, w1, w2, Shl, Shr, Byte
  <2>3. 3 \in 0..7 OBVIOUS
  <2> QED BY <1>1, <2>1, <2>2, <2>3, NineCodes, Zenon
<1>11. Codes(c, 4, Data(x[0]))
  <2>1. NineBit(w0, w1, y[2], 9 * 4) <=> Data(x[0]).data BY DEF NineBit, Data, Command, Nop, w0, w1, w2, Shl, Shr, Byte
  <2>2. \A b \in 0..7 : NineBit(w0, w1, y[2], 9 * 4 + 8 - b) <=> b \in Data(x[0]).byte
    BY DEF NineBit, Data, Command, Nop, w0, w1, w2, Shl, Shr, Byte
  <2>3. 4 \in 0..7 OBVIOUS
  <2> QED BY <1>1, <2>1, <2>2, <2>3, NineCodes, Zenon
<1>12. Codes(c, 5, Command({5, 3, 1, 0}))
  <2>1. NineBit(w0, w1, y[2], 9 * 5) <=> Command({5, 3, 1, 0}).data BY DEF NineBit, Data, Command, Nop, w0, w1, w2, Shl, Shr, Byte
  <2>2. \A b \in 0..7 : NineBit(w0, w1, y[2], 9 * 5 + 8 - b) <=> b \in Command({5, 3, 1, 0}).byte
    BY DEF NineBit, Data, Command, Nop, w0, w1, w2, Shl, Shr, Byte
  <2>3. 5 \in 0..7 OBVIOUS
  <2> QED BY <1>1, <2>1, <2>2, <2>3, NineCodes, Zenon
<1>13. Codes(c, 6, Data(y[3]))
  <2>1. NineBit(w0, w1, y[2], 9 * 6) <=> Data(y[3]).data BY DEF NineBit, Data, Command, Nop, w0, w1, w2, Shl, Shr, Byte
  <2>2. \A b \in 0..7 : NineBit(w0, w1, y[2], 9 * 6 + 8 - b) <=> b \in Data(y[3]).byte
    BY DEF NineBit, Data, Command, Nop, w0, w1, w2, Shl, Shr, Byte
  <2>3. 6 \in 0..7 OBVIOUS
  <2> QED BY <1>1, <2>1, <2>2, <2>3, NineCodes, Zenon
<1>14. Codes(c, 7, Data(y[2]))
  <2>1. NineBit(w0, w1, y[2], 9 * 7) <=> Data(y[2]).data BY DEF NineBit, Data, Command, Nop, w0, w1, w2, Shl, Shr, Byte
  <2>2. \A b \in 0..7 : NineBit(w0, w1, y[2], 9 * 7 + 8 - b) <=> b \in Data(y[2]).byte
    BY DEF NineBit, Data, Command, Nop, w0, w1, w2, Shl, Shr, Byte
  <2>3. 7 \in 0..7 OBVIOUS
  <2> QED BY <1>1, <2>1, <2>2, <2>3, NineCodes, Zenon
<1>15. Codes(d, 0, Data(y[1]))
  <2>1. NineBit(w2, {}, {5, 3, 2}, 9 * 0) <=> Data(y[1]).data BY DEF NineBit, Data, Command, Nop, w0, w1, w2, Shl, Shr, Byte
  <2>2. \A b \in 0..7 : NineBit(w2, {}, {5, 3, 2}, 9 * 0 + 8 - b) <=> b \in Data(y[1]).byte
    BY DEF NineBit, Data, Command, Nop, w0, w1, w2, Shl, Shr, Byte
  <2>3. 0 \in 0..7 OBVIOUS
  <2> QED BY <1>1, <2>1, <2>2, <2>3, NineCodes, Zenon
<1>16. Codes(d, 1, Data(y[0]))
  <2>1. NineBit(w2, {}, {5, 3, 2}, 9 * 1) <=> Data(y[0]).data BY DEF NineBit, Data, Command, Nop, w0, w1, w2, Shl, Shr, Byte
  <2>2. \A b \in 0..7 : NineBit(w2, {}, {5, 3, 2}, 9 * 1 + 8 - b) <=> b \in Data(y[0]).byte
    BY DEF NineBit, Data, Command, Nop, w0, w1, w2, Shl, Shr, Byte
  <2>3. 1 \in 0..7 OBVIOUS
  <2> QED BY <1>1, <2>1, <2>2, <2>3, NineCodes, Zenon
<1>17. Codes(d, 2, Nop)
  <2>1. NineBit(w2, {}, {5, 3, 2}, 9 * 2) <=> Nop.data BY DEF NineBit, Data, Command, Nop, w0, w1, w2, Shl, Shr, Byte
  <2>2. \A b \in 0..7 : NineBit(w2, {}, {5, 3, 2}, 9 * 2 + 8 - b) <=> b \in Nop.byte
    BY DEF NineBit, Data, Command, Nop, w0, w1, w2, Shl, Shr, Byte
  <2>3. 2 \in 0..7 OBVIOUS
  <2> QED BY <1>1, <2>1, <2>2, <2>3, NineCodes, Zenon
<1>18. Codes(d, 3, Nop)
  <2>1. NineBit(w2, {}, {5, 3, 2}, 9 * 3) <=> Nop.data BY DEF NineBit, Data, Command, Nop, w0, w1, w2, Shl, Shr, Byte
  <2>2. \A b \in 0..7 : NineBit(w2, {}, {5, 3, 2}, 9 * 3 + 8 - b) <=> b \in Nop.byte
    BY DEF NineBit, Data, Command, Nop, w0, w1, w2, Shl, Shr, Byte
  <2>3. 3 \in 0..7 OBVIOUS
  <2> QED BY <1>1, <2>1, <2>2, <2>3, NineCodes, Zenon
<1>19. Codes(d, 4, Nop)
  <2>1. NineBit(w2, {}, {5, 3, 2}, 9 * 4) <=> Nop.data BY DEF NineBit, Data, Command, Nop, w0, w1, w2, Shl, Shr, Byte
  <2>2. \A b \in 0..7 : NineBit(w2, {}, {5, 3, 2}, 9 * 4 + 8 - b) <=> b \in Nop.byte
    BY DEF NineBit, Data, Command, Nop, w0, w1, w2, Shl, Shr, Byte
  <2>3. 4 \in 0..7 OBVIOUS
  <2> QED BY <1>1, <2>1, <2>2, <2>3, NineCodes, Zenon
<1>20. Codes(d, 5, Nop)
  <2>1. NineBit(w2, {}, {5, 3, 2}, 9 * 5) <=> Nop.data BY DEF NineBit, Data, Command, Nop, w0, w1, w2, Shl, Shr, Byte
  <2>2. \A b \in 0..7 : NineBit(w2, {}, {5, 3, 2}, 9 * 5 + 8 - b) <=> b \in Nop.byte
    BY DEF NineBit, Data, Command, Nop, w0, w1, w2, Shl, Shr, Byte
  <2>3. 5 \in 0..7 OBVIOUS
  <2> QED BY <1>1, <2>1, <2>2, <2>3, NineCodes, Zenon
<1>21. Codes(d, 6, Nop)
  <2>1. NineBit(w2, {}, {5, 3, 2}, 9 * 6) <=> Nop.data BY DEF NineBit, Data, Command, Nop, w0, w1, w2, Shl, Shr, Byte
  <2>2. \A b \in 0..7 : NineBit(w2, {}, {5, 3, 2}, 9 * 6 + 8 - b) <=> b \in Nop.byte
    BY DEF NineBit, Data, Command, Nop, w0, w1, w2, Shl, Shr, Byte
  <2>3. 6 \in 0..7 OBVIOUS
  <2> QED BY <1>1, <2>1, <2>2, <2>3, NineCodes, Zenon
<1>22. Codes(d, 7, Command({5, 3, 2}))
  <2>1. NineBit(w2, {}, {5, 3, 2}, 9 * 7) <=> Command({5, 3, 2}).data BY DEF NineBit, Data, Command, Nop, w0, w1, w2, Shl, Shr, Byte
  <2>2. \A b \in 0..7 : NineBit(w2, {}, {5, 3, 2}, 9 * 7 + 8 - b) <=> b \in Command({5, 3, 2}).byte
    BY DEF NineBit, Data, Command, Nop, w0, w1, w2, Shl, Shr, Byte
  <2>3. 7 \in 0..7 OBVIOUS
  <2> QED BY <1>1, <2>1, <2>2, <2>3, NineCodes, Zenon
<1> HIDE DEF c, d
<1>23. \A j \in 0..7 : Codes(c, j, HeaderSymbol(j))
  BY <1>7, <1>8, <1>9, <1>10, <1>11, <1>12, <1>13, <1>14 DEF HeaderSymbol, Heading
<1>24. \A j \in 8..15 : Codes(d, j - 8, HeaderSymbol(j))
  BY <1>15, <1>16, <1>17, <1>18, <1>19, <1>20, <1>21, <1>22 DEF HeaderSymbol, Heading
<1>25. ASSUME NEW j \in 0..15 PROVE Codes(c \o d, j, HeaderSymbol(j))
  <2>1. j \in Nat /\ 1 \in Nat /\ Len(c) = 9 * 1 /\ 9 * j + 8 < 8 * (Len(c) + Len(d)) BY <1>4
  <2>2. Codes(c \o d, j, HeaderSymbol(j)) <=>
            IF j < 8 * 1 THEN Codes(c, j, HeaderSymbol(j)) ELSE Codes(d, j - 8 * 1, HeaderSymbol(j))
    BY <2>1, <1>4, ConcatCodes, Zenon
  <2>3. CASE j < 8
    <3>1. j \in 0..7 /\ j < 8 * 1 BY <2>3
    <3> QED BY <2>2, <3>1, <1>23, Zenon
  <2>4. CASE ~(j < 8)
    <3>1. j \in 8..15 /\ ~(j < 8 * 1) /\ j - 8 * 1 = j - 8 BY <2>4
    <3> QED BY <2>2, <3>1, <1>24, Zenon
  <2> QED BY <2>3, <2>4
<1> QED BY <1>5, <1>6, <1>25

\* The header of display_data2, whatever its symbols, is as long.
LEMMA OtherHeader ==
    ASSUME x \in [0..3 -> Byte]
    PROVE  fill_header_withnop \in Seq(Byte) /\ Len(fill_header_withnop) = 18
<1>1. \A w : Swapped64(w) \in Seq(Byte) /\ Len(Swapped64(w)) = 8 BY DEF Swapped64, Byte
<1>2. \A a, b, c, d : a \in Seq(Byte) /\ b \in Seq(Byte) /\ Len(a) = 8 /\ Len(b) = 8
                     /\ c \in Byte /\ d \in Byte
          => a \o <<c>> \o b \o <<d>> \in Seq(Byte) /\ Len(a \o <<c>> \o b \o <<d>>) = 18
  <2> SUFFICES ASSUME NEW a \in Seq(Byte), NEW b \in Seq(Byte), Len(a) = 8, Len(b) = 8,
                      NEW c \in Byte, NEW d \in Byte
               PROVE  a \o <<c>> \o b \o <<d>> \in Seq(Byte) /\ Len(a \o <<c>> \o b \o <<d>>) = 18
    BY Zenon
  <2>1. <<c>> \in Seq(Byte) /\ <<d>> \in Seq(Byte) /\ Len(<<c>>) = 1 /\ Len(<<d>>) = 1
    OBVIOUS
  <2>2. a \o <<c>> \in Seq(Byte) /\ Len(a \o <<c>>) = Len(a) + Len(<<c>>)
    BY <2>1, ConcatProperties, Zenon
  <2>3. a \o <<c>> \o b \in Seq(Byte) /\ Len(a \o <<c>> \o b) = Len(a \o <<c>>) + Len(b)
    BY <2>2, ConcatProperties, Zenon
  <2>4. /\ a \o <<c>> \o b \o <<d>> \in Seq(Byte)
        /\ Len(a \o <<c>> \o b \o <<d>>) = Len(a \o <<c>> \o b) + Len(<<d>>)
    BY <2>1, <2>3, ConcatProperties, Zenon
  <2> QED BY <2>1, <2>2, <2>3, <2>4
<1>3. x[2] \in Byte /\ {5, 3, 2} \in Byte BY DEF Byte
<1>4. \E w, v : fill_header_withnop = Swapped64(w) \o <<x[2]>> \o Swapped64(v) \o <<{5, 3, 2}>>
  BY Zenon DEF fill_header_withnop
<1>5. PICK w, v : fill_header_withnop = Swapped64(w) \o <<x[2]>> \o Swapped64(v) \o <<{5, 3, 2}>>
  BY <1>4
<1> DEFINE a == Swapped64(w)
           b == Swapped64(v)
           c == x[2]
           d == {5, 3, 2}
<1>6. a \in Seq(Byte) /\ b \in Seq(Byte) /\ Len(a) = 8 /\ Len(b) = 8
      /\ c \in Byte /\ d \in Byte
  BY <1>1, <1>3
<1>7. fill_header_withnop = a \o <<c>> \o b \o <<d>> BY <1>5
<1> HIDE DEF a, b, c, d
<1>8. a \o <<c>> \o b \o <<d>> \in Seq(Byte) /\ Len(a \o <<c>> \o b \o <<d>>) = 18
  BY <1>2, <1>6, Zenon
<1> QED BY <1>7, <1>8

AnySymbol == [data : BOOLEAN, byte : Byte]

\* What the caller packs.
Drawn ==
    /\ x \in [0..3 -> Byte] /\ y \in [0..3 -> Byte]
    /\ data_buf \in [0..(4 * MaxLen - 1) -> Byte]

\* The frame as one function.
Frame(len) == [k \in 1..(11 + 4 * len) |-> IF k <= 11 THEN Heading[k] ELSE Pixels(k - 12)]

\* Nothing in a frame is a NOP.
LEMMA SymbolTypes ==
    ASSUME Drawn
    PROVE  /\ \A b \in Byte : Command(b) \in AnySymbol /\ Data(b) \in AnySymbol
           /\ \A k \in 1..11 : Heading[k] \in AnySymbol \ {Nop}
           /\ \A k \in 0..(4 * MaxLen - 1) : Pixels(k) \in AnySymbol \ {Nop}
<1>1. \A b \in Byte : Command(b) \in AnySymbol /\ Data(b) \in AnySymbol
  BY DEF Command, Data, AnySymbol
<1>2. \A b \in Byte : Data(b) # Nop /\ (b # {} => Command(b) # Nop) BY DEF Command, Data, Nop
<1>3. {5, 3, 1} \in Byte /\ {5, 3, 1, 0} \in Byte /\ {5, 3, 2} \in Byte BY DEF Byte
<1>4. ASSUME NEW k \in 1..11 PROVE Heading[k] \in AnySymbol \ {Nop}
  <2>1. \A i \in 0..3 : x[i] \in Byte /\ y[i] \in Byte BY DEF Drawn
  <2>2. {5, 3, 1} # {} /\ {5, 3, 1, 0} # {} /\ {5, 3, 2} # {} OBVIOUS
  <2>3. \/ \E b \in Byte : Heading[k] = Data(b)
        \/ \E b \in Byte : b # {} /\ Heading[k] = Command(b)
    <3> HIDE DEF Byte
    <3> QED BY <2>1, <2>2, <1>3 DEF Heading
  <2> QED BY <2>3, <1>1, <1>2
<1>5. ASSUME NEW k \in 0..(4 * MaxLen - 1) PROVE Pixels(k) \in AnySymbol \ {Nop}
  <2>1. PICK q \in Nat, r \in 0..3 : k = 4 * q + r
    <3>1. k = 4 * (k \div 4) + (k % 4) /\ k \div 4 \in Nat /\ k % 4 \in 0..3 BY SpiAssumption
    <3> QED BY <3>1
  <2>2. k \div 4 = q /\ k % 4 = r BY <2>1
  <2>3. <<1, 0, 3, 2>>[r + 1] \in 0..3 BY <2>1
  <2>4. 4 * q + <<1, 0, 3, 2>>[r + 1] \in 0..(4 * MaxLen - 1)
    BY <2>1, <2>3, SpiAssumption
  <2>5. data_buf[4 * q + <<1, 0, 3, 2>>[r + 1]] \in Byte BY <2>4 DEF Drawn
  <2>6. Pixels(k) = Data(data_buf[4 * q + <<1, 0, 3, 2>>[r + 1]]) BY <2>2 DEF Pixels
  <2> QED BY <2>5, <2>6, <1>1, <1>2
<1> QED BY <1>1, <1>4, <1>5

\* The frame put together piece by piece is Frame.
LEMMA StreamIsFrame ==
    ASSUME Drawn, NEW len \in 0..MaxLen
    PROVE  Stream(len) = Frame(len)
<1> DEFINE H == <<Command({5, 3, 1})>> \o Coordinate(x) \o <<Command({5, 3, 1, 0})>>
                \o Coordinate(y) \o <<Command({5, 3, 2})>>
           P == [k \in 1..(4 * len) |-> Pixels(k - 1)]
<1>0. len \in Nat /\ len <= MaxLen BY SpiAssumption
<1>1. Stream(len) = H \o P BY DEF Stream
<1>2. \A b \in Byte : Command(b) \in AnySymbol /\ Data(b) \in AnySymbol BY SymbolTypes
<1>3. H \in Seq(AnySymbol) /\ Len(H) = 11 /\ \A k \in 1..11 : H[k] = Heading[k]
  <2> DEFINE a == <<Command({5, 3, 1})>>
             b == Coordinate(x)
             c == <<Command({5, 3, 1, 0})>>
             d == Coordinate(y)
             e == <<Command({5, 3, 2})>>
  <2>0. /\ a \in Seq(AnySymbol) /\ b \in Seq(AnySymbol) /\ c \in Seq(AnySymbol) /\ d \in Seq(AnySymbol)
        /\ e \in Seq(AnySymbol) /\ Len(a) = 1 /\ Len(b) = 4 /\ Len(c) = 1 /\ Len(d) = 4 /\ Len(e) = 1
    <3>1. {5, 3, 1} \in Byte /\ {5, 3, 1, 0} \in Byte /\ {5, 3, 2} \in Byte BY DEF Byte
    <3>2. \A i \in 0..3 : x[i] \in Byte /\ y[i] \in Byte BY DEF Drawn
    <3> QED BY <1>2, <3>1, <3>2 DEF Coordinate
  <2>1. \A k \in 1..11 : Heading[k] = IF k = 1 THEN a[1] ELSE IF k <= 5 THEN b[k - 1]
                                      ELSE IF k = 6 THEN c[1] ELSE IF k <= 10 THEN d[k - 6] ELSE e[1]
    BY DEF Heading, Coordinate
  <2> HIDE DEF a, b, c, d, e
  <2>2. /\ a \o b \in Seq(AnySymbol) /\ Len(a \o b) = 5
        /\ \A k \in 1..5 : (a \o b)[k] = IF k = 1 THEN a[1] ELSE b[k - 1]
    <3>1. /\ a \o b \in Seq(AnySymbol) /\ Len(a \o b) = Len(a) + Len(b)
          /\ \A k \in 1..(Len(a) + Len(b)) : (a \o b)[k] = IF k <= Len(a) THEN a[k] ELSE b[k - Len(a)]
      BY <2>0, ConcatProperties, Zenon
    <3>2. Len(a) = 1 /\ Len(a) + Len(b) = 5 BY <2>0
    <3>3. \A k \in 1..5 : (a \o b)[k] = IF k <= 1 THEN a[k] ELSE b[k - 1] BY <3>1, <3>2
    <3>4. \A k \in 1..5 : k <= 1 <=> k = 1 OBVIOUS
    <3> QED BY <3>1, <3>2, <3>3, <3>4
  <2>3. /\ a \o b \o c \in Seq(AnySymbol) /\ Len(a \o b \o c) = 6
        /\ \A k \in 1..6 : (a \o b \o c)[k] = IF k <= 5 THEN (a \o b)[k] ELSE c[1]
    <3> DEFINE f == a \o b
    <3>0. f \in Seq(AnySymbol) /\ Len(f) = 5 BY <2>2
    <3> HIDE DEF f
    <3>1. /\ f \o c \in Seq(AnySymbol) /\ Len(f \o c) = Len(f) + Len(c)
          /\ \A k \in 1..(Len(f) + Len(c)) : (f \o c)[k] = IF k <= Len(f) THEN f[k] ELSE c[k - Len(f)]
      BY <2>0, <3>0, ConcatProperties, Zenon
    <3>2. /\ f \o c \in Seq(AnySymbol) /\ Len(f \o c) = 6
          /\ \A k \in 1..6 : (f \o c)[k] = IF k <= 5 THEN f[k] ELSE c[1]
      BY <3>1, <3>0, <2>0
    <3> QED BY <3>2 DEF f
  <2>4. /\ a \o b \o c \o d \in Seq(AnySymbol) /\ Len(a \o b \o c \o d) = 10
        /\ \A k \in 1..10 : (a \o b \o c \o d)[k] = IF k <= 6 THEN (a \o b \o c)[k] ELSE d[k - 6]
    <3> DEFINE f == a \o b \o c
    <3>0. f \in Seq(AnySymbol) /\ Len(f) = 6 BY <2>3
    <3> HIDE DEF f
    <3>1. /\ f \o d \in Seq(AnySymbol) /\ Len(f \o d) = Len(f) + Len(d)
          /\ \A k \in 1..(Len(f) + Len(d)) : (f \o d)[k] = IF k <= Len(f) THEN f[k] ELSE d[k - Len(f)]
      BY <2>0, <3>0, ConcatProperties, Zenon
    <3>2. /\ f \o d \in Seq(AnySymbol) /\ Len(f \o d) = 10
          /\ \A k \in 1..10 : (f \o d)[k] = IF k <= 6 THEN f[k] ELSE d[k - 6]
      <4>1. Len(f) = 6 /\ Len(f) + Len(d) = 10 BY <3>0, <2>0
      <4> QED BY <3>1, <4>1
    <3> QED BY <3>2 DEF f
  <2>5. /\ a \o b \o c \o d \o e \in Seq(AnySymbol) /\ Len(a \o b \o c \o d \o e) = 11
        /\ \A k \in 1..11 : (a \o b \o c \o d \o e)[k] = IF k <= 10 THEN (a \o b \o c \o d)[k] ELSE e[1]
    <3> DEFINE f == a \o b \o c \o d
    <3>0. f \in Seq(AnySymbol) /\ Len(f) = 10 BY <2>4
    <3> HIDE DEF f
    <3>1. /\ f \o e \in Seq(AnySymbol) /\ Len(f \o e) = Len(f) + Len(e)
          /\ \A k \in 1..(Len(f) + Len(e)) : (f \o e)[k] = IF k <= Len(f) THEN f[k] ELSE e[k - Len(f)]
      BY <2>0, <3>0, ConcatProperties, Zenon
    <3>2. /\ f \o e \in Seq(AnySymbol) /\ Len(f \o e) = 11
          /\ \A k \in 1..11 : (f \o e)[k] = IF k <= 10 THEN f[k] ELSE e[1]
      <4>1. Len(f) + Len(e) = 11 /\ Len(f) = 10 BY <3>0, <2>0
      <4>2. \A k \in 1..11 : (f \o e)[k] = IF k <= 10 THEN f[k] ELSE e[k - 10] BY <3>1, <4>1
      <4>3. \A k \in 1..11 : ~(k <= 10) => k - 10 = 1 OBVIOUS
      <4> QED BY <3>1, <4>1, <4>2, <4>3
    <3> QED BY <3>2 DEF f
  <2>6. \A k \in 1..11 : (a \o b \o c \o d \o e)[k] = Heading[k]
    <3> DEFINE f == a \o b
               g == a \o b \o c
               h == a \o b \o c \o d
               l == a \o b \o c \o d \o e
    <3>1. /\ \A k \in 1..11 : l[k] = IF k <= 10 THEN h[k] ELSE e[1]
          /\ \A k \in 1..10 : h[k] = IF k <= 6 THEN g[k] ELSE d[k - 6]
          /\ \A k \in 1..6 : g[k] = IF k <= 5 THEN f[k] ELSE c[1]
          /\ \A k \in 1..5 : f[k] = IF k = 1 THEN a[1] ELSE b[k - 1]
      BY <2>2, <2>3, <2>4, <2>5, Zenon
    <3> HIDE DEF f, g, h, l
    <3>2. \A k \in 1..11 : l[k] = Heading[k] BY <3>1, <2>1
    <3> QED BY <3>2 DEF l
  <2>7. H = a \o b \o c \o d \o e BY DEF a, b, c, d, e
  <2> HIDE DEF H
  <2> QED BY <2>5, <2>6, <2>7
<1>4. P \in Seq(AnySymbol) /\ Len(P) = 4 * len
  <2>1. \A k \in 1..(4 * len) : Pixels(k - 1) \in AnySymbol
    <3> SUFFICES ASSUME NEW k \in 1..(4 * len) PROVE Pixels(k - 1) \in AnySymbol
      OBVIOUS
    <3>1. k - 1 \in 0..(4 * MaxLen - 1) BY <1>0, SpiAssumption
    <3> QED BY <3>1, SymbolTypes
  <2>2. P \in [1..(4 * len) -> AnySymbol] BY <2>1, Zenon
  <2>3. 4 * len \in Nat BY <1>0
  <2> QED BY <2>2, <2>3
<1>5. \A k \in 1..(4 * len) : P[k] = Pixels(k - 1) OBVIOUS
<1> HIDE DEF H, P
<1>6. /\ H \o P \in Seq(AnySymbol) /\ Len(H \o P) = 11 + 4 * len
      /\ \A k \in 1..(11 + 4 * len) : (H \o P)[k] = IF k <= 11 THEN H[k] ELSE P[k - 11]
  <2>1. /\ H \o P \in Seq(AnySymbol) /\ Len(H \o P) = Len(H) + Len(P)
        /\ \A k \in 1..(Len(H) + Len(P)) : (H \o P)[k] = IF k <= Len(H) THEN H[k] ELSE P[k - Len(H)]
    BY <1>3, <1>4, ConcatProperties, Zenon
  <2> QED BY <2>1, <1>3, <1>4
<1>7. \A k \in 1..(11 + 4 * len) : (H \o P)[k] = IF k <= 11 THEN Heading[k] ELSE Pixels(k - 12)
  <2> SUFFICES ASSUME NEW k \in 1..(11 + 4 * len)
               PROVE (H \o P)[k] = IF k <= 11 THEN Heading[k] ELSE Pixels(k - 12)
    OBVIOUS
  <2>1. CASE k <= 11
    <3>1. k \in 1..11 BY <2>1, <1>0
    <3> QED BY <3>1, <2>1, <1>6, <1>3
  <2>2. CASE ~(k <= 11)
    <3>1. k - 11 \in 1..(4 * len) /\ (k - 11) - 1 = k - 12 BY <1>0, <2>2
    <3>2. P[k - 11] = Pixels((k - 11) - 1) BY <3>1, <1>5, Zenon
    <3>3. P[k - 11] = Pixels(k - 12) BY <3>1, <3>2
    <3> QED BY <2>2, <1>6, <3>3
  <2> QED BY <2>1, <2>2
<1>8. H \o P = [k \in 1..(11 + 4 * len) |-> (H \o P)[k]]
  <2>1. H \o P \in [1..Len(H \o P) -> AnySymbol] BY <1>6, LenProperties, Zenon
  <2> QED BY <2>1, <1>6
<1>9. Stream(len) = [k \in 1..(11 + 4 * len) |-> IF k <= 11 THEN Heading[k] ELSE Pixels(k - 12)]
  <2> DEFINE f == H \o P
  <2>1. f = [k \in 1..(11 + 4 * len) |-> f[k]] BY <1>8
  <2>2. \A k \in 1..(11 + 4 * len) : f[k] = IF k <= 11 THEN Heading[k] ELSE Pixels(k - 12) BY <1>7
  <2> HIDE DEF f
  <2>3. f = [k \in 1..(11 + 4 * len) |-> IF k <= 11 THEN Heading[k] ELSE Pixels(k - 12)]
    BY <2>1, <2>2, Zenon
  <2> QED BY <2>3, <1>1 DEF f
<1> QED BY <1>9 DEF Frame

\* Its symbols, none of them a NOP.
LEMMA FrameTypes ==
    ASSUME Drawn, NEW len \in 0..MaxLen
    PROVE  /\ Frame(len) \in [1..(11 + 4 * len) -> AnySymbol]
           /\ \A k \in 1..(11 + 4 * len) : Frame(len)[k] # Nop
           /\ \A k \in 1..11 : Frame(len)[k] = Heading[k]
           /\ \A k \in 12..(11 + 4 * len) : Frame(len)[k] = Pixels(k - 12)
<1> DEFINE w == Frame(len)
           l == 11 + 4 * len
<1>0. len \in Nat /\ MaxLen \in Nat /\ len <= MaxLen BY SpiAssumption
<1>1. w = [k \in 1..l |-> IF k <= 11 THEN Heading[k] ELSE Pixels(k - 12)] BY DEF Frame
<1>2. \A k \in 1..l : w[k] = IF k <= 11 THEN Heading[k] ELSE Pixels(k - 12) BY <1>1, Zenon
<1>3. w = [k \in 1..l |-> w[k]] BY <1>1, <1>2, Zenon
<1>4. \A k \in 1..11 : k \in 1..l /\ k <= 11 BY <1>0
<1>5. \A k \in 12..l : k \in 1..l /\ ~(k <= 11) BY <1>0
<1> HIDE DEF w
<1>6. \A k \in 1..11 : w[k] = Heading[k] BY <1>2, <1>4
<1>7. \A k \in 12..l : w[k] = Pixels(k - 12)
  <2> HIDE DEF l
  <2> QED BY <1>2, <1>5
<1>8. \A k \in 1..l : w[k] \in AnySymbol \ {Nop}
  <2> SUFFICES ASSUME NEW k \in 1..l PROVE w[k] \in AnySymbol \ {Nop}
    OBVIOUS
  <2>1. CASE k <= 11
    <3>1. k \in 1..11 BY <2>1
    <3> QED BY <3>1, <1>6, SymbolTypes
  <2>2. CASE ~(k <= 11)
    <3>1. k \in 12..l BY <2>2, <1>0
    <3>2. k - 12 \in 0..(4 * MaxLen - 1) BY <3>1, <1>0
    <3> QED BY <3>1, <3>2, <1>7, SymbolTypes
  <2> QED BY <2>1, <2>2
<1> HIDE DEF l
<1>9. w \in [1..l -> AnySymbol] /\ \A k \in 1..l : w[k] # Nop BY <1>3, <1>8
<1> QED BY <1>6, <1>7, <1>9 DEF w, l

-----------------------------------------------------------------------------
(* What the display makes of the symbols: the NOPs are left out.           *)

\* A set of natural numbers has a least element; it stands for an induction.
LEMMA LeastNumber ==
    ASSUME NEW T, T \subseteq Nat, T # {}
    PROVE  \E m \in T : \A k \in T : m <= k
<1> DEFINE R == {ss \in Nat \X Nat : ss[1] < ss[2]}
<1>1. IsWellFoundedOn(R, Nat) BY NatLessThanWellFounded DEF OpToRel
<1> HIDE DEF R
<1>2. PICK m \in T : \A k \in T : ~(<<k, m>> \in R) BY <1>1, WFMin
<1>3. \A k \in T : ~(k < m)
  <2> SUFFICES ASSUME NEW k \in T, k < m PROVE FALSE
    OBVIOUS
  <2>1. <<k, m>> \in R BY DEF R
  <2> QED BY <2>1, <1>2
<1>4. m \in Nat /\ \A k \in T : k \in Nat OBVIOUS
<1>5. \A k \in T : m <= k BY <1>3, <1>4
<1> QED BY <1>5

\* What is received after symbol s - 1, g being what is received before it.
Kept(first, g, s) ==
    IF s = first THEN <<>>
    ELSE IF Symbol(s - 1) = Nop THEN g[s - 1]
    ELSE Append(g[s - 1], Symbol(s - 1))

\* e has in each place what is received so far.
Keeps(first, n, e) ==
    /\ n = (8 * spi_send_len) \div 9
    /\ e = [s \in first..n |-> e[s]]
    /\ \A s \in first..n : e[s] = Kept(first, e, s)

\* The recursive function of ReceivedFrom is the only one with its steps.
LEMMA Collected ==
    ASSUME NEW first \in Nat, NEW n \in Nat, first <= n, NEW e, Keeps(first, n, e)
    PROVE  ReceivedFrom(first) = e[n]
<1>0. /\ n = (8 * spi_send_len) \div 9
      /\ e = [s \in first..n |-> e[s]]
      /\ \A s \in first..n : e[s] = Kept(first, e, s)
  BY Zenon DEF Keeps
<1> DEFINE F(g) == [s \in first..n |-> Kept(first, g, s)]
           f == CHOOSE g : g = F(g)
<1>1. ReceivedFrom(first) = f[n] BY <1>0, Zenon DEF ReceivedFrom, Kept
<1>2. e = F(e) BY <1>0, Zenon
<1>3. f = F(f)
  <2> HIDE DEF F
  <2> QED BY <1>2
<1> HIDE DEF f
<1>4. \A s \in first..n : f[s] = Kept(first, f, s) BY <1>3, Zenon
<1>5. ASSUME \E s \in first..n : f[s] # e[s] PROVE FALSE
  <2> DEFINE T == {s \in first..n : f[s] # e[s]}
  <2>1. T \subseteq Nat /\ T # {} BY <1>5
  <2>2. PICK s \in T : \A r \in T : s <= r
    <3> HIDE DEF T
    <3> QED BY <2>1, LeastNumber
  <2>3. s \in first..n /\ f[s] # e[s] BY <2>2
  <2>4. CASE s = first
    <3>1. Kept(first, f, s) = Kept(first, e, s) BY <2>4 DEF Kept
    <3> QED BY <3>1, <2>3, <1>0, <1>4, Zenon
  <2>5. CASE s # first
    <3>1. s - 1 \in first..n /\ s - 1 < s BY <2>3, <2>5
    <3>2. f[s - 1] = e[s - 1]
      <4>1. ~(s <= s - 1) BY <2>3
      <4>2. ~(s - 1 \in T) BY <4>1, <2>2, Zenon
      <4> QED BY <4>2, <3>1
    <3>3. Kept(first, f, s) = Kept(first, e, s) BY <3>2, Zenon DEF Kept
    <3> QED BY <3>3, <2>3, <1>0, <1>4, Zenon
  <2> QED BY <2>4, <2>5
<1>6. n \in first..n OBVIOUS
<1> QED BY <1>1, <1>5, <1>6

\* The first m symbols of w.
FirstOf(w, m) == [k \in 1..m |-> w[k]]

\* The first symbols of w, one more at a time.
LEMMA FirstOfNext ==
    ASSUME NEW l \in Nat, NEW w \in [1..l -> AnySymbol]
    PROVE  /\ FirstOf(w, 0) = <<>> /\ FirstOf(w, l) = w
           /\ \A m \in 0..(l - 1) : Append(FirstOf(w, m), w[m + 1]) = FirstOf(w, m + 1)
<1>1. FirstOf(w, 0) = <<>> BY DEF FirstOf
<1>2. FirstOf(w, l) = w BY DEF FirstOf
<1>3. ASSUME NEW m \in 0..(l - 1) PROVE Append(FirstOf(w, m), w[m + 1]) = FirstOf(w, m + 1)
  <2> DEFINE a == FirstOf(w, m)
             b == w[m + 1]
  <2>1. a \in Seq(AnySymbol) /\ Len(a) = m /\ \A k \in 1..m : a[k] = w[k] BY DEF FirstOf
  <2>2. b \in AnySymbol OBVIOUS
  <2> HIDE DEF a, b
  <2> DEFINE c == Append(a, b)
  <2>3. /\ c \in Seq(AnySymbol) /\ Len(c) = Len(a) + 1
        /\ \A k \in 1..Len(a) : c[k] = a[k]
        /\ c[Len(a) + 1] = b
    <3>1. a \in Seq(AnySymbol) BY <2>1
    <3> QED BY <3>1, <2>2, AppendProperties
  <2> HIDE DEF c
  <2>4. \A k \in 1..(m + 1) : c[k] = w[k] BY <2>1, <2>3 DEF b
  <2>5. c = [k \in 1..(m + 1) |-> c[k]]
    <3>1. c \in [1..Len(c) -> AnySymbol] BY <2>3, LenProperties, Zenon
    <3> QED BY <3>1, <2>1, <2>3
  <2>6. c = [k \in 1..(m + 1) |-> w[k]] BY <2>4, <2>5, Zenon
  <2> QED BY <2>6 DEF a, b, c, FirstOf
<1> QED BY <1>1, <1>2, <1>3

\* How much of a frame of l symbols is received before symbol s: its first h symbols
\* come first, then as many NOPs as gap says, then the rest of it, then NOPs.
Place(first, h, gap, l, s) ==
    IF s <= first + h THEN s - first
    ELSE IF s <= first + h + gap THEN h
    ELSE IF s <= first + gap + l THEN s - first - gap ELSE l

Carried(first, n, l, h, gap, w) ==
    /\ first \in Nat /\ n \in Nat /\ l \in Nat /\ h \in 0..l /\ gap \in Nat
    /\ first + gap + l <= n /\ n = (8 * spi_send_len) \div 9
    /\ w \in [1..l -> AnySymbol] /\ \A k \in 1..l : w[k] # Nop
    /\ \A k \in 1..h : Symbol(first + k - 1) = w[k]
    /\ \A s \in (first + h)..(first + h + gap - 1) : Symbol(s) = Nop
    /\ \A k \in (h + 1)..l : Symbol(first + gap + k - 1) = w[k]
    /\ \A s \in (first + gap + l)..(n - 1) : Symbol(s) = Nop

\* What is carried is received.
LEMMA ReceivedIs ==
    ASSUME NEW first, NEW n, NEW l, NEW h, NEW gap, NEW w, Carried(first, n, l, h, gap, w)
    PROVE  ReceivedFrom(first) = w
<1> SUFFICES
        ASSUME first \in Nat, n \in Nat, l \in Nat, h \in 0..l, gap \in Nat,
               first + gap + l <= n, n = (8 * spi_send_len) \div 9,
               w \in [1..l -> AnySymbol], \A k \in 1..l : w[k] # Nop,
               \A k \in 1..h : Symbol(first + k - 1) = w[k],
               \A s \in (first + h)..(first + h + gap - 1) : Symbol(s) = Nop,
               \A k \in (h + 1)..l : Symbol(first + gap + k - 1) = w[k],
               \A s \in (first + gap + l)..(n - 1) : Symbol(s) = Nop
        PROVE  ReceivedFrom(first) = w
  BY Zenon DEF Carried
<1> DEFINE P(s) == Place(first, h, gap, l, s)
           e == [s \in first..n |-> FirstOf(w, P(s))]
<1>1. ASSUME NEW s \in first..n PROVE e[s] = Kept(first, e, s)
  <2>0. e[s] = FirstOf(w, P(s)) OBVIOUS
  <2>1. CASE s = first
    <3>1. P(s) = 0 BY <2>1 DEF Place
    <3> QED BY <3>1, <2>0, <2>1, FirstOfNext DEF Kept
  <2>2. CASE s # first
    <3>1. s - 1 \in first..n BY <2>2
    <3>2. e[s - 1] = FirstOf(w, P(s - 1)) BY <3>1
    <3>3. \/ /\ Symbol(s - 1) = Nop /\ P(s) = P(s - 1)
          \/ /\ Symbol(s - 1) # Nop /\ P(s - 1) \in 0..(l - 1) /\ P(s) = P(s - 1) + 1
             /\ Symbol(s - 1) = w[P(s - 1) + 1]
      <4>1. CASE s <= first + h
        <5>1. s - first \in 1..h /\ first + (s - first) - 1 = s - 1 /\ s - first \in 1..l
              /\ P(s) = s - first /\ P(s - 1) = s - first - 1
          BY <2>2, <4>1 DEF Place
        <5>2. Symbol(s - 1) = w[s - first] /\ w[s - first] # Nop BY <5>1
        <5>3. P(s - 1) + 1 = s - first /\ P(s - 1) \in 0..(l - 1) /\ P(s) = P(s - 1) + 1 BY <5>1
        <5> HIDE DEF P
        <5> QED BY <5>2, <5>3
      <4>2. CASE ~(s <= first + h) /\ s <= first + h + gap
        <5>1. s - 1 \in (first + h)..(first + h + gap - 1) /\ P(s) = h /\ P(s - 1) = h
          BY <4>2 DEF Place
        <5> QED BY <5>1
      <4>3. CASE ~(s <= first + h + gap) /\ s <= first + gap + l
        <5> DEFINE k == s - first - gap
        <5>1. k \in (h + 1)..l /\ k \in 1..l /\ first + gap + k - 1 = s - 1
              /\ P(s) = k /\ P(s - 1) = k - 1
          BY <4>3 DEF Place
        <5> HIDE DEF k, P
        <5>2. Symbol(s - 1) = w[k] /\ w[k] # Nop BY <5>1
        <5>3. P(s - 1) + 1 = k /\ P(s - 1) \in 0..(l - 1) /\ P(s) = P(s - 1) + 1 BY <5>1
        <5> QED BY <5>2, <5>3
      <4>4. CASE ~(s <= first + gap + l)
        <5>1. s - 1 \in (first + gap + l)..(n - 1) /\ P(s) = l /\ P(s - 1) = l
          BY <4>4 DEF Place
        <5> QED BY <5>1
      <4> QED BY <4>1, <4>2, <4>3, <4>4
    <3> HIDE DEF P, e
    <3>4. CASE Symbol(s - 1) = Nop
      <4>1. P(s) = P(s - 1) BY <3>3, <3>4
      <4> QED BY <4>1, <3>2, <3>4, <2>0, <2>2, Zenon DEF Kept
    <3>5. CASE Symbol(s - 1) # Nop
      <4>1. P(s - 1) \in 0..(l - 1) /\ P(s) = P(s - 1) + 1 /\ Symbol(s - 1) = w[P(s - 1) + 1]
        BY <3>3, <3>5
      <4>2. Append(FirstOf(w, P(s - 1)), w[P(s - 1) + 1]) = FirstOf(w, P(s - 1) + 1)
        BY <4>1, FirstOfNext, Zenon
      <4>3. Kept(first, e, s) = Append(e[s - 1], Symbol(s - 1)) BY <2>2, <3>5, Zenon DEF Kept
      <4> QED BY <4>1, <4>2, <4>3, <3>2, <2>0
    <3> QED BY <3>4, <3>5
  <2> QED BY <2>1, <2>2
<1>2. e = [s \in first..n |-> e[s]] OBVIOUS
<1>3. first <= n OBVIOUS
<1>4. ReceivedFrom(first) = e[n]
  <2> HIDE DEF e, P
  <2>1. Keeps(first, n, e) BY <1>1, <1>2, Zenon DEF Keeps
  <2> QED BY <2>1, <1>3, Collected
<1>5. P(n) = l /\ n \in first..n BY DEF Place
<1>6. e[n] = FirstOf(w, P(n)) BY <1>5
<1> HIDE DEF e, P
<1> QED BY <1>4, <1>5, <1>6, FirstOfNext

-----------------------------------------------------------------------------
(* The buffer and what it holds.                                           *)

\* Bit t of a buffer, and symbol s in it.
BufBit(buf, t) == 7 - (t % 8) \in buf[t \div 8]

Shows(buf, s, symbol) ==
    /\ BufBit(buf, 9 * s) <=> symbol.data
    /\ \A b \in 0..7 : BufBit(buf, 9 * s + 8 - b) <=> b \in symbol.byte

\* What is shown is received.
LEMMA ShownSymbol ==
    ASSUME NEW s \in Nat, NEW symbol \in AnySymbol, Shows(p_spi_send_buf, s, symbol)
    PROVE  Symbol(s) = symbol
<1>1. \A t : Bit(t) <=> BufBit(p_spi_send_buf, t) BY DEF Bit, BufBit
<1>2. Bit(9 * s) = symbol.data
  <2>1. symbol.data \in BOOLEAN BY DEF AnySymbol
  <2>2. Bit(9 * s) \in BOOLEAN BY DEF Bit
  <2> QED BY <2>1, <2>2, <1>1, Zenon DEF Shows
<1>3. {b \in 0..7 : Bit(9 * s + 8 - b)} = symbol.byte
  <2>1. symbol.byte \in SUBSET (0..7) BY DEF AnySymbol, Byte
  <2>2. \A b \in 0..7 : Bit(9 * s + 8 - b) <=> b \in symbol.byte BY <1>1, Zenon DEF Shows
  <2> HIDE DEF Bit
  <2> QED BY <2>1, <2>2
<1>4. symbol = [data |-> symbol.data, byte |-> symbol.byte] BY DEF AnySymbol
<1> QED BY <1>2, <1>3, <1>4, Zenon DEF Symbol

\* The bytes are in the buffer, and zeros after them.
Holds(bytes) ==
    \A k \in 0..(spi_send_len - 1) :
        p_spi_send_buf[k] = IF k < Len(bytes) THEN bytes[k + 1] ELSE {}

\* A symbol of the bytes held is shown, and one beyond them is a NOP.
LEMMA HeldSymbols ==
    ASSUME NEW bytes \in Seq(Byte), spi_send_len \in Nat, Holds(bytes),
           Len(bytes) <= spi_send_len, NEW s \in Nat
    PROVE  /\ 9 * s + 8 < 8 * Len(bytes) =>
                \A symbol : Codes(bytes, s, symbol) => Shows(p_spi_send_buf, s, symbol)
           /\ 8 * Len(bytes) <= 9 * s /\ 9 * s + 8 < 8 * spi_send_len =>
                Shows(p_spi_send_buf, s, Nop)
<1>0. Len(bytes) \in Nat OBVIOUS
<1>1. ASSUME NEW t \in Nat, t < 8 * spi_send_len
      PROVE  BufBit(p_spi_send_buf, t) <=> (t < 8 * Len(bytes) /\ BitOf(bytes, t))
  <2>1. PICK q \in Nat, r \in 0..7 : t = 8 * q + r
    <3>1. t = 8 * (t \div 8) + (t % 8) /\ t \div 8 \in Nat /\ t % 8 \in 0..7 OBVIOUS
    <3> QED BY <3>1
  <2>2. t \div 8 = q /\ t % 8 = r BY <2>1
  <2>3. q \in 0..(spi_send_len - 1) /\ (q < Len(bytes) <=> t < 8 * Len(bytes)) BY <2>1, <1>1, <1>0
  <2>4. p_spi_send_buf[q] = IF q < Len(bytes) THEN bytes[q + 1] ELSE {} BY <2>3 DEF Holds
  <2> QED BY <2>2, <2>3, <2>4 DEF BufBit, BitOf
<1>2. ASSUME 9 * s + 8 < 8 * Len(bytes), NEW symbol, Codes(bytes, s, symbol)
      PROVE  Shows(p_spi_send_buf, s, symbol)
  <2>1. ASSUME NEW u \in 0..8
        PROVE  BufBit(p_spi_send_buf, 9 * s + u) <=> BitOf(bytes, 9 * s + u)
    <3>1. 9 * s + u \in Nat /\ 9 * s + u < 8 * spi_send_len /\ 9 * s + u < 8 * Len(bytes)
      BY <1>0, <1>2
    <3> QED BY <1>1, <3>1, Zenon
  <2>2. 9 * s + 0 = 9 * s /\ 0 \in 0..8 OBVIOUS
  <2>3. BufBit(p_spi_send_buf, 9 * s) <=> BitOf(bytes, 9 * s) BY <2>1, <2>2, Zenon
  <2>4. ASSUME NEW b \in 0..7
        PROVE  BufBit(p_spi_send_buf, 9 * s + 8 - b) <=> BitOf(bytes, 9 * s + 8 - b)
    <3>1. 9 * s + (8 - b) = 9 * s + 8 - b /\ 8 - b \in 0..8 OBVIOUS
    <3> QED BY <2>1, <3>1, Zenon
  <2> QED BY <1>2, <2>3, <2>4, Zenon DEF Codes, Shows
<1>3. ASSUME 8 * Len(bytes) <= 9 * s, 9 * s + 8 < 8 * spi_send_len
      PROVE  Shows(p_spi_send_buf, s, Nop)
  <2>1. ASSUME NEW u \in 0..8 PROVE ~BufBit(p_spi_send_buf, 9 * s + u)
    <3>1. 9 * s + u \in Nat /\ 9 * s + u < 8 * spi_send_len /\ ~(9 * s + u < 8 * Len(bytes))
      BY <1>0, <1>3
    <3> QED BY <1>1, <3>1, Zenon
  <2>2. 9 * s + 0 = 9 * s /\ 0 \in 0..8 OBVIOUS
  <2>3. ~BufBit(p_spi_send_buf, 9 * s) BY <2>1, <2>2, Zenon
  <2>4. ASSUME NEW b \in 0..7 PROVE ~BufBit(p_spi_send_buf, 9 * s + 8 - b)
    <3>1. 9 * s + (8 - b) = 9 * s + 8 - b /\ 8 - b \in 0..8 OBVIOUS
    <3> QED BY <2>1, <3>1, Zenon
  <2>5. Nop.data = FALSE /\ Nop.byte = {} BY DEF Nop, Command
  <2> QED BY <2>3, <2>4, <2>5 DEF Shows
<1> QED BY <1>2, <1>3

\* As many symbols are sent as were counted, and a few bits.
LEMMA SentSymbols ==
    ASSUME NEW m \in Nat
    PROVE  /\ SendLen(m) \in Nat /\ 9 * m <= 8 * SendLen(m) /\ 8 * SendLen(m) <= 9 * m + 7
           /\ (8 * SendLen(m)) \div 9 = m
<1>1. PICK q \in Nat, r \in 0..7 : m * 9 + 7 = 8 * q + r
  <2>1. m * 9 + 7 = 8 * ((m * 9 + 7) \div 8) + ((m * 9 + 7) % 8)
        /\ (m * 9 + 7) \div 8 \in Nat /\ (m * 9 + 7) % 8 \in 0..7
    OBVIOUS
  <2> QED BY <2>1
<1>2. SendLen(m) = q BY <1>1 DEF SendLen
<1> QED BY <1>1, <1>2

\* The eight bytes of a group are eight pixels' bytes, sent in their order.
LEMMA EightPixels ==
    ASSUME Drawn, NEW len \in 0..MaxLen, NEW g \in 0..(len \div 2 - 1)
    PROVE  /\ Eight(g) \in [0..7 -> Byte]
           /\ \A j \in 0..7 : Sends(Eight(g))[j] = Pixels(8 * g + j)
<1>0. len \in Nat /\ len <= MaxLen /\ MaxLen \in Nat BY SpiAssumption
<1>1. \A k \in 0..7 : 8 * g + k \in 0..(4 * MaxLen - 1) BY <1>0
<1>2. \A k \in 0..7 : data_buf[8 * g + k] \in Byte BY <1>1 DEF Drawn
<1>3. Eight(g) \in [0..7 -> Byte] BY <1>2, Zenon DEF Eight
<1>4. \A k \in 0..7 : Eight(g)[k] = data_buf[8 * g + k] BY DEF Eight
<1>5. ASSUME NEW j \in 0..7 PROVE Sends(Eight(g))[j] = Pixels(8 * g + j)
  <2>1. PICK h \in 0..1, i \in 0..3 : j = 4 * h + i
    <3>1. j = 4 * (j \div 4) + (j % 4) /\ j \div 4 \in 0..1 /\ j % 4 \in 0..3 OBVIOUS
    <3> QED BY <3>1
  <2>2. (8 * g + j) \div 4 = 2 * g + h /\ (8 * g + j) % 4 = i BY <2>1
  <2>3. Pixels(8 * g + j) = Data(data_buf[4 * (2 * g + h) + <<1, 0, 3, 2>>[i + 1]])
    BY <2>2 DEF Pixels
  <2>4. /\ <<1, 0, 3, 2, 5, 4, 7, 6>>[j + 1] = 4 * h + <<1, 0, 3, 2>>[i + 1]
        /\ <<1, 0, 3, 2>>[i + 1] \in 0..3
    BY <2>1
  <2>5. PICK k \in 0..7 : k = 4 * h + <<1, 0, 3, 2>>[i + 1] BY <2>4, <2>1
  <2>6. 4 * (2 * g + h) + <<1, 0, 3, 2>>[i + 1] = 8 * g + k BY <2>4, <2>5, <2>1, <1>0
  <2>7. Sends(Eight(g))[j] = Data(Eight(g)[k]) BY <2>4, <2>5 DEF Sends
  <2> QED BY <2>3, <2>6, <2>7, <1>4
<1> QED BY <1>3, <1>5

-----------------------------------------------------------------------------
(* The word-wise packers.                                                  *)

Bytes2(len) ==
    Packed(fill_header_withnop, [g \in 0..(len \div 2 - 1) |-> Group2(Eight(g))], len)

Bytes3(len) ==
    Packed(fill_header_withnop1, [g \in 0..(len \div 2 - 1) |-> Group(Eight(g))], len)

WordWise(packer, bytes) ==
    call.by = packer =>
        /\ spi_send_len = SendLen(24 + 4 * call.len) /\ spi_send_len <= TX_BUF_MAX_LEN
        /\ call.end = Len(bytes) /\ Holds(bytes)

PackTypes == Drawn /\ call.len \in 0..MaxLen

\* Both send the pixels after sixteen symbols, and NOPs after them; nothing else is
\* written.
LEMMA PixelsSent ==
    ASSUME PackTypes, NEW header \in Seq(Byte), Len(header) = 18, NEW groups,
           \A g \in 0..(call.len \div 2 - 1) :
               /\ groups[g] \in Seq(Byte) /\ Len(groups[g]) = 9
               /\ \A j \in 0..7 : Codes(groups[g], j, Sends(Eight(g))[j]),
           spi_send_len = SendLen(24 + 4 * call.len),
           Holds(Packed(header, groups, call.len))
    PROVE  /\ \A k \in 0..(8 * (call.len \div 2) - 1) : Symbol(16 + k) = Pixels(k)
           /\ \A s \in (16 + 8 * (call.len \div 2))..(23 + 4 * call.len) : Symbol(s) = Nop
           /\ \A j \in 0..15 : \A symbol \in AnySymbol : Codes(header, j, symbol) => Symbol(j) = symbol
           /\ Len(Packed(header, groups, call.len)) <= spi_send_len
<1> DEFINE bytes == Packed(header, groups, call.len)
<1>1. PICK len \in 0..MaxLen, n \in Nat : len = call.len /\ n = call.len \div 2 /\ 2 * n <= len
  BY SpiAssumption DEF PackTypes
<1>2. /\ bytes \in Seq(Byte) /\ Len(bytes) = 18 + 9 * n
      /\ \A j \in 0..15 : \A symbol : Codes(header, j, symbol) => Codes(bytes, j, symbol)
      /\ \A g \in 0..(n - 1), j \in 0..7 : \A symbol :
             Codes(groups[g], j, symbol) => Codes(bytes, 16 + 8 * g + j, symbol)
  <2>1. len \in Nat BY SpiAssumption
  <2>2. \A g \in 0..(len \div 2 - 1) : groups[g] \in Seq(Byte) /\ Len(groups[g]) = 9 BY <1>1
  <2> QED BY <1>1, <2>1, <2>2, PackedCodes
<1> HIDE DEF bytes
<1>3. /\ spi_send_len \in Nat /\ 9 * (24 + 4 * len) <= 8 * spi_send_len
      /\ len \in Nat
  <2>1. 24 + 4 * len \in Nat /\ len \in Nat BY SpiAssumption
  <2> QED BY <2>1, <1>1, SentSymbols
<1>4. Len(bytes) <= spi_send_len
  <2>1. Len(bytes) = 18 + 9 * n /\ 2 * n <= len /\ n \in Nat /\ len \in Nat BY <1>1, <1>2, <1>3
  <2>2. 9 * (24 + 4 * len) <= 8 * spi_send_len /\ spi_send_len \in Nat BY <1>3
  <2> QED BY <2>1, <2>2
<1>5. Holds(bytes) BY DEF bytes
<1>6. ASSUME NEW s \in Nat, s < 16 + 8 * n, NEW symbol \in AnySymbol, Codes(bytes, s, symbol)
      PROVE  Symbol(s) = symbol
  <2>1. 9 * s + 8 < 8 * Len(bytes) BY <1>2, <1>6
  <2>2. Shows(p_spi_send_buf, s, symbol) BY <1>2, <1>3, <1>4, <1>5, <1>6, <2>1, HeldSymbols
  <2> QED BY <2>2, ShownSymbol
<1>7. ASSUME NEW s \in (16 + 8 * n)..(23 + 4 * len) PROVE Symbol(s) = Nop
  <2>1. s \in Nat /\ 8 * Len(bytes) <= 9 * s /\ 9 * s + 8 < 8 * spi_send_len BY <1>2, <1>3
  <2>2. Shows(p_spi_send_buf, s, Nop) BY <1>2, <1>3, <1>4, <1>5, <2>1, HeldSymbols
  <2>3. Nop \in AnySymbol BY DEF Nop, Command, AnySymbol, Byte
  <2> QED BY <2>1, <2>2, <2>3, ShownSymbol
<1>8. ASSUME NEW j \in 0..15, NEW symbol \in AnySymbol, Codes(header, j, symbol)
      PROVE  Symbol(j) = symbol
  <2>1. Codes(bytes, j, symbol) BY <1>2, <1>8
  <2>2. j \in Nat /\ j < 16 + 8 * n OBVIOUS
  <2> QED BY <1>6, <2>1, <2>2
<1>9. ASSUME NEW k \in 0..(8 * n - 1) PROVE Symbol(16 + k) = Pixels(k)
  <2>1. PICK g \in 0..(n - 1), j \in 0..7 : k = 8 * g + j
    <3>1. k = 8 * (k \div 8) + (k % 8) /\ k \div 8 \in 0..(n - 1) /\ k % 8 \in 0..7 OBVIOUS
    <3> QED BY <3>1
  <2>2. g \in 0..(len \div 2 - 1) BY <1>1, <2>1
  <2>3. Drawn BY DEF PackTypes
  <2>4. Sends(Eight(g))[j] = Pixels(8 * g + j) BY <2>1, <2>2, <2>3, EightPixels
  <2>5. Codes(groups[g], j, Pixels(8 * g + j)) BY <1>1, <2>1, <2>2, <2>4
  <2>6. Codes(bytes, 16 + 8 * g + j, Pixels(8 * g + j)) BY <1>2, <2>1, <2>5, Zenon
  <2>7. k \in 0..(4 * MaxLen - 1)
    <3>1. MaxLen \in Nat BY SpiAssumption
    <3>2. len \in Nat /\ len <= MaxLen BY <3>1
    <3>3. 2 * n <= len BY <1>1
    <3>4. k <= 8 * n - 1 /\ k \in Nat OBVIOUS
    <3> QED BY <3>1, <3>2, <3>3, <3>4
  <2>8. Pixels(k) \in AnySymbol BY <2>3, <2>7, SymbolTypes
  <2>9. 16 + k \in Nat /\ 16 + k < 16 + 8 * n /\ 16 + 8 * g + j = 16 + k BY <2>1
  <2>10. Codes(bytes, 16 + k, Pixels(k)) BY <2>6, <2>9, <2>1
  <2> QED BY <1>6, <2>8, <2>9, <2>10
<1> QED BY <1>1, <1>4, <1>7, <1>8, <1>9 DEF bytes

\* display_data2 sends the pixels.
LEMMA Sent2 ==
    ASSUME PackTypes, WordWise("display_data2", Bytes2(call.len))
    PROVE  PixelsArrive
<1> SUFFICES ASSUME call.by = "display_data2"
             PROVE  ReceivedFrom(16) = [k \in 1..(8 * (call.len \div 2)) |-> Pixels(k - 1)]
  BY DEF PixelsArrive
<1>1. PICK len \in 0..MaxLen, n \in Nat : len = call.len /\ n = call.len \div 2 /\ 2 * n <= len
  BY SpiAssumption DEF PackTypes
<1> DEFINE groups == [g \in 0..(call.len \div 2 - 1) |-> Group2(Eight(g))]
           w == [k \in 1..(8 * n) |-> Pixels(k - 1)]
<1>2. Drawn BY DEF PackTypes
<1>3. fill_header_withnop \in Seq(Byte) /\ Len(fill_header_withnop) = 18
  BY <1>2, OtherHeader DEF Drawn
<1>4. \A g \in 0..(call.len \div 2 - 1) :
          /\ groups[g] \in Seq(Byte) /\ Len(groups[g]) = 9
          /\ \A j \in 0..7 : Codes(groups[g], j, Sends(Eight(g))[j])
  <2> SUFFICES ASSUME NEW g \in 0..(call.len \div 2 - 1)
               PROVE  /\ groups[g] \in Seq(Byte) /\ Len(groups[g]) = 9
                      /\ \A j \in 0..7 : Codes(groups[g], j, Sends(Eight(g))[j])
    BY Zenon
  <2>1. groups[g] = Group2(Eight(g)) BY Zenon
  <2>2. Eight(g) \in [0..7 -> Byte] BY <1>1, <1>2, EightPixels
  <2> QED BY <2>1, <2>2, Group2Codes
<1>5. spi_send_len = SendLen(24 + 4 * call.len) /\ Holds(Packed(fill_header_withnop, groups, call.len))
  BY DEF WordWise, Bytes2
<1> HIDE DEF groups
<1>6. /\ \A k \in 0..(8 * n - 1) : Symbol(16 + k) = Pixels(k)
      /\ \A s \in (16 + 8 * n)..(23 + 4 * len) : Symbol(s) = Nop
  BY <1>1, <1>3, <1>4, <1>5, PixelsSent
<1>7. 24 + 4 * len = (8 * spi_send_len) \div 9 /\ len \in Nat
  <2>1. 24 + 4 * len \in Nat /\ len \in Nat BY SpiAssumption
  <2> QED BY <2>1, <1>1, <1>5, SentSymbols
<1>8. \A k \in 1..(8 * n) : Pixels(k - 1) \in AnySymbol \ {Nop}
  <2> SUFFICES ASSUME NEW k \in 1..(8 * n) PROVE Pixels(k - 1) \in AnySymbol \ {Nop}
    OBVIOUS
  <2>1. k - 1 \in 0..(4 * MaxLen - 1) BY <1>1, SpiAssumption
  <2> QED BY <2>1, <1>2, SymbolTypes
<1>9. w \in [1..(8 * n) -> AnySymbol] /\ \A k \in 1..(8 * n) : w[k] # Nop /\ w[k] = Pixels(k - 1)
  BY <1>8, Zenon
<1>10. \A k \in 1..(8 * n) : Symbol(16 + k - 1) = w[k]
  <2> SUFFICES ASSUME NEW k \in 1..(8 * n) PROVE Symbol(16 + k - 1) = w[k]
    OBVIOUS
  <2>1. k - 1 \in 0..(8 * n - 1) /\ 16 + (k - 1) = 16 + k - 1 OBVIOUS
  <2>2. Symbol(16 + (k - 1)) = Pixels(k - 1) BY <2>1, <1>6, Zenon
  <2> QED BY <2>1, <2>2, <1>9
<1> HIDE DEF w
<1>11. ReceivedFrom(16) = w
  <2> DEFINE l == 8 * n
             m == 24 + 4 * len
             first == 16
             gap == 0
  <2>1. /\ first \in Nat /\ m \in Nat /\ l \in Nat /\ l \in 0..l /\ gap \in Nat
        /\ first + gap + l <= m /\ m = (8 * spi_send_len) \div 9
    BY <1>1, <1>7
  <2>2. w \in [1..l -> AnySymbol] /\ \A k \in 1..l : w[k] # Nop BY <1>9
  <2>3. \A k \in 1..l : Symbol(first + k - 1) = w[k] BY <1>10
  <2>4. /\ \A s \in (first + l)..(first + l + gap - 1) : Symbol(s) = Nop
        /\ \A k \in (l + 1)..l : Symbol(first + gap + k - 1) = w[k]
    BY <2>1
  <2>5. \A s \in (first + gap + l)..(m - 1) : Symbol(s) = Nop BY <1>6, <2>1
  <2>6. ReceivedFrom(first) = w
    <3> HIDE DEF l, m, first, gap
    <3>1. Carried(first, m, l, l, gap, w) BY <2>1, <2>2, <2>3, <2>4, <2>5, Zenon DEF Carried
    <3> QED BY <3>1, ReceivedIs, Zenon
  <2> QED BY <2>6
<1> QED BY <1>1, <1>11 DEF w

\* display_data3 sends the frame.
LEMMA Sent3 ==
    ASSUME PackTypes, WordWise("display_data3", Bytes3(call.len))
    PROVE  FastSendsFrame
<1> SUFFICES ASSUME call.by = "display_data3"
             PROVE  Received = Stream(2 * (call.len \div 2)) /\ WritesAreSent
  BY DEF FastSendsFrame
<1>1. PICK len \in 0..MaxLen, n \in Nat : len = call.len /\ n = call.len \div 2 /\ 2 * n <= len
  BY SpiAssumption DEF PackTypes
<1>2. len \in Nat /\ MaxLen \in Nat /\ len <= MaxLen /\ 2 * n \in 0..MaxLen /\ 8 * n = 4 * (2 * n)
  <2>1. len \in Nat /\ MaxLen \in Nat /\ len <= MaxLen BY SpiAssumption
  <2> QED BY <2>1, <1>1
<1> DEFINE groups == [g \in 0..(call.len \div 2 - 1) |-> Group(Eight(g))]
           w == Frame(2 * n)
           l == 11 + 4 * (2 * n)
           m == 24 + 4 * len
<1>3. Drawn BY DEF PackTypes
<1>4. /\ fill_header_withnop1 \in Seq(Byte) /\ Len(fill_header_withnop1) = 18
      /\ \A j \in 0..15 : Codes(fill_header_withnop1, j, HeaderSymbol(j))
  BY <1>3, HeaderCodes DEF Drawn
<1>5. \A g \in 0..(call.len \div 2 - 1) :
          /\ groups[g] \in Seq(Byte) /\ Len(groups[g]) = 9
          /\ \A j \in 0..7 : Codes(groups[g], j, Sends(Eight(g))[j])
  <2> SUFFICES ASSUME NEW g \in 0..(call.len \div 2 - 1)
               PROVE  /\ groups[g] \in Seq(Byte) /\ Len(groups[g]) = 9
                      /\ \A j \in 0..7 : Codes(groups[g], j, Sends(Eight(g))[j])
    BY Zenon
  <2>1. groups[g] = Group(Eight(g)) BY Zenon
  <2>2. Eight(g) \in [0..7 -> Byte] BY <1>1, <1>3, EightPixels
  <2> QED BY <2>1, <2>2, GroupCodes
<1>6. /\ spi_send_len = SendLen(24 + 4 * call.len)
      /\ Holds(Packed(fill_header_withnop1, groups, call.len))
      /\ call.end = Len(Packed(fill_header_withnop1, groups, call.len))
      /\ spi_send_len <= TX_BUF_MAX_LEN
  BY DEF WordWise, Bytes3
<1> HIDE DEF groups
<1>7. /\ \A k \in 0..(8 * n - 1) : Symbol(16 + k) = Pixels(k)
      /\ \A s \in (16 + 8 * n)..(23 + 4 * len) : Symbol(s) = Nop
      /\ \A j \in 0..15 : \A symbol \in AnySymbol :
             Codes(fill_header_withnop1, j, symbol) => Symbol(j) = symbol
      /\ Len(Packed(fill_header_withnop1, groups, call.len)) <= spi_send_len
  BY <1>1, <1>4, <1>5, <1>6, PixelsSent
<1>8. WritesAreSent BY <1>6, <1>7 DEF WritesAreSent
<1>9. m = (8 * spi_send_len) \div 9
  <2>1. 24 + 4 * len \in Nat BY <1>2
  <2> QED BY <2>1, <1>1, <1>6, SentSymbols
<1>10. \A j \in 0..15 : Symbol(j) = HeaderSymbol(j)
  <2> SUFFICES ASSUME NEW j \in 0..15 PROVE Symbol(j) = HeaderSymbol(j)
    OBVIOUS
  <2>1. \A k \in 1..11 : Heading[k] \in AnySymbol BY <1>3, SymbolTypes
  <2>2. Nop \in AnySymbol BY DEF Nop, Command, AnySymbol, Byte
  <2>3. HeaderSymbol(j) \in AnySymbol BY <2>1, <2>2 DEF HeaderSymbol
  <2> QED BY <2>3, <1>4, <1>7
<1>11. /\ w \in [1..l -> AnySymbol] /\ \A k \in 1..l : w[k] # Nop
       /\ \A k \in 1..11 : w[k] = Heading[k]
       /\ \A k \in 12..l : w[k] = Pixels(k - 12)
  BY <1>2, <1>3, FrameTypes
<1> DEFINE first == 0
           h == 10
           gap == 5
<1>12. Carried(first, m, l, h, gap, w)
  <2>1. /\ first \in Nat /\ m \in Nat /\ l \in Nat /\ h \in 0..l /\ gap \in Nat
        /\ first + gap + l <= m
    BY <1>1, <1>2
  <2>2. w \in [1..l -> AnySymbol] /\ \A k \in 1..l : w[k] # Nop BY <1>11
  <2>3. \A k \in 1..h : Symbol(first + k - 1) = w[k]
    <3> SUFFICES ASSUME NEW k \in 1..h PROVE Symbol(first + k - 1) = w[k]
      OBVIOUS
    <3>1. k - 1 \in 0..15 /\ k - 1 < 10 /\ first + k - 1 = k - 1 /\ (k - 1) + 1 = k /\ k \in 1..11
      OBVIOUS
    <3>2. HeaderSymbol(k - 1) = Heading[k] BY <3>1 DEF HeaderSymbol
    <3> HIDE DEF w, first
    <3> QED BY <3>1, <3>2, <1>10, <1>11
  <2>4. \A s \in (first + h)..(first + h + gap - 1) : Symbol(s) = Nop
    <3> SUFFICES ASSUME NEW s \in 10..14 PROVE Symbol(s) = Nop
      OBVIOUS
    <3>1. s \in 0..15 /\ ~(s < 10) /\ s < 15 OBVIOUS
    <3>2. HeaderSymbol(s) = Nop BY <3>1 DEF HeaderSymbol
    <3> QED BY <3>1, <3>2, <1>10
  <2>5. \A k \in (h + 1)..l : Symbol(first + gap + k - 1) = w[k]
    <3> SUFFICES ASSUME NEW k \in 11..l PROVE Symbol(first + gap + k - 1) = w[k]
      OBVIOUS
    <3>1. CASE k = 11
      <4>1. first + gap + k - 1 = 15 BY <3>1
      <4>2. HeaderSymbol(15) = Heading[11] BY DEF HeaderSymbol
      <4>3. 15 \in 0..15 /\ 11 \in 1..11 OBVIOUS
      <4> HIDE DEF w, first, gap
      <4> QED BY <4>1, <4>2, <4>3, <3>1, <1>10, <1>11
    <3>2. CASE k # 11
      <4>1. k \in 12..l /\ k - 12 \in 0..(8 * n - 1) /\ first + gap + k - 1 = 16 + (k - 12)
        BY <3>2, <1>2
      <4> HIDE DEF w, first, gap
      <4>2. Symbol(16 + (k - 12)) = Pixels(k - 12) BY <4>1, <1>7, Zenon
      <4> QED BY <4>1, <4>2, <1>11
    <3> QED BY <3>1, <3>2
  <2>6. \A s \in (first + gap + l)..(m - 1) : Symbol(s) = Nop
    <3> SUFFICES ASSUME NEW s \in (first + gap + l)..(m - 1) PROVE Symbol(s) = Nop
      OBVIOUS
    <3>1. s \in (16 + 8 * n)..(23 + 4 * len) BY <1>2
    <3> QED BY <3>1, <1>7
  <2> HIDE DEF first, m, l, h, gap, w
  <2> QED BY <2>1, <2>2, <2>3, <2>4, <2>5, <2>6, <1>9, Zenon DEF Carried
<1>13. ReceivedFrom(first) = w
  <2> HIDE DEF first, m, l, h, gap, w
  <2> QED BY <1>12, ReceivedIs, Zenon
<1>14. Stream(2 * n) = w BY <1>2, <1>3, StreamIsFrame
<1> QED BY <1>1, <1>8, <1>13, <1>14 DEF Received

-----------------------------------------------------------------------------
(* The bit-wise packer.                                                    *)

Buffer == [Cell -> Byte]

\* One symbol is written at its nine bits, if these are zero, and no other bit changes.
LEMMA LcmWrites ==
    ASSUME NEW buf \in Buffer, NEW s \in Nat, 9 * s + 8 < 8 * TX_BUF_MAX_LEN,
           NEW symbol \in AnySymbol
    PROVE  LET r == WriteLcm([buf |-> buf, pos |-> 9 * s], symbol) IN
           /\ r.pos = 9 * (s + 1) /\ r.buf \in Buffer /\ r = [buf |-> r.buf, pos |-> r.pos]
           /\ \A t \in Nat : t < 8 * TX_BUF_MAX_LEN /\ (t < 9 * s \/ t >= 9 * s + 9)
                  => (BufBit(r.buf, t) <=> BufBit(buf, t))
           /\ (\A u \in 0..8 : ~BufBit(buf, 9 * s + u)) => Shows(r.buf, s, symbol)
<1> DEFINE r == WriteLcm([buf |-> buf, pos |-> 9 * s], symbol)
<1>0. TX_BUF_MAX_LEN \in Nat BY SpiAssumption
<1>1. PICK i \in Nat, j \in 0..7 : 9 * s = 8 * i + j
  <2>1. 9 * s = 8 * ((9 * s) \div 8) + ((9 * s) % 8) /\ (9 * s) \div 8 \in Nat /\ (9 * s) % 8 \in 0..7
    OBVIOUS
  <2> QED BY <2>1
<1>2. (9 * s) \div 8 = i /\ (9 * s) % 8 = j BY <1>1
<1>3. i \in Cell /\ i + 1 \in Cell /\ i # i + 1 BY <1>0, <1>1 DEF Cell
<1>4. symbol.data \in BOOLEAN /\ symbol.byte \in SUBSET (0..7) BY DEF AnySymbol, Byte
<1> DEFINE flag == IF symbol.data THEN {7 - j} ELSE {}
           n == (j + 1) % 8
           flagged == Or(buf, i, flag)
           done == IF n = 0 THEN [flagged EXCEPT ![i + 1] = symbol.byte]
                   ELSE Or(Or(flagged, i, Shr(symbol.byte, n)), i + 1, Shl(symbol.byte, 8 - n, 8))
<1>5. r = [buf |-> done, pos |-> 9 * s + 9] BY <1>2 DEF WriteLcm
<1>6. r.pos = 9 * (s + 1) /\ r.buf = done /\ r = [buf |-> r.buf, pos |-> r.pos]
  <2> HIDE DEF done, r
  <2>1. r.pos = 9 * s + 9 /\ r.buf = done BY <1>5
  <2>2. r = [buf |-> r.buf, pos |-> r.pos] BY <1>5, <2>1
  <2> QED BY <2>1, <2>2
<1> HIDE DEF r
<1> DEFINE Wanted ==
        /\ done \in Buffer
        /\ \A t \in Nat : t < 8 * TX_BUF_MAX_LEN /\ (t < 9 * s \/ t >= 9 * s + 9)
               => (BufBit(done, t) <=> BufBit(buf, t))
        /\ (\A u \in 0..8 : ~BufBit(buf, 9 * s + u)) => Shows(done, s, symbol)
<1>7. flag \in Byte BY <1>1 DEF Byte
<1>8. flagged \in Buffer /\ flagged[i] = buf[i] \union flag
      /\ \A q \in Cell : q # i => flagged[q] = buf[q]
  <2> HIDE DEF flag
  <2> QED BY <1>3, <1>7 DEF Or, Buffer, Byte
<1>9. ASSUME j = 7 PROVE Wanted
  <2>1. n = 0 BY <1>9
  <2>2. done = [flagged EXCEPT ![i + 1] = symbol.byte] BY <2>1
  <2> HIDE DEF flagged, done, n, flag
  <2>3. done \in Buffer /\ done[i] = buf[i] \union flag /\ done[i + 1] = symbol.byte
        /\ \A q \in Cell : q # i /\ q # i + 1 => done[q] = buf[q]
    BY <2>2, <1>3, <1>4, <1>8 DEF Buffer, Byte
  <2>4. ASSUME NEW t \in Nat, t < 8 * TX_BUF_MAX_LEN, t < 9 * s \/ t >= 9 * s + 9
        PROVE  BufBit(done, t) <=> BufBit(buf, t)
    <3>1. PICK q \in Nat, v \in 0..7 : t = 8 * q + v
      <4>1. t = 8 * (t \div 8) + (t % 8) /\ t \div 8 \in Nat /\ t % 8 \in 0..7 OBVIOUS
      <4> QED BY <4>1
    <3>2. t \div 8 = q /\ t % 8 = v BY <3>1
    <3>3. q \in Cell /\ q # i + 1 /\ (q = i => 7 - v # 7 - j)
      BY <3>1, <2>4, <1>0, <1>1, <1>9 DEF Cell
    <3>4. 7 - v \in done[q] <=> 7 - v \in buf[q] BY <2>3, <3>3 DEF flag
    <3> QED BY <3>2, <3>4, Zenon DEF BufBit
  <2>5. ASSUME \A u \in 0..8 : ~BufBit(buf, 9 * s + u) PROVE Shows(done, s, symbol)
    <3>1. ~BufBit(buf, 9 * s)
      <4>1. 9 * s + 0 = 9 * s /\ 0 \in 0..8 OBVIOUS
      <4> QED BY <2>5, <4>1, Zenon
    <3>2. ~(7 - j \in buf[i]) BY <3>1, <1>2 DEF BufBit
    <3>3. BufBit(done, 9 * s) <=> symbol.data
      <4>1. BufBit(done, 9 * s) <=> 7 - j \in done[i] BY <1>2, Zenon DEF BufBit
      <4>2. 7 - j \in flag <=> symbol.data BY <1>4 DEF flag
      <4> QED BY <4>1, <4>2, <3>2, <2>3
    <3>4. ASSUME NEW b \in 0..7 PROVE BufBit(done, 9 * s + 8 - b) <=> b \in symbol.byte
      <4>1. (9 * s + 8 - b) \div 8 = i + 1 /\ (9 * s + 8 - b) % 8 = 7 - b BY <1>1, <1>9
      <4>2. 7 - (7 - b) = b OBVIOUS
      <4> QED BY <4>1, <4>2, <2>3 DEF BufBit
    <3> QED BY <3>3, <3>4, Zenon DEF Shows
  <2> QED BY <2>3, <2>4, <2>5
<1>10. ASSUME j # 7 PROVE Wanted
  <2>1. n = j + 1 /\ n # 0 BY <1>10
  <2> DEFINE low == Shr(symbol.byte, n)
             high == Shl(symbol.byte, 8 - n, 8)
  <2>2. done = Or(Or(flagged, i, low), i + 1, high) BY <2>1
  <2>3. low \in Byte /\ high \in Byte BY <2>1, <1>4, <1>1 DEF Shl, Shr, Byte
  <2> HIDE DEF flagged, done, n, flag, low, high
  <2>4. done \in Buffer /\ done[i] = buf[i] \union flag \union low /\ done[i + 1] = buf[i + 1] \union high
        /\ \A q \in Cell : q # i /\ q # i + 1 => done[q] = buf[q]
    BY <2>2, <2>3, <1>3, <1>8 DEF Buffer, Or, Byte
  <2>5. \A v \in 0..7 : 7 - v \in low <=> 8 + j - v \in symbol.byte
    BY <2>1, <1>1, <1>4 DEF low, Shr
  <2>6. \A v \in 0..7 : 7 - v \in high <=> v <= j /\ j - v \in symbol.byte
    BY <2>1, <1>1, <1>10, <1>4 DEF high, Shl
  <2>7. \A v \in 0..7 : 7 - v \in flag <=> v = j /\ symbol.data BY <1>4, <1>1 DEF flag
  <2>8. \A c : c \in symbol.byte => c \in 0..7 BY <1>4
  <2>9. ASSUME NEW t \in Nat, t < 8 * TX_BUF_MAX_LEN, t < 9 * s \/ t >= 9 * s + 9
        PROVE  BufBit(done, t) <=> BufBit(buf, t)
    <3>1. PICK q \in Nat, v \in 0..7 : t = 8 * q + v
      <4>1. t = 8 * (t \div 8) + (t % 8) /\ t \div 8 \in Nat /\ t % 8 \in 0..7 OBVIOUS
      <4> QED BY <4>1
    <3>2. t \div 8 = q /\ t % 8 = v BY <3>1
    <3>3. q \in Cell /\ (q = i => v < j) /\ (q = i + 1 => v > j)
      BY <3>1, <2>9, <1>0, <1>1 DEF Cell
    <3>4. 7 - v \in done[q] <=> 7 - v \in buf[q]
      <4>1. CASE q = i
        <5>1. v # j /\ ~(8 + j - v \in 0..7) BY <3>3, <4>1, <3>1, <1>1
        <5>2. ~(7 - v \in flag) /\ ~(7 - v \in low) BY <5>1, <2>5, <2>7, <2>8, <3>1
        <5> QED BY <5>2, <4>1, <2>4
      <4>2. CASE q = i + 1
        <5>1. ~(v <= j) BY <3>3, <4>2, <3>1, <1>1
        <5>2. ~(7 - v \in high) BY <5>1, <2>6, <3>1
        <5> QED BY <5>2, <4>2, <2>4
      <4>3. CASE q # i /\ q # i + 1
        BY <4>3, <3>3, <2>4
      <4> QED BY <4>1, <4>2, <4>3
    <3> QED BY <3>2, <3>4, Zenon DEF BufBit
  <2>10. ASSUME \A u \in 0..8 : ~BufBit(buf, 9 * s + u) PROVE Shows(done, s, symbol)
    <3>1. ~BufBit(buf, 9 * s)
      <4>1. 9 * s + 0 = 9 * s /\ 0 \in 0..8 OBVIOUS
      <4> QED BY <2>10, <4>1, Zenon
    <3>2. ~(7 - j \in buf[i]) BY <3>1, <1>2 DEF BufBit
    <3>3. BufBit(done, 9 * s) <=> symbol.data
      <4>1. BufBit(done, 9 * s) <=> 7 - j \in done[i] BY <1>2, Zenon DEF BufBit
      <4>2. 7 - j \in flag <=> symbol.data BY <2>7, <1>1
      <4>3. ~(8 + j - j \in 0..7) BY <1>1
      <4>4. ~(7 - j \in low) BY <2>5, <2>8, <4>3, <1>1
      <4> QED BY <4>1, <4>2, <4>4, <3>2, <2>4
    <3>4. ASSUME NEW b \in 0..7 PROVE BufBit(done, 9 * s + 8 - b) <=> b \in symbol.byte
      <4>0. 8 - b \in 0..8 /\ 9 * s + (8 - b) = 9 * s + 8 - b OBVIOUS
      <4>1. ~BufBit(buf, 9 * s + 8 - b) BY <4>0, <2>10, Zenon
      <4>2. CASE b > j
        <5>1. PICK v \in 0..7 : v = j + 8 - b BY <4>2, <1>1
        <5>2. (9 * s + 8 - b) \div 8 = i /\ (9 * s + 8 - b) % 8 = v BY <1>1, <5>1, <4>2
        <5>3. ~(7 - v \in buf[i]) BY <5>2, <4>1, Zenon DEF BufBit
        <5>4. v # j /\ 8 + j - v = b BY <5>1, <1>1
        <5>5. 7 - v \in done[i] <=> b \in symbol.byte
          <6>1. ~(7 - v \in flag) BY <5>4, <2>7, <5>1
          <6>2. 7 - v \in low <=> b \in symbol.byte BY <5>4, <2>5, <5>1
          <6> QED BY <6>1, <6>2, <5>3, <2>4
        <5> QED BY <5>2, <5>5, Zenon DEF BufBit
      <4>3. CASE ~(b > j)
        <5>1. PICK v \in 0..7 : v = j - b BY <4>3, <1>1
        <5>2. (9 * s + 8 - b) \div 8 = i + 1 /\ (9 * s + 8 - b) % 8 = v BY <1>1, <5>1, <4>3
        <5>3. ~(7 - v \in buf[i + 1]) BY <5>2, <4>1, Zenon DEF BufBit
        <5>4. v <= j /\ j - v = b BY <5>1, <1>1
        <5>5. 7 - v \in done[i + 1] <=> b \in symbol.byte
          <6>1. 7 - v \in high <=> b \in symbol.byte BY <5>4, <2>6, <5>1
          <6> QED BY <6>1, <5>3, <2>4
        <5> QED BY <5>2, <5>5, Zenon DEF BufBit
      <4> QED BY <4>2, <4>3, <1>1
    <3> QED BY <3>3, <3>4, Zenon DEF Shows
  <2> QED BY <2>4, <2>9, <2>10
<1>11. Wanted BY <1>9, <1>10
<1> HIDE DEF done
<1>12. r.buf \in Buffer BY <1>6, <1>11
<1> QED BY <1>6, <1>11, <1>12 DEF r

\* The loop of Written, g being what it makes of the symbols before.
WriteNext(buf, symbols, g, n) ==
    IF n = 0 THEN [buf |-> buf, pos |-> 0] ELSE WriteLcm(g[n - 1], symbols[n])

WriteLoop(buf, symbols, m, g) == g = [n \in 0..m |-> WriteNext(buf, symbols, g, n)]

\* The loop ends: there is such a g for every number of symbols.
LEMMA WriteDefined ==
    ASSUME NEW buf, NEW symbols, NEW m \in Nat
    PROVE  \E g : WriteLoop(buf, symbols, m, g)
<1> DEFINE Open(a) == ~\E g : WriteLoop(buf, symbols, a, g)
           T == {a \in Nat : Open(a)}
<1>1. ASSUME T # {} PROVE FALSE
  <2>1. PICK a \in T : \A k \in T : a <= k
    <3>1. T \subseteq Nat OBVIOUS
    <3> HIDE DEF T
    <3> QED BY <3>1, <1>1, LeastNumber
  <2>2. a \in Nat /\ Open(a) BY <2>1
  <2>3. CASE a = 0
    <3> DEFINE g == [n \in 0..0 |-> [buf |-> buf, pos |-> 0]]
    <3>1. g = [n \in 0..0 |-> g[n]] OBVIOUS
    <3>2. \A n \in 0..0 : g[n] = [buf |-> buf, pos |-> 0] OBVIOUS
    <3> HIDE DEF g
    <3>3. \A n \in 0..0 : n = 0 OBVIOUS
    <3>4. \A n \in 0..0 : g[n] = WriteNext(buf, symbols, g, n) BY <3>2, <3>3, Zenon DEF WriteNext
    <3>5. WriteLoop(buf, symbols, 0, g) BY <3>1, <3>4, Zenon DEF WriteLoop
    <3> QED BY <3>5, <2>2, <2>3
  <2>4. CASE a # 0
    <3>1. a - 1 \in Nat /\ ~(a <= a - 1) BY <2>2, <2>4
    <3>2. ~(a - 1 \in T) BY <3>1, <2>1, Zenon
    <3>3. \E g : WriteLoop(buf, symbols, a - 1, g) BY <3>1, <3>2
    <3>4. PICK g : WriteLoop(buf, symbols, a - 1, g) BY <3>3
    <3> DEFINE last == WriteLcm(g[a - 1], symbols[a])
               h == [n \in 0..a |-> IF n = a THEN last ELSE g[n]]
    <3>5. \A n \in 0..(a - 1) : g[n] = WriteNext(buf, symbols, g, n) BY <3>4, Zenon DEF WriteLoop
    <3> HIDE DEF last
    <3>6. h = [n \in 0..a |-> h[n]] /\ \A n \in 0..a : h[n] = IF n = a THEN last ELSE g[n]
      OBVIOUS
    <3> HIDE DEF h
    <3>7. ASSUME NEW n \in 0..a PROVE h[n] = WriteNext(buf, symbols, h, n)
      <4>1. CASE n = a
        <5>1. n - 1 \in 0..a /\ n - 1 # a /\ n # 0 BY <4>1, <2>2, <2>4
        <5>2. h[n - 1] = g[n - 1] BY <5>1, <3>6, Zenon
        <5>3. h[n] = last BY <4>1, <3>6
        <5> QED BY <5>1, <5>2, <5>3, <4>1, Zenon DEF WriteNext, last
      <4>2. CASE n # a
        <5>1. n \in 0..(a - 1) BY <4>2, <2>2
        <5>2. h[n] = g[n] BY <4>2, <3>6
        <5>3. n # 0 => n - 1 \in 0..a /\ n - 1 # a BY <5>1, <2>2
        <5>4. n # 0 => h[n - 1] = g[n - 1] BY <5>3, <3>6, Zenon
        <5>5. WriteNext(buf, symbols, h, n) = WriteNext(buf, symbols, g, n) BY <5>4, Zenon DEF WriteNext
        <5> QED BY <5>1, <5>2, <5>5, <3>5
      <4> QED BY <4>1, <4>2
    <3>8. WriteLoop(buf, symbols, a, h) BY <3>6, <3>7, Zenon DEF WriteLoop
    <3> QED BY <3>8, <2>2
  <2> QED BY <2>3, <2>4
<1>2. ~(m \in T) BY <1>1
<1> QED BY <1>2

\* Written is where the loop leads.
LEMMA WrittenIs ==
    ASSUME NEW buf, NEW symbols, Len(symbols) \in Nat
    PROVE  \E g : WriteLoop(buf, symbols, Len(symbols), g) /\ Written(buf, symbols) = g[Len(symbols)]
<1> DEFINE F(g) == [n \in 0..Len(symbols) |-> WriteNext(buf, symbols, g, n)]
           f == CHOOSE g : g = F(g)
<1>1. Written(buf, symbols) = f[Len(symbols)] BY Zenon DEF Written, WriteNext
<1>2. PICK g : WriteLoop(buf, symbols, Len(symbols), g) BY WriteDefined
<1>3. g = F(g) BY <1>2, Zenon DEF WriteLoop
<1>4. f = F(f)
  <2> HIDE DEF F
  <2> QED BY <1>3
<1>5. WriteLoop(buf, symbols, Len(symbols), f)
  <2> HIDE DEF f
  <2> QED BY <1>4, Zenon DEF WriteLoop
<1> HIDE DEF f
<1> QED BY <1>1, <1>5

\* After n symbols: the bits of the first n are written, those of the rest are zero.
Writing(symbols, acc, n) ==
    /\ acc.buf \in Buffer /\ acc.pos = 9 * n /\ acc = [buf |-> acc.buf, pos |-> acc.pos]
    /\ \A s \in 0..(n - 1) : Shows(acc.buf, s, symbols[s + 1])
    /\ \A t \in Nat : 9 * n <= t /\ t < 9 * Len(symbols) => ~BufBit(acc.buf, t)

\* One more symbol keeps that.
LEMMA WritingNext ==
    ASSUME NEW symbols \in Seq(AnySymbol), 9 * Len(symbols) <= 8 * TX_BUF_MAX_LEN,
           NEW n \in Nat, n < Len(symbols), NEW acc, Writing(symbols, acc, n)
    PROVE  Writing(symbols, WriteLcm(acc, symbols[n + 1]), n + 1)
<1> DEFINE buf == acc.buf
           symbol == symbols[n + 1]
           r == WriteLcm(acc, symbol)
<1>0. Len(symbols) \in Nat /\ TX_BUF_MAX_LEN \in Nat BY SpiAssumption
<1>1. n + 1 \in 1..Len(symbols) BY <1>0
<1>2. symbol \in AnySymbol BY <1>1, ElementOfSeq, Zenon
<1>3. buf \in Buffer /\ acc = [buf |-> buf, pos |-> 9 * n] BY DEF Writing
<1>4. 9 * n + 8 < 8 * TX_BUF_MAX_LEN BY <1>0, <1>1
<1> HIDE DEF buf, symbol
<1>5. /\ r.pos = 9 * (n + 1) /\ r.buf \in Buffer /\ r = [buf |-> r.buf, pos |-> r.pos]
      /\ \A t \in Nat : t < 8 * TX_BUF_MAX_LEN /\ (t < 9 * n \/ t >= 9 * n + 9)
             => (BufBit(r.buf, t) <=> BufBit(buf, t))
      /\ (\A u \in 0..8 : ~BufBit(buf, 9 * n + u)) => Shows(r.buf, n, symbol)
  <2> DEFINE q == WriteLcm([buf |-> buf, pos |-> 9 * n], symbol)
  <2>1. /\ q.pos = 9 * (n + 1) /\ q.buf \in Buffer /\ q = [buf |-> q.buf, pos |-> q.pos]
        /\ \A t \in Nat : t < 8 * TX_BUF_MAX_LEN /\ (t < 9 * n \/ t >= 9 * n + 9)
               => (BufBit(q.buf, t) <=> BufBit(buf, t))
        /\ (\A u \in 0..8 : ~BufBit(buf, 9 * n + u)) => Shows(q.buf, n, symbol)
    BY <1>2, <1>3, <1>4, LcmWrites, Zenon
  <2>2. r = q BY <1>3, Zenon
  <2> HIDE DEF r, q
  <2> QED BY <2>1, <2>2, Zenon
<1> HIDE DEF r
<1>6. \A t \in Nat : 9 * n <= t /\ t < 9 * Len(symbols) => ~BufBit(buf, t) BY DEF Writing, buf
<1>7. Shows(r.buf, n, symbol)
  <2> SUFFICES ASSUME NEW u \in 0..8 PROVE ~BufBit(buf, 9 * n + u)
    BY <1>5, Zenon
  <2>1. 9 * n + u \in Nat /\ 9 * n <= 9 * n + u /\ 9 * n + u < 9 * Len(symbols) BY <1>0, <1>1
  <2> QED BY <2>1, <1>6, Zenon
<1>8. ASSUME NEW s \in 0..n PROVE Shows(r.buf, s, symbols[s + 1])
  <2>1. CASE s = n BY <2>1, <1>7 DEF symbol
  <2>2. CASE s # n
    <3>1. s \in 0..(n - 1) BY <2>2
    <3>2. Shows(buf, s, symbols[s + 1]) BY <3>1 DEF Writing, buf
    <3>3. ASSUME NEW u \in 0..8 PROVE BufBit(r.buf, 9 * s + u) <=> BufBit(buf, 9 * s + u)
      <4>1. 9 * s + u \in Nat /\ 9 * s + u < 8 * TX_BUF_MAX_LEN /\ 9 * s + u < 9 * n
        BY <3>1, <1>0, <1>4
      <4> QED BY <4>1, <1>5, Zenon
    <3>4. 9 * s + 0 = 9 * s /\ 0 \in 0..8 OBVIOUS
    <3>5. BufBit(r.buf, 9 * s) <=> BufBit(buf, 9 * s) BY <3>3, <3>4, Zenon
    <3>6. ASSUME NEW b \in 0..7 PROVE BufBit(r.buf, 9 * s + 8 - b) <=> BufBit(buf, 9 * s + 8 - b)
      <4>1. 9 * s + (8 - b) = 9 * s + 8 - b /\ 8 - b \in 0..8 OBVIOUS
      <4> QED BY <3>3, <4>1, Zenon
    <3> QED BY <3>2, <3>5, <3>6, Zenon DEF Shows
  <2> QED BY <2>1, <2>2
<1>9. ASSUME NEW t \in Nat, 9 * (n + 1) <= t, t < 9 * Len(symbols) PROVE ~BufBit(r.buf, t)
  <2>1. t < 8 * TX_BUF_MAX_LEN /\ t >= 9 * n + 9 /\ 9 * n <= t BY <1>0, <1>9
  <2>2. BufBit(r.buf, t) <=> BufBit(buf, t) BY <2>1, <1>5, Zenon
  <2> QED BY <2>1, <2>2, <1>6, <1>9, Zenon
<1>10. (n + 1) - 1 = n OBVIOUS
<1>11. Writing(symbols, r, n + 1) BY <1>5, <1>8, <1>9, <1>10 DEF Writing
<1> QED BY <1>11 DEF r, symbol

\* All symbols are written into a buffer of zeros.
LEMMA AllWritten ==
    ASSUME NEW symbols \in Seq(AnySymbol), 9 * Len(symbols) <= 8 * TX_BUF_MAX_LEN,
           NEW buf \in Buffer, \A t \in Nat : t < 9 * Len(symbols) => ~BufBit(buf, t)
    PROVE  Writing(symbols, Written(buf, symbols), Len(symbols))
<1> DEFINE m == Len(symbols)
<1>0. m \in Nat OBVIOUS
<1>1. PICK g : WriteLoop(buf, symbols, m, g) /\ Written(buf, symbols) = g[m] BY <1>0, WrittenIs
<1>2. \A n \in 0..m : g[n] = WriteNext(buf, symbols, g, n) BY <1>1, Zenon DEF WriteLoop
<1>3. ASSUME \E n \in 0..m : ~Writing(symbols, g[n], n) PROVE FALSE
  <2> DEFINE T == {n \in 0..m : ~Writing(symbols, g[n], n)}
  <2>1. T \subseteq Nat /\ T # {} BY <1>3
  <2>2. PICK n \in T : \A k \in T : n <= k
    <3> HIDE DEF T
    <3> QED BY <2>1, LeastNumber
  <2>3. n \in 0..m /\ ~Writing(symbols, g[n], n) BY <2>2
  <2>4. CASE n = 0
    <3>1. g[n] = [buf |-> buf, pos |-> 0] BY <2>4, <2>3, <1>2 DEF WriteNext
    <3>2. g[n].buf = buf /\ g[n].pos = 9 * n /\ g[n] = [buf |-> g[n].buf, pos |-> g[n].pos]
      BY <3>1, <2>4
    <3>3. \A s \in 0..(n - 1) : FALSE BY <2>4
    <3>4. \A t \in Nat : 9 * n <= t /\ t < 9 * Len(symbols) => ~BufBit(buf, t) OBVIOUS
    <3>5. Writing(symbols, g[n], n) BY <3>2, <3>3, <3>4, Zenon DEF Writing
    <3> QED BY <3>5, <2>3
  <2>5. CASE n # 0
    <3> DEFINE p == n - 1
    <3>1. p \in Nat /\ p \in 0..m /\ p < m /\ ~(n <= p) /\ p + 1 = n BY <2>3, <2>5
    <3>2. ~(p \in T)
      <4> HIDE DEF T, p
      <4> QED BY <3>1, <2>2
    <3>3. Writing(symbols, g[p], p)
      <4> HIDE DEF p
      <4> QED BY <3>1, <3>2
    <3>4. g[n] = WriteLcm(g[p], symbols[n]) BY <2>3, <2>5, <1>2, Zenon DEF WriteNext
    <3> HIDE DEF p
    <3>5. Writing(symbols, WriteLcm(g[p], symbols[p + 1]), p + 1) BY <3>1, <3>3, WritingNext
    <3> QED BY <3>1, <3>4, <3>5, <2>3
  <2> QED BY <2>4, <2>5
<1>4. m \in 0..m BY <1>0
<1> QED BY <1>1, <1>3, <1>4

\* What display_data writes: the frame and a NOP.
Symbols(len) == Append(Stream(len), Nop)

\* Its length, and where the frame is in it.
LEMMA SymbolsOf ==
    ASSUME Drawn, NEW len \in 0..MaxLen
    PROVE  /\ Symbols(len) \in Seq(AnySymbol) /\ Len(Symbols(len)) = 12 + 4 * len
           /\ \A k \in 1..(11 + 4 * len) : Symbols(len)[k] = Frame(len)[k]
           /\ Symbols(len)[12 + 4 * len] = Nop
<1> DEFINE w == Frame(len)
           l == 11 + 4 * len
           a == Append(w, Nop)
<1>0. len \in Nat /\ l \in Nat BY SpiAssumption
<1>1. Symbols(len) = a BY StreamIsFrame DEF Symbols
<1>2. w \in [1..l -> AnySymbol] BY FrameTypes
<1> HIDE DEF w, l
<1>3. w \in Seq(AnySymbol) /\ Len(w) = l BY <1>0, <1>2
<1>4. Nop \in AnySymbol BY DEF Nop, Command, AnySymbol, Byte
<1> HIDE DEF a
<1>5. /\ a \in Seq(AnySymbol) /\ Len(a) = Len(w) + 1
      /\ \A k \in 1..Len(w) : a[k] = w[k]
      /\ a[Len(w) + 1] = Nop
  BY <1>3, <1>4, AppendProperties DEF a
<1>6. l + 1 = 12 + 4 * len BY <1>0 DEF l
<1> QED BY <1>1, <1>3, <1>5, <1>6 DEF w, l

BitWise ==
    call.by = "display_data" =>
        /\ spi_send_len = SendLen(12 + 4 * call.len) /\ spi_send_len <= TX_BUF_MAX_LEN
        /\ call.end = spi_send_len
        /\ \A s \in 0..(11 + 4 * call.len) : Shows(p_spi_send_buf, s, Symbols(call.len)[s + 1])

\* display_data sends the frame.
LEMMA Sent1 ==
    ASSUME PackTypes, BitWise
    PROVE  SlowSendsFrame
<1> SUFFICES ASSUME call.by = "display_data" PROVE Received = Stream(call.len) /\ WritesAreSent
  BY DEF SlowSendsFrame
<1>1. PICK len \in 0..MaxLen : len = call.len BY DEF PackTypes
<1>2. len \in Nat BY SpiAssumption
<1> DEFINE w == Frame(len)
           l == 11 + 4 * len
           m == 12 + 4 * len
           a == Symbols(len)
<1>3. Drawn BY DEF PackTypes
<1>4. w \in [1..l -> AnySymbol] /\ \A k \in 1..l : w[k] # Nop BY <1>3, FrameTypes
<1>5. /\ a \in Seq(AnySymbol) /\ Len(a) = m
      /\ \A k \in 1..l : a[k] = w[k]
      /\ a[m] = Nop
  BY <1>3, SymbolsOf
<1>6. /\ spi_send_len = SendLen(m) /\ spi_send_len <= TX_BUF_MAX_LEN /\ call.end = spi_send_len
      /\ \A s \in 0..l : Shows(p_spi_send_buf, s, a[s + 1])
  BY <1>1 DEF BitWise
<1>7. m = (8 * spi_send_len) \div 9 /\ spi_send_len \in Nat /\ m \in Nat
  <2>1. m \in Nat BY <1>2
  <2> HIDE DEF m
  <2> QED BY <2>1, <1>6, SentSymbols
<1> HIDE DEF w, a
<1>8. ASSUME NEW s \in 0..l PROVE Symbol(s) = a[s + 1]
  <2>1. s + 1 \in 1..Len(a) /\ s \in Nat BY <1>5, <1>2
  <2>2. a[s + 1] \in AnySymbol BY <2>1, <1>5, ElementOfSeq, Zenon
  <2>3. Shows(p_spi_send_buf, s, a[s + 1]) BY <1>6
  <2> QED BY <2>1, <2>2, <2>3, ShownSymbol
<1> DEFINE first == 0
           gap == 0
<1>9. Carried(first, m, l, l, gap, w)
  <2>1. /\ first \in Nat /\ m \in Nat /\ l \in Nat /\ l \in 0..l /\ gap \in Nat
        /\ first + gap + l <= m
    BY <1>2
  <2>2. \A k \in 1..l : Symbol(first + k - 1) = w[k]
    <3> SUFFICES ASSUME NEW k \in 1..l PROVE Symbol(first + k - 1) = w[k]
      OBVIOUS
    <3>1. k - 1 \in 0..l /\ first + k - 1 = k - 1 /\ (k - 1) + 1 = k BY <1>2
    <3>2. Symbol(k - 1) = a[(k - 1) + 1] BY <3>1, <1>8
    <3> HIDE DEF first, l
    <3> QED BY <3>1, <3>2, <1>5
  <2>3. /\ \A s \in (first + l)..(first + l + gap - 1) : Symbol(s) = Nop
        /\ \A k \in (l + 1)..l : Symbol(first + gap + k - 1) = w[k]
    BY <1>2
  <2>4. \A s \in (first + gap + l)..(m - 1) : Symbol(s) = Nop
    <3> SUFFICES ASSUME NEW s \in (first + gap + l)..(m - 1) PROVE Symbol(s) = Nop
      OBVIOUS
    <3>1. s \in 0..l /\ s + 1 = m BY <1>2
    <3>2. Symbol(s) = a[s + 1] BY <3>1, <1>8
    <3> HIDE DEF m
    <3> QED BY <3>1, <3>2, <1>5
  <2> HIDE DEF first, m, l, gap
  <2> QED BY <2>1, <2>2, <2>3, <2>4, <1>4, <1>7, Zenon DEF Carried
<1>10. ReceivedFrom(first) = w
  <2> HIDE DEF first, m, l, gap
  <2> QED BY <1>9, ReceivedIs, Zenon
<1>11. Stream(len) = w BY <1>3, StreamIsFrame DEF w
<1>12. WritesAreSent BY <1>6, <1>7 DEF WritesAreSent
<1> QED BY <1>1, <1>10, <1>11, <1>12 DEF Received

-----------------------------------------------------------------------------
(* The invariant.                                                          *)

PackInv ==
    /\ TypeOK
    /\ BitWise
    /\ WordWise("display_data2", Bytes2(call.len))
    /\ WordWise("display_data3", Bytes3(call.len))

\* What the lemmas above ask of the types.
LEMMA TypesSuffice ==
    ASSUME TypeOK
    PROVE  PackTypes /\ Drawn /\ p_spi_send_buf \in Buffer
BY DEF TypeOK, PackTypes, Drawn, Buffer

\* A packer leaves what it packs alone.
LEMMA SameFrame ==
    ASSUME UNCHANGED <<data_buf, x, y>>, NEW len, call.len' = len
    PROVE  /\ Symbols(call.len)' = Symbols(len)
           /\ Bytes2(call.len)' = Bytes2(len) /\ Bytes3(call.len)' = Bytes3(len)
<1>1. Coordinate(x)' = Coordinate(x) /\ Coordinate(y)' = Coordinate(y) BY DEF Coordinate
<1>2. \A k : Pixels(k)' = Pixels(k) BY DEF Pixels
<1>3. \A g : Eight(g)' = Eight(g) BY DEF Eight
<1>4. fill_header_withnop' = fill_header_withnop BY DEF fill_header_withnop
<1>5. fill_header_withnop1' = fill_header_withnop1 BY DEF fill_header_withnop1
<1>6. Symbols(call.len)' = Symbols(len) BY <1>1, <1>2 DEF Symbols, Stream
<1>7. Bytes2(call.len)' = Bytes2(len) BY <1>3, <1>4 DEF Bytes2
<1>8. Bytes3(call.len)' = Bytes3(len) BY <1>3, <1>5 DEF Bytes3
<1> QED BY <1>6, <1>7, <1>8

\* A word-wise packer writes its bytes, or nothing.
LEMMA WordsPacked ==
    ASSUME TypeOK, NEW packer \in Packer \ {"none"}, NEW bytes \in Seq(Byte),
           NEW len \in 0..MaxLen, PackWords(packer, bytes, len)
    PROVE  /\ UNCHANGED <<data_buf, x, y, pokes>>
           /\ p_spi_send_buf' \in [Cell -> Byte] /\ spi_send_len' \in Nat
           /\ call' \in [by : Packer, len : 0..MaxLen, end : Nat] /\ call'.len = len
           /\ call'.by \in {"none", packer}
           /\ call'.by = packer =>
                /\ spi_send_len' = SendLen(24 + 4 * len) /\ spi_send_len' <= TX_BUF_MAX_LEN
                /\ call'.end = Len(bytes)
                /\ \A k \in 0..(spi_send_len' - 1) :
                       p_spi_send_buf'[k] = IF k < Len(bytes) THEN bytes[k + 1] ELSE {}
<1> DEFINE size == SendLen(16 + 4 * len + 8)
<1>1. size = SendLen(24 + 4 * len) /\ size \in Nat
  <2>1. 16 + 4 * len + 8 = 24 + 4 * len /\ 24 + 4 * len \in Nat BY SpiAssumption
  <2> QED BY <2>1, SentSymbols
<1> HIDE DEF size
<1>2. /\ spi_send_len' = size /\ UNCHANGED <<data_buf, x, y, pokes>>
      /\ IF size > TX_BUF_MAX_LEN
         THEN call' = [by |-> "none", len |-> len, end |-> 0] /\ UNCHANGED p_spi_send_buf
         ELSE /\ p_spi_send_buf' = [k \in Cell |-> IF k < Len(bytes) THEN bytes[k + 1] ELSE Cleared(size)[k]]
              /\ call' = [by |-> packer, len |-> len, end |-> Len(bytes)]
  BY DEF PackWords, size
<1>3. TX_BUF_MAX_LEN \in Nat /\ Len(bytes) \in Nat BY SpiAssumption
<1>4. CASE size > TX_BUF_MAX_LEN
  <2>1. call' = [by |-> "none", len |-> len, end |-> 0] /\ UNCHANGED p_spi_send_buf BY <1>2, <1>4
  <2>2. call'.by = "none" /\ call'.by # packer BY <2>1 DEF Packer
  <2>3. call' \in [by : Packer, len : 0..MaxLen, end : Nat] BY <2>1 DEF Packer
  <2>4. call'.len = len BY <2>1
  <2> QED BY <1>1, <1>2, <2>1, <2>2, <2>3, <2>4 DEF TypeOK
<1>5. CASE ~(size > TX_BUF_MAX_LEN)
  <2> DEFINE cell(k) == IF k < Len(bytes) THEN bytes[k + 1] ELSE Cleared(size)[k]
  <2>1. p_spi_send_buf' = [k \in Cell |-> cell(k)]
        /\ call' = [by |-> packer, len |-> len, end |-> Len(bytes)]
    BY <1>2, <1>5
  <2>2. call' \in [by : Packer, len : 0..MaxLen, end : Nat] BY <2>1, <1>3
  <2>3. call'.len = len /\ call'.by = packer /\ call'.end = Len(bytes) BY <2>1
  <2>4. \A k \in Cell : Cleared(size)[k] = IF k < size THEN {} ELSE p_spi_send_buf[k] BY DEF Cleared
  <2>5. ASSUME NEW k \in Cell PROVE cell(k) \in Byte
    <3>1. k \in Nat BY <1>3 DEF Cell
    <3>2. CASE k < Len(bytes)
      <4>1. k + 1 \in 1..Len(bytes) BY <3>1, <3>2, <1>3
      <4>2. bytes[k + 1] \in Byte BY <4>1, ElementOfSeq, Zenon
      <4> QED BY <4>2, <3>2
    <3>3. CASE ~(k < Len(bytes))
      <4>1. {} \in Byte /\ p_spi_send_buf[k] \in Byte BY DEF TypeOK, Byte
      <4> QED BY <4>1, <3>3, <2>4
    <3> QED BY <3>2, <3>3
  <2>6. p_spi_send_buf' \in [Cell -> Byte]
    <3> HIDE DEF cell
    <3> QED BY <2>1, <2>5, Zenon
  <2>7. ASSUME NEW k \in 0..(size - 1)
        PROVE  p_spi_send_buf'[k] = IF k < Len(bytes) THEN bytes[k + 1] ELSE {}
    <3>1. k \in Cell /\ k < size BY <1>1, <1>3, <1>5 DEF Cell
    <3>2. p_spi_send_buf'[k] = cell(k) BY <3>1, <2>1, Zenon
    <3>3. Cleared(size)[k] = {} BY <3>1, <2>4
    <3> QED BY <3>2, <3>3
  <2>8. size <= TX_BUF_MAX_LEN BY <1>1, <1>3, <1>5
  <2> QED BY <1>1, <1>2, <2>2, <2>3, <2>6, <2>7, <2>8
<1> QED BY <1>4, <1>5

\* display_data2 keeps the invariant.
LEMMA Data2Keeps ==
    ASSUME TypeOK, NEW len \in 0..MaxLen, display_data2(len), calls' \in 0..MaxCall
    PROVE  PackInv'
<1> DEFINE groups == [g \in 0..(len \div 2 - 1) |-> Group2(Eight(g))]
<1>1. Drawn /\ len \in Nat BY TypesSuffice, SpiAssumption
<1>2. PackWords("display_data2", Bytes2(len), len) BY DEF display_data2, Bytes2
<1>3. Bytes2(len) \in Seq(Byte)
  <2>1. fill_header_withnop \in Seq(Byte) /\ Len(fill_header_withnop) = 18
    BY <1>1, OtherHeader DEF Drawn
  <2>2. ASSUME NEW g \in 0..(len \div 2 - 1) PROVE groups[g] \in Seq(Byte) /\ Len(groups[g]) = 9
    <3>1. groups[g] = Group2(Eight(g)) BY Zenon
    <3>2. Eight(g) \in [0..7 -> Byte] BY <1>1, EightPixels
    <3> QED BY <3>1, <3>2, Group2Codes
  <2> HIDE DEF groups
  <2>3. Packed(fill_header_withnop, groups, len) \in Seq(Byte) BY <1>1, <2>1, <2>2, PackedCodes
  <2> QED BY <2>3 DEF Bytes2, groups
<1>4. PICK bytes \in Seq(Byte) : bytes = Bytes2(len) BY <1>3
<1>5. PackWords("display_data2", bytes, len) BY <1>2, <1>4
<1>6. "display_data2" \in Packer \ {"none"} BY DEF Packer
<1>7. /\ UNCHANGED <<data_buf, x, y, pokes>>
      /\ p_spi_send_buf' \in [Cell -> Byte] /\ spi_send_len' \in Nat
      /\ call' \in [by : Packer, len : 0..MaxLen, end : Nat] /\ call'.len = len
      /\ call'.by \in {"none", "display_data2"}
      /\ call'.by = "display_data2" =>
           /\ spi_send_len' = SendLen(24 + 4 * len) /\ spi_send_len' <= TX_BUF_MAX_LEN
           /\ call'.end = Len(bytes)
           /\ \A k \in 0..(spi_send_len' - 1) :
                  p_spi_send_buf'[k] = IF k < Len(bytes) THEN bytes[k + 1] ELSE {}
  BY <1>5, <1>6, WordsPacked
<1>8. TypeOK' BY <1>7 DEF TypeOK
<1>9. Bytes2(call.len)' = bytes BY <1>4, <1>7, SameFrame
<1>10. WordWise("display_data2", Bytes2(call.len))' BY <1>7, <1>9 DEF WordWise, Holds
<1>11. WordWise("display_data3", Bytes3(call.len))' /\ BitWise' BY <1>7 DEF WordWise, BitWise
<1> QED BY <1>8, <1>10, <1>11 DEF PackInv

\* So does display_data3.
LEMMA Data3Keeps ==
    ASSUME TypeOK, NEW len \in 0..MaxLen, display_data3(len), calls' \in 0..MaxCall
    PROVE  PackInv'
<1> DEFINE groups == [g \in 0..(len \div 2 - 1) |-> Group(Eight(g))]
<1>1. Drawn /\ len \in Nat BY TypesSuffice, SpiAssumption
<1>2. PackWords("display_data3", Bytes3(len), len) BY DEF display_data3, Bytes3
<1>3. Bytes3(len) \in Seq(Byte)
  <2>1. fill_header_withnop1 \in Seq(Byte) /\ Len(fill_header_withnop1) = 18
    BY <1>1, HeaderCodes DEF Drawn
  <2>2. ASSUME NEW g \in 0..(len \div 2 - 1) PROVE groups[g] \in Seq(Byte) /\ Len(groups[g]) = 9
    <3>1. groups[g] = Group(Eight(g)) BY Zenon
    <3>2. Eight(g) \in [0..7 -> Byte] BY <1>1, EightPixels
    <3> QED BY <3>1, <3>2, GroupCodes
  <2> HIDE DEF groups
  <2>3. Packed(fill_header_withnop1, groups, len) \in Seq(Byte) BY <1>1, <2>1, <2>2, PackedCodes
  <2> QED BY <2>3 DEF Bytes3, groups
<1>4. PICK bytes \in Seq(Byte) : bytes = Bytes3(len) BY <1>3
<1>5. PackWords("display_data3", bytes, len) BY <1>2, <1>4
<1>6. "display_data3" \in Packer \ {"none"} BY DEF Packer
<1>7. /\ UNCHANGED <<data_buf, x, y, pokes>>
      /\ p_spi_send_buf' \in [Cell -> Byte] /\ spi_send_len' \in Nat
      /\ call' \in [by : Packer, len : 0..MaxLen, end : Nat] /\ call'.len = len
      /\ call'.by \in {"none", "display_data3"}
      /\ call'.by = "display_data3" =>
           /\ spi_send_len' = SendLen(24 + 4 * len) /\ spi_send_len' <= TX_BUF_MAX_LEN
           /\ call'.end = Len(bytes)
           /\ \A k \in 0..(spi_send_len' - 1) :
                  p_spi_send_buf'[k] = IF k < Len(bytes) THEN bytes[k + 1] ELSE {}
  BY <1>5, <1>6, WordsPacked
<1>8. TypeOK' BY <1>7 DEF TypeOK
<1>9. Bytes3(call.len)' = bytes BY <1>4, <1>7, SameFrame
<1>10. WordWise("display_data3", Bytes3(call.len))' BY <1>7, <1>9 DEF WordWise, Holds
<1>11. WordWise("display_data2", Bytes2(call.len))' /\ BitWise' BY <1>7 DEF WordWise, BitWise
<1> QED BY <1>8, <1>10, <1>11 DEF PackInv

\* And so does display_data: every symbol is written where zeros were.
LEMMA DataKeeps ==
    ASSUME TypeOK, NEW len \in 0..MaxLen, display_data(len), calls' \in 0..MaxCall
    PROVE  PackInv'
<1> DEFINE m == 12 + 4 * len
           size == SendLen(m)
           clear == Cleared(size)
           done == Written(clear, Symbols(len))
<1>1. Drawn /\ len \in Nat /\ m \in Nat /\ TX_BUF_MAX_LEN \in Nat BY TypesSuffice, SpiAssumption
<1>2. size \in Nat /\ 9 * m <= 8 * size /\ 8 * size <= 9 * m + 7
  <2> HIDE DEF m
  <2> QED BY <1>1, SentSymbols
<1>3. Symbols(len) \in Seq(AnySymbol) /\ Len(Symbols(len)) = m BY <1>1, SymbolsOf
<1>4. /\ spi_send_len' = size /\ UNCHANGED <<data_buf, x, y, pokes>>
      /\ IF size > TX_BUF_MAX_LEN
         THEN call' = [by |-> "none", len |-> len, end |-> 0] /\ UNCHANGED p_spi_send_buf
         ELSE /\ p_spi_send_buf' = done.buf
              /\ call' = [by |-> "display_data", len |-> len, end |-> (done.pos + 7) \div 8]
  BY DEF display_data, Symbols
<1> HIDE DEF m, size, clear, done
<1>5. CASE size > TX_BUF_MAX_LEN
  <2>1. call' = [by |-> "none", len |-> len, end |-> 0] /\ UNCHANGED p_spi_send_buf BY <1>4, <1>5
  <2>2. call'.by = "none" /\ call' \in [by : Packer, len : 0..MaxLen, end : Nat]
    BY <2>1 DEF Packer
  <2>3. TypeOK' BY <1>2, <1>4, <2>1, <2>2 DEF TypeOK
  <2> QED BY <2>2, <2>3 DEF PackInv, BitWise, WordWise
<1>6. CASE ~(size > TX_BUF_MAX_LEN)
  <2>1. p_spi_send_buf' = done.buf
        /\ call' = [by |-> "display_data", len |-> len, end |-> (done.pos + 7) \div 8]
    BY <1>4, <1>6
  <2>2. clear \in Buffer
    <3>1. \A k \in Cell : p_spi_send_buf[k] \in Byte /\ {} \in Byte BY DEF TypeOK, Byte
    <3> QED BY <3>1 DEF clear, Cleared, Buffer
  <2>3. ASSUME NEW t \in Nat, t < 9 * m PROVE ~BufBit(clear, t)
    <3>1. t \div 8 \in Cell /\ t \div 8 < size BY <2>3, <1>1, <1>2, <1>6 DEF Cell
    <3>2. clear[t \div 8] = {}
      <4>1. \A k \in Cell : clear[k] = IF k < size THEN {} ELSE p_spi_send_buf[k]
        BY DEF clear, Cleared
      <4> QED BY <3>1, <4>1
    <3> QED BY <3>2 DEF BufBit
  <2>4. Writing(Symbols(len), done, m)
    <3>1. 9 * Len(Symbols(len)) <= 8 * TX_BUF_MAX_LEN BY <1>1, <1>2, <1>3, <1>6
    <3>2. \A t \in Nat : t < 9 * Len(Symbols(len)) => ~BufBit(clear, t) BY <2>3, <1>3
    <3>3. Writing(Symbols(len), Written(clear, Symbols(len)), Len(Symbols(len)))
      BY <1>3, <2>2, <3>1, <3>2, AllWritten
    <3> QED BY <3>3, <1>3 DEF done
  <2>5. /\ done.buf \in Buffer /\ done.pos = 9 * m
        /\ \A s \in 0..(m - 1) : Shows(done.buf, s, Symbols(len)[s + 1])
    BY <2>4, Zenon DEF Writing
  <2>6. (done.pos + 7) \div 8 = size
    <3>1. done.pos + 7 = m * 9 + 7 BY <2>5, <1>1
    <3> QED BY <3>1 DEF size, SendLen
  <2>7. /\ call' \in [by : Packer, len : 0..MaxLen, end : Nat]
        /\ call'.by = "display_data" /\ call'.len = len /\ call'.end = size
    BY <2>1, <2>6, <1>2 DEF Packer
  <2>8. p_spi_send_buf' \in [Cell -> Byte] BY <2>1, <2>5 DEF Buffer
  <2>9. TypeOK' BY <1>2, <1>4, <2>7, <2>8 DEF TypeOK
  <2>10. Symbols(call.len)' = Symbols(len) BY <1>4, <2>7, SameFrame
  <2>11. BitWise'
    <3>1. /\ spi_send_len' = SendLen(12 + 4 * call'.len) /\ spi_send_len' <= TX_BUF_MAX_LEN
          /\ call'.end = spi_send_len'
      BY <1>1, <1>2, <1>4, <1>6, <2>7 DEF size, m
    <3>2. ASSUME NEW s \in 0..(11 + 4 * call'.len)
          PROVE  Shows(p_spi_send_buf', s, Symbols(call.len)'[s + 1])
      <4>1. s \in 0..(m - 1) BY <1>1, <2>7 DEF m
      <4>2. Shows(done.buf, s, Symbols(len)[s + 1]) BY <4>1, <2>5
      <4> QED BY <4>2, <2>1, <2>10
    <3> QED BY <3>1, <3>2 DEF BitWise, Shows, BufBit
  <2> QED BY <2>7, <2>9, <2>11 DEF PackInv, WordWise
<1> QED BY <1>5, <1>6

\* A caller that draws has packed nothing of what it has now.
LEMMA PokeKeeps ==
    ASSUME TypeOK, NEW b \in Pattern, Poke(b)
    PROVE  PackInv'
<1>1. b \in Byte BY SpiAssumption
<1>2. /\ data_buf' \in [0..(4 * MaxLen - 1) -> Byte]
      /\ x' \in [0..3 -> Byte] /\ y' \in [0..3 -> Byte]
  BY <1>1 DEF Poke, TypeOK
<1>3. call' \in [by : Packer, len : 0..MaxLen, end : Nat] /\ call'.by = "none"
  BY DEF Poke, TypeOK, Packer
<1>4. pokes' \in 0..MaxPoke /\ UNCHANGED <<p_spi_send_buf, spi_send_len, calls>>
  BY SpiAssumption DEF Poke, TypeOK
<1>5. TypeOK' BY <1>2, <1>3, <1>4 DEF TypeOK
<1> QED BY <1>3, <1>5 DEF PackInv, BitWise, WordWise

\* The buffer from malloc, nothing packed.
LEMMA InitPack ==
    ASSUME Init
    PROVE  PackInv
<1>1. {} \in Byte /\ 0..7 \in Byte BY DEF Byte
<1>2. data_buf \in [0..(4 * MaxLen - 1) -> Byte] /\ x \in [0..3 -> Byte] /\ y \in [0..3 -> Byte]
  BY <1>1 DEF Init
<1>3. p_spi_send_buf \in [Cell -> Byte]
  <2>1. PICK b \in {{}, 0..7} : p_spi_send_buf = [k \in Cell |-> b] BY DEF Init
  <2>2. b \in Byte BY <1>1
  <2> QED BY <2>1, <2>2
<1>4. call \in [by : Packer, len : 0..MaxLen, end : Nat] /\ call.by = "none"
  BY SpiAssumption DEF Init, Packer
<1>5. spi_send_len \in Nat /\ pokes \in 0..MaxPoke /\ calls \in 0..MaxCall
  BY SpiAssumption DEF Init
<1>6. TypeOK BY <1>2, <1>3, <1>4, <1>5 DEF TypeOK
<1> QED BY <1>4, <1>6 DEF PackInv, BitWise, WordWise

\* Every step keeps the invariant.
LEMMA StepPack ==
    ASSUME PackInv, [Next]_vars
    PROVE  PackInv'
<1>1. TypeOK BY DEF PackInv
<1>2. CASE calls < MaxCall /\ calls' = calls + 1
           /\ \E len \in Lens : display_data(len) \/ display_data2(len) \/ display_data3(len)
  <2>1. PICK len \in Lens : display_data(len) \/ display_data2(len) \/ display_data3(len) BY <1>2
  <2>2. len \in 0..MaxLen /\ calls' \in 0..MaxCall BY <1>1, <1>2, SpiAssumption DEF TypeOK
  <2>3. CASE display_data(len) BY <1>1, <2>2, <2>3, DataKeeps
  <2>4. CASE display_data2(len) BY <1>1, <2>2, <2>4, Data2Keeps
  <2>5. CASE display_data3(len) BY <1>1, <2>2, <2>5, Data3Keeps
  <2> QED BY <2>1, <2>3, <2>4, <2>5
<1>3. ASSUME NEW b \in Pattern, Poke(b) PROVE PackInv'
  BY <1>1, <1>3, PokeKeeps
<1>4. CASE UNCHANGED vars
  <2>1. /\ UNCHANGED <<data_buf, x, y, p_spi_send_buf, spi_send_len, pokes, calls>>
        /\ call' = call /\ call'.len = call.len
    BY <1>4 DEF vars
  <2>2. TypeOK' BY <1>1, <2>1 DEF TypeOK
  <2>3. /\ Symbols(call.len)' = Symbols(call.len)
        /\ Bytes2(call.len)' = Bytes2(call.len) /\ Bytes3(call.len)' = Bytes3(call.len)
    BY <2>1, SameFrame
  <2>4. BitWise' BY <2>1, <2>3 DEF PackInv, BitWise, Shows, BufBit
  <2>5. WordWise("display_data2", Bytes2(call.len))' /\ WordWise("display_data3", Bytes3(call.len))'
    BY <2>1, <2>3 DEF PackInv, WordWise, Holds
  <2> QED BY <2>2, <2>4, <2>5 DEF PackInv
<1> QED BY <1>2, <1>3, <1>4 DEF Next
-----------------------------------------------------------------------------
(* The theorems, for frames, areas and buffers of every size.              *)

\* What each packer leaves in p_spi_send_buf is what it was to pack, bit for bit
\* (display_data) or byte for byte (display_data2, display_data3), over spi_send_len
\* bytes of the buffer.
THEOREM PackingInvariant == Spec => []PackInv
<1>1. Init => PackInv BY InitPack
<1>2. PackInv /\ [Next]_vars => PackInv' BY StepPack
<1> QED BY <1>1, <1>2, PTL DEF Spec

\* The variables keep their types: no write, shift or swap leaves the bytes of the buffer.
THEOREM PackTypesHold == Spec => []TypeOK
<1>1. PackInv => TypeOK BY DEF PackInv
<1> QED BY <1>1, PackingInvariant, PTL

\* display_data: what the display decodes from spi_send_len bytes is the frame, for any
\* content of the buffer before, and write_lcm_data stays within these bytes.
THEOREM SlowPacker == Spec => []SlowSendsFrame
<1>1. PackInv => SlowSendsFrame
  <2> SUFFICES ASSUME PackInv PROVE SlowSendsFrame
    OBVIOUS
  <2>1. PackTypes /\ BitWise BY TypesSuffice DEF PackInv
  <2> QED BY <2>1, Sent1
<1> QED BY <1>1, PackingInvariant, PTL

\* display_data3 packs two words at a time by shifts, masks and a swap of endianness:
\* the display decodes the same frame, up to an odd word at the end.
THEOREM FastPacker == Spec => []FastSendsFrame
<1>1. PackInv => FastSendsFrame
  <2> SUFFICES ASSUME PackInv PROVE FastSendsFrame
    OBVIOUS
  <2>1. PackTypes /\ WordWise("display_data3", Bytes3(call.len)) BY TypesSuffice DEF PackInv
  <2> QED BY <2>1, Sent3
<1> QED BY <1>1, PackingInvariant, PTL

\* display_data2, whose header is wrong, still sends the pixels after sixteen symbols.
THEOREM PixelPacker == Spec => []PixelsArrive
<1>1. PackInv => PixelsArrive
  <2> SUFFICES ASSUME PackInv PROVE PixelsArrive
    OBVIOUS
  <2>1. PackTypes /\ WordWise("display_data2", Bytes2(call.len)) BY TypesSuffice DEF PackInv
  <2> QED BY <2>1, Sent2
<1> QED BY <1>1, PackingInvariant, PTL

=============================================================================
