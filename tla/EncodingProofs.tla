--------------------------- MODULE EncodingProofs ---------------------------
(***************************************************************************)
(* Theorems about the encodings, for bytes of any size, fields of any      *)
(* width and inputs of any length.                                         *)
(***************************************************************************)
EXTENDS AdapterInstructions, MessageDigest, Recursion, SequenceTheorems

-----------------------------------------------------------------------------
(* Arithmetic *)

\* The digits of a number and a digit.
LEMMA DivMod ==
  ASSUME NEW b \in Nat \ {0, 1}, NEW high \in Nat, NEW low \in 0 .. b - 1
  PROVE  (high * b + low) \div b = high /\ (high * b + low) % b = low
OBVIOUS

\* Naturals make naturals.
LEMMA NatArithmetic ==
  ASSUME NEW m \in Nat, NEW b \in Nat \ {0}, NEW n \in Nat
  PROVE  m * b + n \in Nat /\ m \div b \in Nat
OBVIOUS

-----------------------------------------------------------------------------
(* Integers of the digests *)

\* f[k] is the number the first k bytes write.
Reading(f, bytes, width) ==
  f[0] = 0 /\ \A k \in 1 .. width : f[k] = f[k - 1] * Base + bytes[k]

\* f[k] is n without its k low bytes.
Shifting(f, n, width) ==
  f[0] = n /\ \A k \in 1 .. width : f[k] = f[k - 1] \div Base

\* A string of bytes is a sequence.
LEMMA BytesAreSeq ==
  ASSUME NEW width \in Nat, NEW bytes \in Bytes(width)
  PROVE  bytes \in Seq(Octet) /\ Len(bytes) = width
BY DEF Bytes

\* Number reads a string of bytes from left to right.
LEMMA NumberIs ==
  ASSUME NEW width \in Nat, NEW bytes \in Bytes(width)
  PROVE  \E f \in [0 .. width -> Nat] :
           Reading(f, bytes, width) /\ Number(bytes) = f[width]
<1> DEFINE Is(f) == f = [k \in 0 .. width |->
                           IF k = 0 THEN 0 ELSE f[k - 1] * Base + bytes[k]]
           read == CHOOSE f : Is(f)
           step == [k \in 1 .. width |-> [n \in Nat |-> n * Base + bytes[k]]]
<1>1. /\ Len(bytes) = width /\ Base \in Nat
      /\ \A k \in 1 .. width : bytes[k] \in Nat
  BY BytesAreSeq, WidthAssumption DEF Bytes, Octet
<1>2. step \in [1 .. width -> [Nat -> Nat]]
  BY <1>1
<1>3. PICK f \in [0 .. width -> Nat] : Solves(f, width, 0, step)
  <2> HIDE DEF step
  <2> QED BY <1>2, RecursionExists
<1>4. \A k \in 1 .. width : k - 1 \in 0 .. width /\ f[k - 1] \in Nat
  OBVIOUS
<1>5. Reading(f, bytes, width)
  BY <1>3, <1>4 DEF Solves, Reading
<1>6. Is(f)
  BY <1>5 DEF Reading
<1>7. Is(read)
  BY <1>6
<1>8. Number(bytes) = read[width]
  BY <1>1 DEF Number
<1> HIDE DEF read
<1>9. Reading(read, bytes, width)
  <2>1. 0 \in 0 .. width /\ \A k \in 1 .. width : k \in 0 .. width /\ k # 0
    OBVIOUS
  <2> QED BY <1>7, <2>1 DEF Reading
<1> DEFINE S == {k \in 0 .. width : read[k] \in Nat}
<1>10. 0 \in S
  BY <1>9 DEF Reading
<1>11. ASSUME NEW k \in 1 .. width, k - 1 \in S PROVE k \in S
  <2>1. read[k - 1] \in Nat /\ bytes[k] \in Nat /\ k \in 0 .. width
    BY <1>1, <1>11
  <2>2. read[k - 1] * Base + bytes[k] \in Nat
    BY <2>1, NatArithmetic, WidthAssumption
  <2> QED BY <1>9, <2>1, <2>2 DEF Reading
<1> HIDE DEF S
<1>12. 0 .. width \subseteq S
  BY <1>10, <1>11, BoundedInduction
<1>13. read \in [0 .. width -> Nat]
  BY <1>7, <1>12 DEF S
<1> QED BY <1>8, <1>9, <1>13

\* Shifted shifts byte by byte.
LEMMA ShiftedIs ==
  ASSUME NEW width \in Nat, NEW n \in Nat
  PROVE  /\ Shifted(n, width) \in [0 .. width -> Nat]
         /\ Shifting(Shifted(n, width), n, width)
<1> DEFINE Is(f) == f = [k \in 0 .. width |->
                           IF k = 0 THEN n ELSE f[k - 1] \div Base]
           shift == CHOOSE f : Is(f)
           step == [k \in 1 .. width |-> [m \in Nat |-> m \div Base]]
<1>1. Base \in Nat /\ Base > 0
  BY WidthAssumption
<1>2. step \in [1 .. width -> [Nat -> Nat]]
  BY <1>1
<1>3. PICK f \in [0 .. width -> Nat] : Solves(f, width, n, step)
  <2> HIDE DEF step
  <2> QED BY <1>2, RecursionExists
<1>4. \A k \in 1 .. width : k - 1 \in 0 .. width /\ f[k - 1] \in Nat
  OBVIOUS
<1>5. Shifting(f, n, width)
  BY <1>3, <1>4 DEF Solves, Shifting
<1>6. Is(f)
  BY <1>5 DEF Shifting
<1>7. Is(shift)
  BY <1>6
<1>8. Shifted(n, width) = shift
  BY DEF Shifted
<1> HIDE DEF shift
<1>9. Shifting(shift, n, width)
  <2>1. 0 \in 0 .. width /\ \A k \in 1 .. width : k \in 0 .. width /\ k # 0
    OBVIOUS
  <2> QED BY <1>7, <2>1 DEF Shifting
<1> DEFINE S == {k \in 0 .. width : shift[k] \in Nat}
<1>10. 0 \in S
  BY <1>9 DEF Shifting
<1>11. ASSUME NEW k \in 1 .. width, k - 1 \in S PROVE k \in S
  <2>1. shift[k - 1] \in Nat /\ k \in 0 .. width
    BY <1>11
  <2>2. shift[k - 1] \div Base \in Nat
    BY <2>1, NatArithmetic, WidthAssumption
  <2> QED BY <1>9, <2>1, <2>2 DEF Shifting
<1> HIDE DEF S
<1>12. 0 .. width \subseteq S
  BY <1>10, <1>11, BoundedInduction
<1>13. shift \in [0 .. width -> Nat]
  BY <1>7, <1>12 DEF S
<1> QED BY <1>8, <1>9, <1>13

\* The bytes of the number that a string of bytes writes are that string.
LEMMA BytesOfNumber ==
  ASSUME NEW width \in Nat, NEW bytes \in Bytes(width)
  PROVE  /\ Number(bytes) \in Nat
         /\ to_be_bytes(Number(bytes), width) = bytes
         /\ bcsReversed(Number(bytes), width) = bytes
<1>1. PICK f \in [0 .. width -> Nat] :
        Reading(f, bytes, width) /\ Number(bytes) = f[width]
  BY NumberIs
<1> DEFINE n == Number(bytes)
           g == Shifted(n, width)
<1>2. n \in Nat
  BY <1>1
<1> HIDE DEF n
<1>3. g \in [0 .. width -> Nat] /\ Shifting(g, n, width)
  BY <1>2, ShiftedIs
<1> HIDE DEF g
<1>4. ASSUME NEW k \in 1 .. width
      PROVE  f[k] \div Base = f[k - 1] /\ f[k] % Base = bytes[k]
  <2>1. f[k - 1] \in Nat /\ bytes[k] \in 0 .. Base - 1
    BY DEF Bytes, Octet
  <2>2. f[k] = f[k - 1] * Base + bytes[k]
    BY <1>1 DEF Reading
  <2>3. /\ (f[k - 1] * Base + bytes[k]) \div Base = f[k - 1]
        /\ (f[k - 1] * Base + bytes[k]) % Base = bytes[k]
    BY <2>1, DivMod, WidthAssumption
  <2> QED BY <2>2, <2>3
<1> DEFINE S == {k \in 0 .. width : g[k] = f[width - k]}
<1>5. 0 \in S
  BY <1>1, <1>3 DEF Shifting, n
<1>6. ASSUME NEW k \in 1 .. width, k - 1 \in S PROVE k \in S
  <2>1. /\ k \in 0 .. width /\ width - (k - 1) \in 1 .. width
        /\ (width - (k - 1)) - 1 = width - k
    OBVIOUS
  <2>2. g[k] = g[k - 1] \div Base /\ g[k - 1] = f[width - (k - 1)]
    BY <1>3, <1>6 DEF Shifting
  <2>3. f[width - (k - 1)] \div Base = f[width - k]
    BY <1>4, <2>1
  <2> QED BY <2>1, <2>2, <2>3
<1> HIDE DEF S
<1>7. 0 .. width \subseteq S
  BY <1>5, <1>6, BoundedInduction
<1>8. ASSUME NEW k \in 1 .. width PROVE g[width - k] % Base = bytes[k]
  <2>1. width - k \in 0 .. width /\ width - (width - k) = k
    OBVIOUS
  <2>2. g[width - k] = f[k]
    BY <1>7, <2>1 DEF S
  <2> QED BY <1>4, <2>2
<1>9. to_be_bytes(n, width) = bytes
  BY <1>8 DEF to_be_bytes, g, Bytes
<1>10. bcsReversed(n, width) = bytes
  <2> DEFINE low == bcs(n, width)
  <2>1. Len(low) = width /\ \A k \in 1 .. width : low[k] = g[k - 1] % Base
    BY DEF bcs, g
  <2>2. \A k \in 1 .. width : /\ (width - k) + 1 \in 1 .. width
                              /\ ((width - k) + 1) - 1 = width - k
    OBVIOUS
  <2> HIDE DEF low
  <2>3. Reverse(low) = [k \in 1 .. width |-> low[(width - k) + 1]]
    BY <2>1 DEF Reverse
  <2>4. \A k \in 1 .. width : low[(width - k) + 1] = bytes[k]
    BY <1>8, <2>1, <2>2
  <2>5. Reverse(low) = bytes
    BY <2>3, <2>4 DEF Bytes
  <2> QED BY <2>5 DEF bcsReversed, low
<1> QED BY <1>2, <1>9, <1>10 DEF n

\* An integer of a width is written with as many bytes, alike on the
\* platforms, and can be read back.
LEMMA IntegerIs ==
  ASSUME NEW width \in Nat, NEW n \in UInt(width)
  PROVE  /\ to_be_bytes(n, width) \in Bytes(width)
         /\ Number(to_be_bytes(n, width)) = n
         /\ bcsReversed(n, width) = to_be_bytes(n, width)
<1>1. PICK bytes \in Bytes(width) : n = Number(bytes)
  BY DEF UInt
<1>2. to_be_bytes(n, width) = bytes /\ bcsReversed(n, width) = bytes
  BY <1>1, BytesOfNumber
<1> QED BY <1>1, <1>2

-----------------------------------------------------------------------------
(* The fields of the digests *)

\* The field of a string at an offset.
Field(bytes, from, width) == SubSeq(bytes, from + 1, from + width)

\* Its bytes.
LEMMA FieldIs ==
  ASSUME NEW S, NEW s \in Seq(S), NEW from \in Nat, NEW width \in Nat,
         from + width <= Len(s)
  PROVE  Field(s, from, width) = [k \in 1 .. width |-> s[from + k]]
<1>1. SubSeq(s, from + 1, from + width)
        = [k \in 1 .. (from + width) - (from + 1) + 1 |->
             s[k + (from + 1) - 1]]
  OBVIOUS
<1> QED BY <1>1 DEF Field

\* What is appended to a string makes it longer.
LEMMA ConcatIs ==
  ASSUME NEW S, NEW s \in Seq(S), NEW x \in Seq(S)
  PROVE  s \o x \in Seq(S) /\ Len(s \o x) = Len(s) + Len(x)
BY ConcatProperties

\* It is the last field.
LEMMA LastField ==
  ASSUME NEW S, NEW s \in Seq(S), NEW x \in Seq(S)
  PROVE  Field(s \o x, Len(s), Len(x)) = x
<1>1. PICK t : t = s \o x
  OBVIOUS
<1>2. PICK from \in Nat, width \in Nat : from = Len(s) /\ width = Len(x)
  OBVIOUS
<1>3. /\ t \in Seq(S) /\ Len(t) = from + width
      /\ \A k \in 1 .. from + width :
           t[k] = IF k <= from THEN s[k] ELSE x[k - from]
  BY <1>1, <1>2, ConcatProperties
<1>4. Field(t, from, width) = [k \in 1 .. width |-> t[from + k]]
  BY <1>3, FieldIs
<1>5. ASSUME NEW k \in 1 .. width PROVE t[from + k] = x[k]
  <2>1. /\ from + k \in 1 .. from + width /\ ~(from + k <= from)
        /\ (from + k) - from = k
    OBVIOUS
  <2> QED BY <1>3, <2>1
<1>6. x = [k \in 1 .. width |-> x[k]]
  BY <1>2
<1> QED BY <1>1, <1>2, <1>4, <1>5, <1>6

\* The fields before it stay the same.
LEMMA EarlierField ==
  ASSUME NEW S, NEW s \in Seq(S), NEW x \in Seq(S), NEW from \in Nat,
         NEW width \in Nat, from + width <= Len(s)
  PROVE  Field(s \o x, from, width) = Field(s, from, width)
<1>1. PICK t : t = s \o x
  OBVIOUS
<1>2. /\ t \in Seq(S) /\ Len(t) = Len(s) + Len(x)
      /\ \A k \in 1 .. Len(s) + Len(x) :
           t[k] = IF k <= Len(s) THEN s[k] ELSE x[k - Len(s)]
  BY <1>1, ConcatProperties
<1>3. Field(s, from, width) = [k \in 1 .. width |-> s[from + k]]
  BY FieldIs
<1>4. from + width <= Len(t)
  BY <1>2
<1>5. Field(t, from, width) = [k \in 1 .. width |-> t[from + k]]
  <2>1. t \in Seq(S)
    BY <1>2
  <2> QED BY <1>4, <2>1, FieldIs
<1>6. ASSUME NEW k \in 1 .. width PROVE t[from + k] = s[from + k]
  <2>1. from + k \in 1 .. Len(s) + Len(x) /\ from + k <= Len(s)
    OBVIOUS
  <2> QED BY <1>2, <2>1
<1> QED BY <1>1, <1>3, <1>5, <1>6

\* A string has another one at an offset.
Has(s, from, x) ==
  from + Len(x) <= Len(s) /\ Field(s, from, Len(x)) = x

\* A string has what was appended to it last.
LEMMA HasLast ==
  ASSUME NEW S, NEW s \in Seq(S), NEW x \in Seq(S)
  PROVE  Has(s \o x, Len(s), x)
<1>1. Field(s \o x, Len(s), Len(x)) = x
  BY LastField
<1>2. Len(s) + Len(x) <= Len(s \o x)
  BY ConcatIs
<1> QED BY <1>1, <1>2 DEF Has

\* It keeps what it had before.
LEMMA HasEarlier ==
  ASSUME NEW S, NEW s \in Seq(S), NEW x \in Seq(S), NEW y \in Seq(S),
         NEW from \in Nat, Has(s, from, y)
  PROVE  Has(s \o x, from, y)
<1>1. PICK len \in Nat : len = Len(y)
  OBVIOUS
<1>2. from + len <= Len(s) /\ Field(s, from, len) = y
  BY <1>1 DEF Has
<1>3. Field(s \o x, from, len) = Field(s, from, len)
  BY <1>2, EarlierField
<1>4. from + len <= Len(s \o x)
  <2>1. Len(s \o x) = Len(s) + Len(x)
    BY ConcatIs
  <2> QED BY <1>2, <2>1
<1> QED BY <1>1, <1>2, <1>3, <1>4 DEF Has

\* The bytes of the one are those of the other.
LEMMA HasByte ==
  ASSUME NEW S, NEW s \in Seq(S), NEW x \in Seq(S), NEW from \in Nat,
         Has(s, from, x), NEW k \in 1 .. Len(x)
  PROVE  s[from + k] = x[k] /\ from + k \in 1 .. Len(s)
<1>1. PICK len \in Nat : len = Len(x)
  OBVIOUS
<1>2. from + len <= Len(s) /\ Field(s, from, len) = x
  BY <1>1 DEF Has
<1>3. Field(s, from, len) = [m \in 1 .. len |-> s[from + m]]
  BY <1>2, FieldIs
<1> QED BY <1>1, <1>2, <1>3

\* A string put together from six fields.
Six(v) == v[1] \o v[2] \o v[3] \o v[4] \o v[5] \o v[6]

\* It is taken apart at their offsets.
LEMMA SixFields ==
  ASSUME NEW S, NEW v \in [1 .. 6 -> Seq(S)]
  PROVE  LET ab  == Len(v[1]) + Len(v[2])
             abc == ab + Len(v[3])
             abcd == abc + Len(v[4])
             abcde == abcd + Len(v[5])
         IN  /\ Len(Six(v)) = abcde + Len(v[6])
             /\ Has(Six(v), 0, v[1])
             /\ Has(Six(v), Len(v[1]), v[2])
             /\ Has(Six(v), ab, v[3])
             /\ Has(Six(v), abc, v[4])
             /\ Has(Six(v), abcd, v[5])
             /\ Has(Six(v), abcde, v[6])
<1> PICK a \in Seq(S), b \in Seq(S), c \in Seq(S), d \in Seq(S), e \in Seq(S),
         f \in Seq(S) : /\ a = v[1] /\ b = v[2] /\ c = v[3]
                        /\ d = v[4] /\ e = v[5] /\ f = v[6]
  <2>1. \A k \in {1, 2, 3, 4, 5, 6} : v[k] \in Seq(S)
    OBVIOUS
  <2> QED BY <2>1
<1>1. PICK la \in Nat, lb \in Nat, lc \in Nat, ld \in Nat, le \in Nat,
           lf \in Nat : /\ la = Len(a) /\ lb = Len(b) /\ lc = Len(c)
                        /\ ld = Len(d) /\ le = Len(e) /\ lf = Len(f)
  <2>1. /\ Len(a) \in Nat /\ Len(b) \in Nat /\ Len(c) \in Nat
        /\ Len(d) \in Nat /\ Len(e) \in Nat /\ Len(f) \in Nat
    OBVIOUS
  <2> QED BY <2>1, Zenon
<1>2. PICK o2 \in Nat, o3 \in Nat, o4 \in Nat, o5 \in Nat :
        o2 = la + lb /\ o3 = o2 + lc /\ o4 = o3 + ld /\ o5 = o4 + le
  <2>1. PICK o2 \in Nat : o2 = la + lb
    OBVIOUS
  <2>2. PICK o3 \in Nat : o3 = o2 + lc
    OBVIOUS
  <2>3. PICK o4 \in Nat : o4 = o3 + ld
    OBVIOUS
  <2>4. PICK o5 \in Nat : o5 = o4 + le
    OBVIOUS
  <2> QED BY <2>1, <2>2, <2>3, <2>4
<1>3. Has(a, 0, a)
  BY DEF Has, Field
<1>4. PICK p2, p3, p4, p5, p6 :
        /\ p2 = a \o b /\ p3 = p2 \o c /\ p4 = p3 \o d /\ p5 = p4 \o e
        /\ p6 = p5 \o f
  OBVIOUS
<1>5. p2 \in Seq(S) /\ Len(p2) = Len(a) + Len(b)
  BY <1>4, ConcatIs
<1>6. p3 \in Seq(S) /\ Len(p3) = Len(p2) + Len(c)
  BY <1>4, <1>5, ConcatIs
<1>7. p4 \in Seq(S) /\ Len(p4) = Len(p3) + Len(d)
  BY <1>4, <1>6, ConcatIs
<1>8. p5 \in Seq(S) /\ Len(p5) = Len(p4) + Len(e)
  BY <1>4, <1>7, ConcatIs
<1>9. Len(p6) = Len(p5) + Len(f)
  BY <1>4, <1>8, ConcatIs
<1>10. /\ Len(p2) = o2 /\ Len(p3) = o3 /\ Len(p4) = o4 /\ Len(p5) = o5
       /\ Len(p6) = o5 + lf
  BY <1>1, <1>2, <1>5, <1>6, <1>7, <1>8, <1>9
<1>11. Has(p2, 0, a) /\ Has(p2, la, b)
  <2>1. Has(p2, 0, a)
    BY <1>3, <1>4, HasEarlier
  <2>2. Has(p2, Len(a), b)
    BY <1>4, HasLast
  <2> QED BY <1>1, <2>1, <2>2
<1>12. Has(p3, 0, a) /\ Has(p3, la, b) /\ Has(p3, o2, c)
  <2>1. p2 \in Seq(S)
    BY <1>5
  <2>2. Has(p3, 0, a) /\ Has(p3, la, b)
    BY <1>4, <1>11, <2>1, HasEarlier
  <2>3. Has(p3, Len(p2), c)
    BY <1>4, <2>1, HasLast
  <2> QED BY <1>10, <2>2, <2>3
<1>13. Has(p4, 0, a) /\ Has(p4, la, b) /\ Has(p4, o2, c) /\ Has(p4, o3, d)
  <2>1. p3 \in Seq(S)
    BY <1>6
  <2>2. Has(p4, 0, a) /\ Has(p4, la, b) /\ Has(p4, o2, c)
    BY <1>4, <1>12, <2>1, HasEarlier
  <2>3. Has(p4, Len(p3), d)
    BY <1>4, <2>1, HasLast
  <2> QED BY <1>10, <2>2, <2>3
<1>14. /\ Has(p5, 0, a) /\ Has(p5, la, b) /\ Has(p5, o2, c) /\ Has(p5, o3, d)
       /\ Has(p5, o4, e)
  <2>1. p4 \in Seq(S)
    BY <1>7
  <2>2. Has(p5, 0, a) /\ Has(p5, la, b) /\ Has(p5, o2, c) /\ Has(p5, o3, d)
    BY <1>4, <1>13, <2>1, HasEarlier
  <2>3. Has(p5, Len(p4), e)
    BY <1>4, <2>1, HasLast
  <2> QED BY <1>10, <2>2, <2>3
<1>15. /\ Has(p6, 0, a) /\ Has(p6, la, b) /\ Has(p6, o2, c) /\ Has(p6, o3, d)
       /\ Has(p6, o4, e) /\ Has(p6, o5, f)
  <2>1. p5 \in Seq(S)
    BY <1>8
  <2>2. /\ Has(p6, 0, a) /\ Has(p6, la, b) /\ Has(p6, o2, c)
        /\ Has(p6, o3, d) /\ Has(p6, o4, e)
    BY <1>4, <1>14, <2>1, HasEarlier
  <2>3. Has(p6, Len(p5), f)
    BY <1>4, <2>1, HasLast
  <2> QED BY <1>10, <2>2, <2>3
<1>16. p6 = Six(v)
  BY <1>4, Zenon DEF Six
<1> QED BY <1>1, <1>2, <1>10, <1>15, <1>16

-----------------------------------------------------------------------------
(* Digests *)

\* The fields of a digest are those of the message and the destination.
LEMMA DigestFields ==
  ASSUME NEW m \in FixedArgs, NEW addr \in Bytes(AddressWidth)
  PROVE  LET packed == compute_message_hash(m, addr)
             seq == ChainWidth + AddressWidth
             dst == seq + SequenceWidth
             to  == dst + ChainWidth
             end == to + AddressWidth
         IN  /\ Len(packed) = end + HashWidth
             /\ Number(Field(packed, 0, ChainWidth)) = m.src_chain
             /\ Field(packed, ChainWidth, AddressWidth) = m.src_addr
             /\ Number(Field(packed, seq, SequenceWidth)) = m.sequence
             /\ Number(Field(packed, dst, ChainWidth)) = m.dst_chain
             /\ Field(packed, to, AddressWidth) = addr
             /\ Field(packed, end, HashWidth) = m.payload_hash
<1>1. /\ ChainWidth \in Nat /\ AddressWidth \in Nat
      /\ SequenceWidth \in Nat /\ HashWidth \in Nat
  BY WidthAssumption
<1>2. /\ m.src_chain \in UInt(ChainWidth) /\ m.src_addr \in Bytes(AddressWidth)
      /\ m.sequence \in UInt(SequenceWidth) /\ m.dst_chain \in UInt(ChainWidth)
      /\ m.payload_hash \in Bytes(HashWidth)
  BY DEF FixedArgs, Args
<1>3. PICK a, c, d : /\ a = to_be_bytes(m.src_chain, ChainWidth)
                     /\ c = to_be_bytes(m.sequence, SequenceWidth)
                     /\ d = to_be_bytes(m.dst_chain, ChainWidth)
  OBVIOUS
<1>4. /\ a \in Bytes(ChainWidth) /\ Number(a) = m.src_chain
      /\ c \in Bytes(SequenceWidth) /\ Number(c) = m.sequence
      /\ d \in Bytes(ChainWidth) /\ Number(d) = m.dst_chain
  BY <1>1, <1>2, <1>3, IntegerIs
<1>5. PICK b, f : b = m.src_addr /\ f = m.payload_hash
  OBVIOUS
<1>6. /\ Len(a) = ChainWidth /\ Len(b) = AddressWidth
      /\ Len(c) = SequenceWidth /\ Len(d) = ChainWidth
      /\ Len(addr) = AddressWidth /\ Len(f) = HashWidth
  BY <1>1, <1>2, <1>4, <1>5, BytesAreSeq
<1> DEFINE v == <<a, b, c, d, addr, f>>
           all == Six(v)
<1>7. compute_message_hash(m, addr) = all
  BY <1>3, <1>5 DEF compute_message_hash, Six
<1> DEFINE ab == Len(a) + Len(b)
           abc == ab + Len(c)
           abcd == abc + Len(d)
           abcde == abcd + Len(addr)
<1>8. /\ Len(all) = abcde + Len(f)
      /\ Has(all, 0, a) /\ Has(all, Len(a), b) /\ Has(all, ab, c)
      /\ Has(all, abc, d) /\ Has(all, abcd, addr) /\ Has(all, abcde, f)
  <2>1. /\ a \in Seq(Octet) /\ b \in Seq(Octet) /\ c \in Seq(Octet)
        /\ d \in Seq(Octet) /\ addr \in Seq(Octet) /\ f \in Seq(Octet)
    BY <1>1, <1>2, <1>4, <1>5, BytesAreSeq
  <2>2. v \in [1 .. 6 -> Seq(Octet)]
    BY <2>1
  <2>3. /\ v[1] = a /\ v[2] = b /\ v[3] = c /\ v[4] = d /\ v[5] = addr
        /\ v[6] = f
    OBVIOUS
  <2> HIDE DEF v
  <2> QED BY <2>2, <2>3, SixFields
<1> HIDE DEF all
<1>9. /\ Field(all, 0, Len(a)) = a
      /\ Field(all, Len(a), Len(b)) = b
      /\ Field(all, ab, Len(c)) = c
      /\ Field(all, abc, Len(d)) = d
      /\ Field(all, abcd, Len(addr)) = addr
      /\ Field(all, abcde, Len(f)) = f
  BY <1>8 DEF Has
<1> QED BY <1>4, <1>5, <1>6, <1>7, <1>8, <1>9

\* A message is read back from its digest.
LEMMA UnpackIs ==
  ASSUME NEW m \in FixedArgs
  PROVE  LET packed == compute_message_hash(m, m.dst_addr) IN
         /\ Len(packed) = 2 * ChainWidth + 2 * AddressWidth + SequenceWidth
                            + HashWidth
         /\ Unpack(packed) = m
<1>1. /\ ChainWidth \in Nat /\ AddressWidth \in Nat
      /\ SequenceWidth \in Nat /\ HashWidth \in Nat
  BY WidthAssumption
<1>2. m.dst_addr \in Bytes(AddressWidth)
  BY DEF FixedArgs, Args
<1>3. PICK packed : packed = compute_message_hash(m, m.dst_addr)
  OBVIOUS
<1> DEFINE seq == ChainWidth + AddressWidth
           dst == seq + SequenceWidth
           to  == dst + ChainWidth
           end == to + AddressWidth
<1>4. /\ Len(packed) = end + HashWidth
      /\ Number(Field(packed, 0, ChainWidth)) = m.src_chain
      /\ Field(packed, ChainWidth, AddressWidth) = m.src_addr
      /\ Number(Field(packed, seq, SequenceWidth)) = m.sequence
      /\ Number(Field(packed, dst, ChainWidth)) = m.dst_chain
      /\ Field(packed, to, AddressWidth) = m.dst_addr
      /\ Field(packed, end, HashWidth) = m.payload_hash
  BY <1>2, <1>3, DigestFields
<1>5. Unpack(packed)
        = [src_chain |-> Number(Field(packed, 0, ChainWidth)),
           src_addr |-> Field(packed, ChainWidth, AddressWidth),
           sequence |-> Number(Field(packed, seq, SequenceWidth)),
           dst_chain |-> Number(Field(packed, dst, ChainWidth)),
           dst_addr |-> Field(packed, to, AddressWidth),
           payload_hash |-> Field(packed, end, HashWidth)]
  BY DEF Unpack, Field
<1>6. m = [src_chain |-> m.src_chain, src_addr |-> m.src_addr,
           sequence |-> m.sequence, dst_chain |-> m.dst_chain,
           dst_addr |-> m.dst_addr, payload_hash |-> m.payload_hash]
  BY DEF FixedArgs, Args
<1>7. end + HashWidth = 2 * ChainWidth + 2 * AddressWidth + SequenceWidth
                          + HashWidth
  BY <1>1
<1> QED BY <1>3, <1>4, <1>5, <1>6, <1>7

\* Vectors of the asserted lengths are of the fixed widths.
LEMMA AptosArgs ==
  ASSUME NEW m \in VectorArgs, aptosLengthsOk(m, m.dst_addr)
  PROVE  m \in FixedArgs
<1>1. AddressWidth \in Nat /\ HashWidth \in Nat
  BY WidthAssumption
<1> DEFINE Vectors(width) == UNION {Bytes(w) : w \in 0 .. width + 1}
<1>2. ASSUME NEW width \in Nat, NEW bytes \in Vectors(width),
             Len(bytes) = width
      PROVE  bytes \in Bytes(width)
  <2>1. PICK w \in 0 .. width + 1 : bytes \in Bytes(w)
    OBVIOUS
  <2>2. w \in Nat
    OBVIOUS
  <2>3. Len(bytes) = w
    BY <2>1, <2>2, BytesAreSeq
  <2> QED BY <1>2, <2>1, <2>3
<1>3. m \in Args(Vectors(AddressWidth), Vectors(HashWidth))
  BY DEF VectorArgs
<1> HIDE DEF Vectors
<1>4. /\ m.src_addr \in Vectors(AddressWidth)
      /\ m.dst_addr \in Vectors(AddressWidth)
      /\ m.payload_hash \in Vectors(HashWidth)
  BY <1>3 DEF Args
<1>5. /\ m.src_addr \in Bytes(AddressWidth)
      /\ m.dst_addr \in Bytes(AddressWidth)
      /\ m.payload_hash \in Bytes(HashWidth)
  BY <1>1, <1>2, <1>4 DEF aptosLengthsOk
<1> QED BY <1>3, <1>5 DEF FixedArgs, Args

\* The platforms pack a message alike.
LEMMA AptosPacksAlike ==
  ASSUME NEW m \in FixedArgs, NEW addr
  PROVE  aptos_compute_message_hash(m, addr) = compute_message_hash(m, addr)
<1>1. /\ m.src_chain \in UInt(ChainWidth) /\ m.dst_chain \in UInt(ChainWidth)
      /\ m.sequence \in UInt(SequenceWidth)
  BY DEF FixedArgs, Args
<1>2. ChainWidth \in Nat /\ SequenceWidth \in Nat
  BY WidthAssumption
<1>3. /\ bcsReversed(m.src_chain, ChainWidth)
           = to_be_bytes(m.src_chain, ChainWidth)
      /\ bcsReversed(m.dst_chain, ChainWidth)
           = to_be_bytes(m.dst_chain, ChainWidth)
      /\ bcsReversed(m.sequence, SequenceWidth)
           = to_be_bytes(m.sequence, SequenceWidth)
  BY <1>1, <1>2, IntegerIs
<1> QED BY <1>3 DEF aptos_compute_message_hash, compute_message_hash

\* Addresses of the full width stay what they are.
LEMMA FullAddress ==
  ASSUME NEW addr \in Bytes(AddressWidth)
  PROVE  from_pubkey(addr) = addr /\ to_pubkey(addr) = addr
           /\ pad_left_32(addr) = addr
<1>1. AddressWidth \in Nat
  BY WidthAssumption
<1>2. addr \in Seq(Octet) /\ Len(addr) = AddressWidth
  BY <1>1, BytesAreSeq
<1>3. from_pubkey(addr) = addr /\ to_pubkey(addr) = addr
  BY DEF from_pubkey, to_pubkey, Bytes
<1>4. AddressWidth - Len(addr) = 0
  BY <1>1, <1>2
<1>5. [k \in 1 .. AddressWidth - Len(addr) |-> 0] = << >>
  BY <1>4
<1>6. << >> \o addr = addr
  BY <1>2
<1> QED BY <1>3, <1>5, <1>6 DEF pad_left_32

\* An EVM address is found again in its universal address, and the universal
\* address of an EVM address in that address.
LEMMA EvmAddress ==
  /\ \A native \in Bytes(EvmWidth) :
       /\ fromAddress(native) \in Bytes(AddressWidth)
       /\ toAddress(fromAddress(native)) = native
  /\ \A addr \in Bytes(AddressWidth) :
       isEvmAddress(addr) => /\ toAddress(addr) \in Bytes(EvmWidth)
                             /\ fromAddress(toAddress(addr)) = addr
<1> DEFINE gap == AddressWidth - EvmWidth
           zeros == [k \in 1 .. gap |-> 0]
<1>1. /\ AddressWidth \in Nat /\ EvmWidth \in Nat /\ gap \in Nat
      /\ gap + EvmWidth = AddressWidth
  BY WidthAssumption
<1>2. zeros \in Seq(Octet) /\ Len(zeros) = gap
  BY <1>1, WidthAssumption DEF Octet
<1>3. \A k \in 1 .. gap : zeros[k] = 0
  OBVIOUS
<1> HIDE DEF zeros
<1>4. \A s : fromAddress(s) = zeros \o s
  BY DEF fromAddress, zeros
<1>5. \A s : toAddress(s) = Field(s, gap, EvmWidth)
  BY <1>1 DEF toAddress, Field
<1> HIDE DEF gap
<1>6. ASSUME NEW native \in Bytes(EvmWidth)
      PROVE  /\ fromAddress(native) \in Bytes(AddressWidth)
             /\ toAddress(fromAddress(native)) = native
  <2>1. native \in Seq(Octet) /\ Len(native) = EvmWidth
    BY <1>1, BytesAreSeq
  <2>2. PICK s : s = zeros \o native
    OBVIOUS
  <2>3. s \in Seq(Octet) /\ Len(s) = AddressWidth
    BY <1>1, <1>2, <2>1, <2>2, ConcatIs
  <2>4. s \in Bytes(AddressWidth)
    BY <2>3 DEF Bytes
  <2>5. Field(s, gap, EvmWidth) = native
    BY <1>2, <2>1, <2>2, LastField
  <2> QED BY <1>4, <1>5, <2>2, <2>4, <2>5
<1>7. ASSUME NEW addr \in Bytes(AddressWidth), isEvmAddress(addr)
      PROVE  /\ toAddress(addr) \in Bytes(EvmWidth)
             /\ fromAddress(toAddress(addr)) = addr
  <2>1. addr \in Seq(Octet) /\ Len(addr) = AddressWidth
    BY <1>1, BytesAreSeq
  <2>2. \A k \in 1 .. gap : addr[k] = 0
    BY <1>7 DEF isEvmAddress, gap
  <2>3. PICK low : low = toAddress(addr)
    OBVIOUS
  <2>4. low = [k \in 1 .. EvmWidth |-> addr[gap + k]]
    BY <1>1, <1>5, <2>1, <2>3, FieldIs
  <2>5. \A k \in 1 .. EvmWidth : gap + k \in 1 .. AddressWidth
    BY <1>1
  <2>6. low \in Bytes(EvmWidth)
    BY <2>4, <2>5 DEF Bytes
  <2>7. low \in Seq(Octet) /\ Len(low) = EvmWidth
    BY <1>1, <2>6, BytesAreSeq
  <2>8. PICK s : s = zeros \o low
    OBVIOUS
  <2>9. /\ s \in Seq(Octet) /\ Len(s) = AddressWidth
        /\ \A k \in 1 .. AddressWidth :
             s[k] = IF k <= gap THEN zeros[k] ELSE low[k - gap]
    <3>1. /\ s \in Seq(Octet) /\ Len(s) = Len(zeros) + Len(low)
          /\ \A k \in 1 .. Len(zeros) + Len(low) :
               s[k] = IF k <= Len(zeros) THEN zeros[k]
                                         ELSE low[k - Len(zeros)]
      <4>1. zeros \in Seq(Octet) /\ low \in Seq(Octet)
        BY <1>2, <2>7
      <4> QED BY <2>8, <4>1, ConcatProperties
    <3> QED BY <1>1, <1>2, <2>7, <3>1
  <2>10. ASSUME NEW k \in 1 .. AddressWidth PROVE s[k] = addr[k]
    <3>1. CASE k <= gap
      <4>1. k \in 1 .. gap
        BY <1>1, <3>1
      <4> QED BY <1>3, <2>2, <2>9, <3>1, <4>1
    <3>2. CASE ~(k <= gap)
      <4>1. k - gap \in 1 .. EvmWidth /\ gap + (k - gap) = k
        BY <1>1, <3>2
      <4> QED BY <2>4, <2>9, <3>2, <4>1
    <3> QED BY <3>1, <3>2
  <2>11. s = addr
    BY <2>1, <2>9, <2>10
  <2> QED BY <1>4, <2>3, <2>6, <2>8, <2>11
<1> QED BY <1>6, <1>7

\* A stored attestation is under the packed form of its message, and the
\* integrator is the native form of the destination.
DigestInv ==
  /\ \/ platform \in {"svm", "evm"} /\ args \in FixedArgs
     \/ platform = "aptos" /\ args \in VectorArgs
  /\ digest # None =>
       /\ args \in FixedArgs
       /\ digest = compute_message_hash(args, args.dst_addr)
       /\ integrator = IF platform = "evm" THEN toAddress(args.dst_addr)
                                           ELSE args.dst_addr
       /\ platform = "evm" => isEvmAddress(args.dst_addr)

\* DigestInv is an invariant.
LEMMA DigestInvariant == DigestSpec => []DigestInv
<1>1. DigestInit => DigestInv
  BY DEF DigestInit, DigestInv
<1>2. DigestInv /\ [DigestNext]_digestVars => DigestInv'
  <2> SUFFICES ASSUME DigestInv, [DigestNext]_digestVars PROVE DigestInv'
    OBVIOUS
  <2>1. \A m \in FixedArgs : m.dst_addr \in Bytes(AddressWidth)
    BY DEF FixedArgs, Args
  <2>2. CASE AttestSvm
    <3>1. args \in FixedArgs /\ args' = args /\ platform' = platform
            /\ platform = "svm"
      BY <2>2 DEF AttestSvm, DigestInv
    <3>2. integrator' = args.dst_addr
      BY <2>1, <2>2, <3>1, FullAddress DEF AttestSvm
    <3>3. digest' = compute_message_hash(args, args.dst_addr)
      BY <2>1, <2>2, <3>1, <3>2, FullAddress DEF AttestSvm
    <3> QED BY <3>1, <3>2, <3>3 DEF DigestInv
  <2>3. CASE AttestEvm
    BY <2>3 DEF AttestEvm, DigestInv
  <2>4. CASE AttestAptos
    <3>1. args \in VectorArgs /\ args' = args /\ platform' = platform
            /\ platform = "aptos"
      BY <2>4 DEF AttestAptos, DigestInv
    <3>2. args \in FixedArgs
      BY <2>4, <3>1, AptosArgs DEF AttestAptos
    <3>3. integrator' = args.dst_addr
      BY <2>1, <2>4, <3>2, FullAddress DEF AttestAptos
    <3>4. digest' = compute_message_hash(args, args.dst_addr)
      BY <2>4, <3>2, AptosPacksAlike DEF AttestAptos
    <3> QED BY <3>1, <3>2, <3>3, <3>4 DEF DigestInv
  <2>5. CASE UNCHANGED digestVars
    BY <2>5 DEF digestVars, DigestInv
  <2> QED BY <2>2, <2>3, <2>4, <2>5 DEF DigestNext
<1> QED BY <1>1, <1>2, PTL DEF DigestSpec

\* On SVM, EVM and Aptos, for bytes of any size and fields of any width, a
\* stored attestation is under the packed form README.md prescribes, from which
\* every field of the message can be read back.
THEOREM DigestsDetermineMessages == DigestSpec => []DigestDeterminesMessage
<1>1. DigestInv => DigestDeterminesMessage
  BY UnpackIs DEF DigestInv, DigestDeterminesMessage
<1> QED BY <1>1, DigestInvariant, PTL

\* Whoever receives under the digest of a message is its destination.
LEMMA DigestOfDestination ==
  ASSUME NEW m \in FixedArgs, NEW a \in Bytes(AddressWidth),
         NEW b \in Bytes(AddressWidth),
         compute_message_hash(m, a) = compute_message_hash(m, b)
  PROVE  a = b
<1> DEFINE to == ChainWidth + AddressWidth + SequenceWidth + ChainWidth
<1>1. Field(compute_message_hash(m, a), to, AddressWidth) = a
  BY DigestFields
<1>2. Field(compute_message_hash(m, b), to, AddressWidth) = b
  BY DigestFields
<1> QED BY <1>1, <1>2

\* On SVM, EVM and Aptos, an attestation can be received by the integrator
\* whose adapters were looked up when it was made, and by no other native
\* address: on EVM because addresses with upper bytes are refused.
THEOREM ReceivedByTheAddressee == DigestSpec => []ReceivedByAddressee
<1>1. ASSUME DigestInv, digest # None, NEW caller \in Natives
      PROVE  ReceiveDigest(caller) = digest <=> caller = integrator
  <2>1. /\ args \in FixedArgs
        /\ digest = compute_message_hash(args, args.dst_addr)
        /\ platform \in {"svm", "evm", "aptos"}
    BY <1>1 DEF DigestInv
  <2>2. PICK dst \in Bytes(AddressWidth) : dst = args.dst_addr
    BY <2>1 DEF FixedArgs, Args
  <2>3. CASE platform = "evm"
    <3>1. caller \in Bytes(EvmWidth)
      BY <2>3 DEF Natives
    <3>2. isEvmAddress(dst) /\ integrator = toAddress(dst)
      BY <1>1, <2>2, <2>3 DEF DigestInv
    <3>3. PICK from \in Bytes(AddressWidth) : /\ from = fromAddress(caller)
                                              /\ toAddress(from) = caller
      BY <3>1, EvmAddress
    <3>4. fromAddress(toAddress(dst)) = dst
      BY <3>2, EvmAddress
    <3>5. ReceiveDigest(caller) = compute_message_hash(args, from)
      BY <2>3, <3>3 DEF ReceiveDigest
    <3>6. compute_message_hash(args, from) = compute_message_hash(args, dst)
            => from = dst
      BY <2>1, DigestOfDestination
    <3> QED BY <2>1, <2>2, <3>2, <3>3, <3>4, <3>5, <3>6
  <2>4. CASE platform # "evm"
    <3>1. caller \in Bytes(AddressWidth)
      BY <2>4 DEF Natives
    <3>2. integrator = dst
      BY <1>1, <2>2, <2>4 DEF DigestInv
    <3>3. from_pubkey(caller) = caller /\ pad_left_32(caller) = caller
      BY <3>1, FullAddress
    <3>4. ReceiveDigest(caller) = compute_message_hash(args, caller)
      <4>1. CASE platform = "svm"
        BY <3>3, <4>1 DEF ReceiveDigest
      <4>2. CASE platform = "aptos"
        <5>1. ReceiveDigest(caller) = aptos_compute_message_hash(args, caller)
          BY <3>3, <4>2 DEF ReceiveDigest
        <5> QED BY <2>1, <5>1, AptosPacksAlike
      <4> QED BY <2>1, <2>4, <4>1, <4>2
    <3>5. compute_message_hash(args, caller) = compute_message_hash(args, dst)
            => caller = dst
      BY <2>1, <3>1, DigestOfDestination
    <3> QED BY <2>1, <2>2, <3>2, <3>4, <3>5
  <2> QED BY <2>3, <2>4
<1>2. DigestInv => ReceivedByAddressee
  BY <1>1 DEF ReceivedByAddressee
<1> QED BY <1>2, DigestInvariant, PTL

-----------------------------------------------------------------------------
(* Strings put together from a list *)

\* f[k] is the first k strings put together.
Joining(f, strings, n) ==
  f[0] = << >> /\ \A k \in 1 .. n : f[k] = f[k - 1] \o strings[k]

\* Strings that agree are put together alike.
LEMMA JoiningAlike ==
  ASSUME NEW n \in Nat, NEW f, NEW g, NEW s, NEW t,
         Joining(f, s, n), Joining(g, t, n), \A k \in 1 .. n : s[k] = t[k]
  PROVE  \A k \in 0 .. n : f[k] = g[k]
<1> DEFINE S == {k \in 0 .. n : f[k] = g[k]}
<1>1. 0 \in S
  BY DEF Joining
<1>2. ASSUME NEW k \in 1 .. n, k - 1 \in S PROVE k \in S
  <2>1. f[k - 1] = g[k - 1] /\ s[k] = t[k] /\ k \in 0 .. n
    BY <1>2
  <2>2. f[k] = f[k - 1] \o s[k] /\ g[k] = g[k - 1] \o t[k]
    BY DEF Joining
  <2>3. f[k] = g[k]
    BY <2>1, <2>2, Zenon
  <2> QED BY <2>1, <2>3
<1> HIDE DEF S
<1>3. 0 .. n \subseteq S
  BY <1>1, <1>2, BoundedInduction
<1> QED BY <1>3 DEF S

\* FlattenSeq puts the strings of a list together from left to right.
LEMMA FlattenIs ==
  ASSUME NEW V, NEW strings \in Seq(Seq(V))
  PROVE  \E f \in [0 .. Len(strings) -> Seq(V)] :
           /\ Joining(f, strings, Len(strings))
           /\ FlattenSeq(strings) = f[Len(strings)]
<1>1. PICK n \in Nat : n = Len(strings)
  OBVIOUS
<1>2. \A k \in 1 .. n : strings[k] \in Seq(V)
  BY <1>1
<1> DEFINE step == [k \in 1 .. n |-> [s \in Seq(V) |-> s \o strings[k]]]
<1>3. step \in [1 .. n -> [Seq(V) -> Seq(V)]]
  BY <1>2, ConcatIs
<1>4. PICK f \in [0 .. n -> Seq(V)] : Solves(f, n, << >>, step)
  <2>1. << >> \in Seq(V)
    OBVIOUS
  <2> HIDE DEF step
  <2> QED BY <1>3, <2>1, RecursionExists
<1>5. \A k \in 1 .. n : k - 1 \in 0 .. n /\ f[k - 1] \in Seq(V)
  OBVIOUS
<1>6. Joining(f, strings, n)
  BY <1>4, <1>5 DEF Solves, Joining
<1>7. CASE n = 0
  <2>1. strings = << >> /\ Len(strings) = 0
    BY <1>1, <1>7, EmptySeq
  <2>2. FlattenSeq(strings) = strings
    BY <2>1, Zenon DEF FlattenSeq
  <2> QED BY <1>1, <1>6, <1>7, <2>1, <2>2 DEF Joining
<1>8. CASE n # 0
  <2> DEFINE Is(g) == g = [i \in 1 .. n |-> IF i = 1 THEN strings[i]
                                            ELSE g[i - 1] \o strings[i]]
             flat == CHOOSE g : Is(g)
             tail == [i \in 1 .. n |-> f[i]]
  <2>1. f[1] = strings[1]
    <3>1. 1 \in 1 .. n /\ 1 - 1 = 0
      BY <1>8
    <3>2. f[1] = << >> \o strings[1] /\ strings[1] \in Seq(V)
      BY <1>2, <1>6, <3>1 DEF Joining
    <3> QED BY <3>2
  <2>2. ASSUME NEW i \in 1 .. n
        PROVE  tail[i] = IF i = 1 THEN strings[i]
                                  ELSE tail[i - 1] \o strings[i]
    <3>1. CASE i = 1
      BY <2>1, <3>1
    <3>2. CASE i # 1
      <4>1. i - 1 \in 1 .. n
        BY <3>2
      <4>2. f[i] = f[i - 1] \o strings[i]
        BY <1>6 DEF Joining
      <4> QED BY <3>2, <4>1, <4>2
    <3> QED BY <3>1, <3>2
  <2>3. Is(tail)
    BY <2>2
  <2> HIDE DEF tail
  <2>4. Is(flat)
    BY <2>3
  <2>5. FlattenSeq(strings) = flat[n]
    BY <1>1, <1>8 DEF FlattenSeq
  <2> HIDE DEF flat
  <2> DEFINE S == {k \in 0 .. n : k = 0 \/ flat[k] = f[k]}
  <2>6. 0 \in S
    OBVIOUS
  <2>7. ASSUME NEW k \in 1 .. n, k - 1 \in S PROVE k \in S
    <3>1. flat[k] = IF k = 1 THEN strings[k] ELSE flat[k - 1] \o strings[k]
      BY <2>4
    <3>2. CASE k = 1
      BY <2>1, <3>1, <3>2
    <3>3. CASE k # 1
      <4>1. flat[k - 1] = f[k - 1]
        BY <2>7, <3>3
      <4>2. f[k] = f[k - 1] \o strings[k]
        BY <1>6 DEF Joining
      <4>3. flat[k] = f[k]
        BY <3>1, <3>3, <4>1, <4>2, Zenon
      <4> QED BY <4>3
    <3> QED BY <3>2, <3>3
  <2> HIDE DEF S
  <2>8. 0 .. n \subseteq S
    BY <2>6, <2>7, BoundedInduction
  <2>9. flat[n] = f[n]
    <3>1. n \in S
      BY <2>8
    <3> QED BY <1>8, <3>1 DEF S
  <2> QED BY <1>1, <1>6, <2>5, <2>9
<1> QED BY <1>7, <1>8

-----------------------------------------------------------------------------
(* The encoding of a list of instructions *)

\* Division with remainder.
LEMMA Division ==
  ASSUME NEW b \in Nat \ {0}, NEW n \in Nat
  PROVE  /\ n \div b \in Nat /\ n % b \in 0 .. b - 1
         /\ (n \div b) * b + (n % b) = n
OBVIOUS

\* The larger factor makes the larger product.
LEMMA Product ==
  ASSUME NEW b \in Nat, NEW m \in Nat, NEW n \in Nat, m <= n
  PROVE  m * b \in Nat /\ n * b \in Nat /\ m * b <= n * b
OBVIOUS

\* A number of two digits.
LEMMA TwoDigits ==
  ASSUME NEW b \in Nat \ {0, 1}, NEW n \in 0 .. b * b - 1
  PROVE  /\ n \div b \in 0 .. b - 1 /\ n % b \in 0 .. b - 1
         /\ (n \div b) * b + (n % b) = n
<1>1. PICK q, r : q = n \div b /\ r = n % b
  OBVIOUS
<1>2. n \in Nat /\ b * b \in Nat /\ n < b * b
  BY Product
<1>3. q \in Nat /\ r \in 0 .. b - 1 /\ q * b + r = n
  BY <1>1, <1>2, Division
<1>4. ASSUME b <= q PROVE FALSE
  <2>1. b * b <= q * b /\ q * b \in Nat
    BY <1>3, <1>4, Product
  <2> QED BY <1>2, <1>3, <2>1
<1>5. q \in 0 .. b - 1
  BY <1>3, <1>4
<1> QED BY <1>1, <1>3, <1>5

\* Two digits make such a number.
LEMMA OfTwoDigits ==
  ASSUME NEW b \in Nat \ {0, 1}, NEW high \in 0 .. b - 1,
         NEW low \in 0 .. b - 1
  PROVE  high * b + low \in 0 .. b * b - 1
<1>1. b * b \in Nat /\ high * b \in Nat
  OBVIOUS
<1>2. high * b <= (b - 1) * b
  OBVIOUS
<1>3. (b - 1) * b = b * b - b
  OBVIOUS
<1> QED BY <1>1, <1>2, <1>3

\* What fits a width is not truncated.
LEMMA NotTruncated ==
  ASSUME NEW b \in Nat \ {0}, NEW n \in 0 .. b - 1
  PROVE  n % b = n
OBVIOUS

\* What the parser and the encoder need of the limits.
LEMMA Limits ==
  /\ ByteSize \in Nat \ {0, 1}
  /\ ByteSize * ByteSize \in Nat \ {0}
  /\ uint16Max + 1 = ByteSize * ByteSize
  /\ uint8Max \in Nat
  /\ Byte = 0 .. ByteSize - 1
<1>1. ByteSize \in Nat \ {0, 1}
  BY InstructionsAssumption
<1>2. \A b \in Nat \ {0, 1} : b * b \in Nat \ {0}
  OBVIOUS
<1>3. ByteSize * ByteSize \in Nat \ {0}
  BY <1>1, <1>2
<1> QED BY <1>1, <1>3 DEF uint16Max, uint8Max, Byte

\* An instruction is encoded as its index, two bytes and its payload.
LEMMA EncodingIs ==
  ASSUME NEW i \in Instruction
  PROVE  /\ encodeInstruction(i) \in Seq(Byte)
         /\ Len(encodeInstruction(i)) = 3 + Len(i.payload)
         /\ encodeInstruction(i)[1] = i.index
         /\ \A n \in 1 .. Len(i.payload) :
              encodeInstruction(i)[3 + n] = i.payload[n]
         /\ PayloadFits(i.payload) =>
              /\ encodeInstruction(i)[2] = Len(i.payload) \div ByteSize
              /\ encodeInstruction(i)[3] = Len(i.payload) % ByteSize
              /\ encodeInstruction(i)[2] * ByteSize + encodeInstruction(i)[3]
                   = Len(i.payload)
<1>1. i.index \in Byte /\ i.payload \in Seq(Byte)
  BY DEF Instruction
<1>2. PICK len \in Nat : len = Len(i.payload)
  BY <1>1
<1>3. PICK length : length = len % (ByteSize * ByteSize)
  OBVIOUS
<1>4. length \in 0 .. ByteSize * ByteSize - 1
  BY <1>3, Limits, Division
<1>5. PICK high, low : high = length \div ByteSize /\ low = length % ByteSize
  OBVIOUS
<1>6. high \in Byte /\ low \in Byte /\ high * ByteSize + low = length
  <2>1. ByteSize \in Nat \ {0, 1}
    BY Limits
  <2>2. /\ high \in 0 .. ByteSize - 1 /\ low \in 0 .. ByteSize - 1
        /\ high * ByteSize + low = length
    BY <1>4, <1>5, <2>1, TwoDigits
  <2> QED BY <2>2, Limits
<1>7. PICK head : head = <<i.index, high, low>>
  OBVIOUS
<1>8. /\ head \in Seq(Byte) /\ Len(head) = 3
      /\ head[1] = i.index /\ head[2] = high /\ head[3] = low
  BY <1>1, <1>6, <1>7
<1>9. PICK all : all = head \o i.payload
  OBVIOUS
<1>10. encodeInstruction(i) = all
  BY <1>2, <1>3, <1>5, <1>7, <1>9, Limits DEF encodeInstruction
<1>11. /\ all \in Seq(Byte) /\ Len(all) = 3 + len
       /\ \A k \in 1 .. 3 + len :
            all[k] = IF k <= 3 THEN head[k] ELSE i.payload[k - 3]
  <2>1. PICK tail \in Seq(Byte) : tail = i.payload
    BY <1>1
  <2>2. /\ all \in Seq(Byte) /\ Len(all) = Len(head) + Len(tail)
        /\ \A k \in 1 .. Len(head) + Len(tail) :
             all[k] = IF k <= Len(head) THEN head[k] ELSE tail[k - Len(head)]
    <3>1. head \in Seq(Byte)
      BY <1>8
    <3> QED BY <1>9, <2>1, <3>1, ConcatProperties
  <2> QED BY <1>2, <1>8, <2>1, <2>2
<1>12. all[1] = i.index /\ all[2] = high /\ all[3] = low
  BY <1>2, <1>8, <1>11
<1>13. ASSUME NEW n \in 1 .. len PROVE all[3 + n] = i.payload[n]
  <2>1. 3 + n \in 1 .. 3 + len /\ ~(3 + n <= 3) /\ (3 + n) - 3 = n
    BY <1>2
  <2> QED BY <1>11, <2>1
<1>14. ASSUME PayloadFits(i.payload) PROVE length = len
  <2>1. len \in 0 .. ByteSize * ByteSize - 1
    BY <1>2, <1>14, Limits DEF PayloadFits, uint16Max
  <2> QED BY <1>3, <2>1, NotTruncated, Limits
<1> QED BY <1>2, <1>5, <1>6, <1>10, <1>11, <1>12, <1>13, <1>14

\* The encodings of a list's instructions.
Encodings(list) == [n \in 1 .. Len(list) |-> encodeInstruction(list[n])]

\* They are put together after the count.
Body(list) == FlattenSeq(Encodings(list))

\* Body puts them together from left to right.
LEMMA BodyIs ==
  ASSUME NEW list \in Seq(Instruction)
  PROVE  \E f \in [0 .. Len(list) -> Seq(Byte)] :
           /\ Joining(f, Encodings(list), Len(list))
           /\ Body(list) = f[Len(list)]
<1>1. \A n \in 1 .. Len(list) : encodeInstruction(list[n]) \in Seq(Byte)
  BY EncodingIs
<1>2. Encodings(list) \in Seq(Seq(Byte)) /\ Len(Encodings(list)) = Len(list)
  BY <1>1 DEF Encodings
<1> QED BY <1>2, FlattenIs DEF Body

\* The body of a list that another list begins with is a partial result of
\* the other's.
LEMMA BodyOfPrefix ==
  ASSUME NEW list \in Seq(Instruction), NEW more \in Seq(Instruction),
         Len(list) <= Len(more),
         \A n \in 1 .. Len(list) : list[n] = more[n],
         NEW f, Joining(f, Encodings(more), Len(more))
  PROVE  Body(list) = f[Len(list)]
<1>1. PICK g \in [0 .. Len(list) -> Seq(Byte)] :
        Joining(g, Encodings(list), Len(list)) /\ Body(list) = g[Len(list)]
  BY BodyIs
<1>2. PICK n \in Nat : n = Len(list)
  OBVIOUS
<1>3. \A k \in 1 .. n : k \in 1 .. Len(more)
  BY <1>2
<1>4. Joining(f, Encodings(more), n)
  BY <1>3 DEF Joining
<1>5. \A k \in 1 .. n : Encodings(list)[k] = Encodings(more)[k]
  BY <1>2, <1>3 DEF Encodings
<1>6. Joining(g, Encodings(list), n)
  BY <1>1, <1>2
<1>7. \A k \in 0 .. n : g[k] = f[k]
  BY <1>4, <1>5, <1>6, JoiningAlike
<1> QED BY <1>1, <1>2, <1>7

\* The empty list has no bytes.
LEMMA BodyOfNothing == Body(<< >>) = << >>
<1>1. << >> \in Seq(Instruction) /\ Len(<< >>) = 0
  OBVIOUS
<1>2. PICK f : Joining(f, Encodings(<< >>), 0) /\ Body(<< >>) = f[0]
  BY <1>1, BodyIs
<1> QED BY <1>2 DEF Joining

\* One more instruction adds its encoding.
LEMMA BodyOfAppend ==
  ASSUME NEW list \in Seq(Instruction), NEW i \in Instruction
  PROVE  /\ Body(list) \in Seq(Byte)
         /\ Body(Append(list, i)) = Body(list) \o encodeInstruction(i)
<1>1. PICK more : more = Append(list, i)
  OBVIOUS
<1>2. PICK n \in Nat : n = Len(list)
  OBVIOUS
<1>3. /\ more \in Seq(Instruction) /\ Len(more) = n + 1
      /\ \A k \in 1 .. n : more[k] = list[k]
      /\ more[n + 1] = i
  BY <1>1, <1>2, AppendProperties
<1>4. PICK f \in [0 .. n + 1 -> Seq(Byte)] :
        Joining(f, Encodings(more), n + 1) /\ Body(more) = f[n + 1]
  BY <1>3, BodyIs
<1>5. Body(list) = f[n] /\ f[n] \in Seq(Byte)
  BY <1>2, <1>3, <1>4, BodyOfPrefix
<1>6. f[n + 1] = f[n] \o Encodings(more)[n + 1]
  <2>1. n + 1 \in 1 .. n + 1 /\ (n + 1) - 1 = n
    OBVIOUS
  <2> QED BY <1>4, <2>1 DEF Joining
<1>7. Encodings(more)[n + 1] = encodeInstruction(i)
  BY <1>3 DEF Encodings
<1> QED BY <1>1, <1>4, <1>5, <1>6, <1>7

\* After the body of the first k instructions of a list comes the encoding of
\* the next one.
LEMMA NextEncoding ==
  ASSUME NEW more \in Seq(Instruction), NEW list \in Seq(Instruction),
         Len(list) < Len(more), \A n \in 1 .. Len(list) : list[n] = more[n]
  PROVE  LET enc == encodeInstruction(more[Len(list) + 1]) IN
         /\ Body(list) \in Seq(Byte) /\ Body(more) \in Seq(Byte)
         /\ Has(Body(more), Len(Body(list)), enc)
<1>1. PICK f \in [0 .. Len(more) -> Seq(Byte)] :
        /\ Joining(f, Encodings(more), Len(more))
        /\ Body(more) = f[Len(more)]
  BY BodyIs
<1>2. PICK n \in Nat, k \in Nat : n = Len(more) /\ k = Len(list)
  OBVIOUS
<1>3. /\ k + 1 \in 1 .. n /\ k \in 0 .. n /\ k + 1 \in 0 .. n
      /\ (k + 1) - 1 = k /\ n \in 0 .. n
  BY <1>2
<1>4. Body(list) = f[k]
  <2>1. Len(list) <= Len(more)
    BY <1>2, <1>3
  <2>2. Body(list) = f[Len(list)]
    BY <1>1, <2>1, BodyOfPrefix
  <2> QED BY <1>2, <2>2
<1>5. PICK enc : enc = encodeInstruction(more[k + 1])
  OBVIOUS
<1>6. \A j \in 1 .. n : /\ Encodings(more)[j] = encodeInstruction(more[j])
                        /\ encodeInstruction(more[j]) \in Seq(Byte)
  BY <1>2, EncodingIs DEF Encodings
<1>7. enc \in Seq(Byte)
  BY <1>3, <1>5, <1>6
<1>8. \A j \in 0 .. n : f[j] \in Seq(Byte)
  BY <1>1, <1>2
<1>9. PICK from \in Nat : from = Len(f[k])
  BY <1>3, <1>8
<1> DEFINE S == {j \in 0 .. n : k + 1 <= j => Has(f[j], from, enc)}
<1>10. 0 \in S
  BY <1>2
<1>11. ASSUME NEW j \in 1 .. n, j - 1 \in S PROVE j \in S
  <2>1. PICK s, t, x : s = f[j - 1] /\ t = f[j] /\ x = Encodings(more)[j]
    OBVIOUS
  <2>2. j - 1 \in 0 .. n /\ j \in 0 .. n
    OBVIOUS
  <2>3. s \in Seq(Byte) /\ x \in Seq(Byte)
    BY <1>6, <1>8, <2>1, <2>2
  <2>4. t = s \o x
    BY <1>1, <1>2, <2>1 DEF Joining
  <2>5. CASE j = k + 1
    <3>1. s = f[k] /\ x = enc
      BY <1>3, <1>5, <1>6, <2>1, <2>5
    <3>2. Has(s \o x, Len(s), x)
      BY <2>3, HasLast
    <3> QED BY <1>9, <2>1, <2>2, <2>4, <3>1, <3>2
  <2>6. CASE k + 1 < j
    <3>1. k + 1 <= j - 1
      BY <2>6
    <3>2. Has(s, from, enc)
      BY <1>11, <2>1, <3>1
    <3>3. Has(s \o x, from, enc)
      BY <1>7, <2>3, <3>2, HasEarlier
    <3> QED BY <2>1, <2>2, <2>4, <3>3
  <2>7. CASE j < k + 1
    BY <2>2, <2>7
  <2> QED BY <2>5, <2>6, <2>7
<1> HIDE DEF S
<1>12. 0 .. n \subseteq S
  BY <1>10, <1>11, BoundedInduction
<1>13. Has(f[n], from, enc)
  <2>1. n \in S /\ k + 1 <= n
    BY <1>3, <1>12
  <2> QED BY <2>1 DEF S
<1> QED BY <1>1, <1>2, <1>3, <1>4, <1>5, <1>8, <1>9, <1>13

-----------------------------------------------------------------------------
(* Parsing *)

\* The last instruction under each of n indices.
LastOf(list, n) ==
  [index \in 0 .. n - 1 |->
     LET of == {k \in 1 .. Len(list) : list[k].index = index}
     IN  IF of = {} THEN <<>> ELSE list[Max(of)].payload]

\* A set of positions of a list has a last one.
LEMMA LastPosition ==
  ASSUME NEW n \in Nat, NEW T \in SUBSET (1 .. n), T # {}
  PROVE  Max(T) \in T /\ \A y \in T : y <= Max(T)
<1> DEFINE U == {n - y : y \in T}
<1>1. U \in SUBSET Nat /\ U # {}
  <2>1. \A y \in T : n - y \in Nat
    OBVIOUS
  <2>2. U \in SUBSET Nat
    BY <2>1
  <2> QED BY <2>2
<1>2. PICK u \in U : \A v \in U : u <= v
  <2> HIDE DEF U
  <2> QED BY <1>1, LeastNat
<1>3. PICK x \in T : u = n - x
  OBVIOUS
<1>4. ASSUME NEW y \in T PROVE x >= y
  <2>1. n - y \in U /\ x \in Nat /\ y \in Nat
    OBVIOUS
  <2>2. n - x <= n - y
    BY <1>2, <1>3, <2>1
  <2> QED BY <2>1, <2>2
<1>5. Max(T) \in T /\ \A y \in T : Max(T) >= y
  BY <1>4 DEF Max
<1>6. \A y \in T : y \in Nat
  OBVIOUS
<1> QED BY <1>5, <1>6

\* Storing the payload of one more instruction keeps the last of each index.
LEMMA LastOfAppend ==
  ASSUME NEW n \in Nat, NEW list \in Seq(Instruction), NEW i \in Instruction,
         i.index \in 0 .. n - 1
  PROVE  LastOf(Append(list, i), n)
           = [LastOf(list, n) EXCEPT ![i.index] = i.payload]
<1>1. PICK more : more = Append(list, i)
  OBVIOUS
<1>2. PICK len \in Nat : len = Len(list)
  OBVIOUS
<1>3. /\ Len(more) = len + 1 /\ more[len + 1] = i
      /\ \A k \in 1 .. len : more[k] = list[k]
  BY <1>1, <1>2, AppendProperties
<1> DEFINE At(l, index) == {k \in 1 .. Len(l) : l[k].index = index}
           Wins(l, index) == IF At(l, index) = {} THEN <<>>
                             ELSE l[Max(At(l, index))].payload
<1>4. ASSUME NEW index \in 0 .. n - 1, index # i.index
      PROVE  Wins(more, index) = Wins(list, index)
  <2>1. PICK T : T = At(list, index)
    OBVIOUS
  <2>2. \A k \in 1 .. len + 1 : k \in 1 .. len \/ k = len + 1
    OBVIOUS
  <2>3. At(more, index) = T
    BY <1>2, <1>3, <1>4, <2>1, <2>2
  <2>4. CASE T = {}
    BY <2>1, <2>3, <2>4
  <2>5. CASE T # {}
    <3>1. T \in SUBSET (1 .. len)
      BY <1>2, <2>1
    <3>2. Max(T) \in 1 .. len
      BY <2>5, <3>1, LastPosition
    <3>3. more[Max(T)] = list[Max(T)]
      BY <1>3, <3>2
    <3> QED BY <2>1, <2>3, <3>3
  <2> QED BY <2>4, <2>5
<1>5. Wins(more, i.index) = i.payload
  <2>1. PICK T : T = At(more, i.index)
    OBVIOUS
  <2>2. T \in SUBSET (1 .. len + 1) /\ len + 1 \in T
    BY <1>3, <2>1
  <2>3. Max(T) \in 1 .. len + 1 /\ len + 1 <= Max(T)
    <3>1. len + 1 \in Nat /\ T # {}
      BY <2>2
    <3>2. Max(T) \in T /\ \A y \in T : y <= Max(T)
      BY <2>2, <3>1, LastPosition
    <3> QED BY <2>2, <3>2
  <2>4. Max(T) = len + 1
    BY <2>3
  <2> QED BY <1>3, <2>1, <2>2, <2>4
<1> HIDE DEF Wins
<1>6. /\ LastOf(more, n) = [index \in 0 .. n - 1 |-> Wins(more, index)]
      /\ LastOf(list, n) = [index \in 0 .. n - 1 |-> Wins(list, index)]
  BY DEF LastOf, Wins
<1>7. \A index \in 0 .. n - 1 :
        Wins(more, index) = IF index = i.index THEN i.payload
                                               ELSE Wins(list, index)
  BY <1>4, <1>5
<1>8. LastOf(more, n)
        = [index \in 0 .. n - 1 |-> IF index = i.index THEN i.payload
                                                       ELSE Wins(list, index)]
  BY <1>6, <1>7
<1> QED BY <1>1, <1>6, <1>8

\* The array is empty before the first instruction.
LEMMA LastOfNothing ==
  ASSUME NEW n
  PROVE  LastOf(<< >>, n) = [index \in 0 .. n - 1 |-> << >>]
BY DEF LastOf

\* Two fields that follow each other are one.
LEMMA FieldsJoin ==
  ASSUME NEW S, NEW s \in Seq(S), NEW a \in Nat, NEW b \in Nat,
         a + b <= Len(s)
  PROVE  Field(s, 0, a) \o Field(s, a, b) = Field(s, 0, a + b)
<1>1. 0 + a <= Len(s) /\ a + b \in Nat /\ 0 + (a + b) <= Len(s)
  OBVIOUS
<1>2. PICK x, y, z : /\ x = Field(s, 0, a) /\ y = Field(s, a, b)
                     /\ z = Field(s, 0, a + b)
  OBVIOUS
<1>3. x = [k \in 1 .. a |-> s[0 + k]]
  <2>1. Field(s, 0, a) = [k \in 1 .. a |-> s[0 + k]]
    <3>1. 0 + a <= Len(s) /\ 0 \in Nat
      BY <1>1
    <3> QED BY <3>1, FieldIs
  <2> QED BY <1>2, <2>1
<1>4. y = [k \in 1 .. b |-> s[a + k]]
  BY <1>2, FieldIs
<1>5. z = [k \in 1 .. a + b |-> s[0 + k]]
  <2>1. PICK w \in Nat : w = a + b
    BY <1>1
  <2>2. Field(s, 0, w) = [k \in 1 .. w |-> s[0 + k]]
    <3>1. 0 + w <= Len(s) /\ 0 \in Nat
      BY <2>1
    <3> QED BY <3>1, FieldIs
  <2> QED BY <1>2, <2>1, <2>2
<1>6. \A k \in 1 .. a + b : k \in 1 .. Len(s) /\ 0 + k = k
  OBVIOUS
<1>7. z \in Seq(S) /\ Len(z) = a + b
  BY <1>1, <1>5, <1>6
<1>8. x \in Seq(S) /\ Len(x) = a
  BY <1>3
<1>9. \A k \in 1 .. b : a + k \in 1 .. Len(s)
  OBVIOUS
<1>10. y \in Seq(S) /\ Len(y) = b
  BY <1>4, <1>9
<1>11. PICK t : t = x \o y
  OBVIOUS
<1>12. t \in Seq(S) /\ Len(t) = Len(x) + Len(y)
       /\ \A k \in 1 .. Len(x) + Len(y) :
            t[k] = IF k <= Len(x) THEN x[k] ELSE y[k - Len(x)]
  BY <1>8, <1>10, <1>11, ConcatProperties
<1>13. Len(t) = a + b
  BY <1>8, <1>10, <1>12
<1>14. ASSUME NEW k \in 1 .. a + b PROVE t[k] = z[k]
  <2>1. z[k] = s[k]
    BY <1>5, <1>6
  <2>2. CASE k <= a
    <3>1. k \in 1 .. a
      BY <2>2
    <3> QED BY <1>3, <1>6, <1>8, <1>10, <1>12, <2>1, <2>2, <3>1
  <2>3. CASE ~(k <= a)
    <3>1. k - a \in 1 .. b /\ a + (k - a) = k
      BY <2>3
    <3> QED BY <1>4, <1>8, <1>10, <1>12, <2>1, <2>3, <3>1
  <2> QED BY <2>2, <2>3
<1>15. t = z
  BY <1>7, <1>12, <1>13, <1>14
<1> QED BY <1>2, <1>11, <1>15

\* The bytes from which an instruction is read are its encoding.
LEMMA ReadIsEncoding ==
  ASSUME NEW bytes \in Seq(Byte), NEW from \in Nat, NEW i \in Instruction,
         NEW high \in Byte, NEW low \in Byte,
         Len(i.payload) = high * ByteSize + low,
         from + 3 + Len(i.payload) <= Len(bytes),
         bytes[from + 1] = i.index, bytes[from + 2] = high,
         bytes[from + 3] = low,
         \A n \in 1 .. Len(i.payload) : bytes[from + 3 + n] = i.payload[n]
  PROVE  Field(bytes, from, 3 + Len(i.payload)) = encodeInstruction(i)
<1>1. PICK len \in Nat : len = Len(i.payload)
  BY DEF Instruction
<1>2. /\ len \in 0 .. ByteSize * ByteSize - 1
      /\ len \div ByteSize = high /\ len % ByteSize = low
  <2>1. /\ ByteSize \in Nat \ {0, 1}
        /\ high \in 0 .. ByteSize - 1 /\ low \in 0 .. ByteSize - 1
        /\ high \in Nat
    BY Limits
  <2>2. high * ByteSize + low \in 0 .. ByteSize * ByteSize - 1
    BY <2>1, OfTwoDigits
  <2>3. /\ (high * ByteSize + low) \div ByteSize = high
        /\ (high * ByteSize + low) % ByteSize = low
    BY <2>1, DivMod
  <2> QED BY <1>1, <2>2, <2>3
<1>3. PayloadFits(i.payload)
  BY <1>1, <1>2, Limits DEF PayloadFits, uint16Max
<1>4. PICK enc : enc = encodeInstruction(i)
  OBVIOUS
<1>5. /\ enc \in Seq(Byte) /\ Len(enc) = 3 + len
      /\ enc[1] = i.index /\ enc[2] = high /\ enc[3] = low
      /\ \A n \in 1 .. len : enc[3 + n] = i.payload[n]
  BY <1>1, <1>2, <1>3, <1>4, EncodingIs
<1>6. Field(bytes, from, 3 + len) = [k \in 1 .. 3 + len |-> bytes[from + k]]
  <2>1. PICK w \in Nat : w = 3 + len
    OBVIOUS
  <2>2. from + w <= Len(bytes)
    BY <1>1, <2>1
  <2>3. Field(bytes, from, w) = [k \in 1 .. w |-> bytes[from + k]]
    BY <2>2, FieldIs, Zenon
  <2> QED BY <2>1, <2>3
<1>7. ASSUME NEW k \in 1 .. 3 + len PROVE bytes[from + k] = enc[k]
  <2>1. CASE k \in {1, 2, 3}
    BY <1>5, <2>1
  <2>2. CASE ~(k \in {1, 2, 3})
    <3>1. PICK n \in 1 .. len : k = 3 + n
      <4>1. k - 3 \in 1 .. len /\ k = 3 + (k - 3)
        BY <2>2
      <4> QED BY <4>1
    <3>2. from + k = from + 3 + n
      BY <3>1
    <3> QED BY <1>1, <1>5, <3>1, <3>2
  <2> QED BY <2>1, <2>2
<1>8. enc = [k \in 1 .. 3 + len |-> enc[k]]
  BY <1>5
<1> QED BY <1>1, <1>4, <1>6, <1>7, <1>8

\* The encoding of a list is its count and its body.
LEMMA ListEncoding ==
  ASSUME NEW list \in Seq(Instruction)
  PROVE  /\ Body(list) \in Seq(Byte)
         /\ encodeInstructions(list) = <<Len(list) % ByteSize>> \o Body(list)
         /\ encodeInstructions(list) \in Seq(Byte)
         /\ Len(encodeInstructions(list)) = 1 + Len(Body(list))
         /\ encodeInstructions(list)[1] = Len(list) % ByteSize
         /\ \A k \in 1 .. Len(Body(list)) :
              encodeInstructions(list)[1 + k] = Body(list)[k]
<1>1. PICK body : body = Body(list)
  OBVIOUS
<1>2. body \in Seq(Byte)
  <2>1. PICK f \in [0 .. Len(list) -> Seq(Byte)] : Body(list) = f[Len(list)]
    BY BodyIs
  <2> QED BY <1>1, <2>1
<1>3. PICK count : count = Len(list) % ByteSize
  OBVIOUS
<1>4. count \in Byte
  <2>1. Len(list) \in Nat /\ ByteSize \in Nat \ {0}
    BY Limits
  <2>2. count \in 0 .. ByteSize - 1
    BY <1>3, <2>1, Division
  <2> QED BY <2>2, Limits
<1>5. PICK all : all = <<count>> \o body
  OBVIOUS
<1>6. encodeInstructions(list) = all
  BY <1>1, <1>3, <1>5 DEF encodeInstructions, Body, Encodings
<1>7. <<count>> \in Seq(Byte) /\ Len(<<count>>) = 1 /\ <<count>>[1] = count
  BY <1>4
<1>8. PICK len \in Nat : len = Len(body)
  BY <1>2
<1>9. /\ all \in Seq(Byte) /\ Len(all) = 1 + len
      /\ \A k \in 1 .. 1 + len :
           all[k] = IF k <= 1 THEN <<count>>[k] ELSE body[k - 1]
  <2>1. PICK head : head = <<count>>
    OBVIOUS
  <2>2. head \in Seq(Byte) /\ Len(head) = 1
    BY <1>7, <2>1
  <2>3. /\ all \in Seq(Byte) /\ Len(all) = Len(head) + Len(body)
        /\ \A k \in 1 .. Len(head) + Len(body) :
             all[k] = IF k <= Len(head) THEN head[k] ELSE body[k - Len(head)]
    BY <1>2, <1>5, <2>1, <2>2, ConcatProperties
  <2> QED BY <1>8, <2>1, <2>2, <2>3
<1>10. all[1] = count
  BY <1>7, <1>9
<1>11. ASSUME NEW k \in 1 .. len PROVE all[1 + k] = body[k]
  <2>1. 1 + k \in 1 .. 1 + len /\ ~(1 + k <= 1) /\ (1 + k) - 1 = k
    OBVIOUS
  <2> QED BY <1>9, <2>1
<1> QED BY <1>1, <1>2, <1>3, <1>5, <1>6, <1>8, <1>9, <1>10, <1>11

\* What parseInstructions has read and stored so far: as long as it has not
\* read past the end, the bytes it has read are the count and the encodings of
\* the instructions it has parsed.
ParseInv ==
  /\ numRegisteredAdapters \in Nat
  /\ encoded \in Seq(Byte)
  /\ source = NoList \/ source \in Lists
  /\ total \in Byte
  /\ offset \in Nat
  /\ parsed \in Seq(Instruction)
  /\ AllInBounds(parsed)
  /\ instructions = LastWins(parsed)
  /\ pc = "encode" => source \in Lists
  /\ pc \in {"encode", "parse"} => parsed = << >>
  /\ pc = "loop" =>
       /\ Len(parsed) <= total
       /\ offset <= Len(encoded) =>
            Field(encoded, 0, offset) = <<total>> \o Body(parsed)
  /\ pc = "ok" => /\ encoded = << >> \/ encoded = encodeInstructions(parsed)
                  /\ Len(parsed) <= uint8Max

\* What the unchecked reads may return.
LEMMA ReadsIs ==
  ASSUME encoded \in Seq(Byte), NEW at \in Nat
  PROVE  /\ Reads(at) \subseteq Byte
         /\ at < Len(encoded) => Reads(at) = {encoded[at + 1]}
<1>1. at < Len(encoded) => at + 1 \in 1 .. Len(encoded)
  OBVIOUS
<1> QED BY <1>1 DEF Reads

\* What one turn of the loop reads.
Turn(index, high, low, beyond, i) ==
  /\ index \in Reads(offset) /\ high \in Reads(offset + 1)
  /\ low \in Reads(offset + 2) /\ beyond \in Byte
  /\ i.index = index
  /\ i.payload = [n \in 1 .. high * ByteSize + low |->
                    IF (offset + 3) + n <= Len(encoded)
                    THEN encoded[(offset + 3) + n] ELSE beyond]
  /\ offset' = (offset + 3) + (high * ByteSize + low)

\* It reads an instruction, and stores it if an adapter has its index.
LEMMA TurnIs ==
  ASSUME encoded \in Seq(Byte), offset \in Nat, ParseNext
  PROVE  \E index \in Byte, high \in Byte, low \in Byte, beyond \in Byte,
            i \in Instruction :
           /\ Turn(index, high, low, beyond, i)
           /\ high * ByteSize + low \in Nat
           /\ Len(i.payload) = high * ByteSize + low
           /\ \/ /\ IndexInBounds(index)
                 /\ instructions' = [instructions EXCEPT ![index] = i.payload]
                 /\ parsed' = Append(parsed, i)
                 /\ pc' = pc
              \/ /\ ~IndexInBounds(index)
                 /\ pc' = "revert"
                 /\ instructions' = instructions /\ parsed' = parsed
<1>1. /\ offset + 1 \in Nat /\ offset + 2 \in Nat /\ offset + 3 \in Nat
  OBVIOUS
<1>2. PICK index \in Reads(offset), high \in Reads(offset + 1),
           low \in Reads(offset + 2), beyond \in Byte :
        LET start   == offset + 3
            length  == high * ByteSize + low
            payload == [n \in 1 .. length |->
                          IF start + n <= Len(encoded) THEN encoded[start + n]
                                                       ELSE beyond]
        IN
        /\ offset' = start + length
        /\ \/ /\ IndexInBounds(index)
              /\ instructions' = [instructions EXCEPT ![index] = payload]
              /\ parsed' = Append(parsed,
                                  [index |-> index, payload |-> payload])
              /\ UNCHANGED pc
           \/ /\ ~IndexInBounds(index)
              /\ pc' = "revert"
              /\ UNCHANGED <<instructions, parsed>>
  BY DEF ParseNext
<1>3. index \in Byte /\ high \in Byte /\ low \in Byte
  BY <1>1, <1>2, ReadsIs
<1>4. PICK length : length = high * ByteSize + low
  OBVIOUS
<1>5. length \in Nat
  <2>1. high \in Nat /\ low \in Nat /\ ByteSize \in Nat \ {0}
    BY <1>3, Limits
  <2> QED BY <1>4, <2>1, NatArithmetic
<1>6. PICK payload : payload
        = [n \in 1 .. length |->
             IF (offset + 3) + n <= Len(encoded) THEN encoded[(offset + 3) + n]
                                                 ELSE beyond]
  OBVIOUS
<1>7. payload \in Seq(Byte) /\ Len(payload) = length
  <2>1. \A n \in 1 .. length :
          (offset + 3) + n <= Len(encoded)
            => (offset + 3) + n \in 1 .. Len(encoded)
    BY <1>1
  <2>2. \A n \in 1 .. length :
          (offset + 3) + n <= Len(encoded)
            => encoded[(offset + 3) + n] \in Byte
    BY <2>1
  <2>3. payload \in [1 .. length -> Byte]
    BY <1>6, <2>2
  <2> QED BY <1>5, <2>3
<1>8. PICK i : i = [index |-> index, payload |-> payload]
  OBVIOUS
<1>9. i \in Instruction /\ i.index = index /\ i.payload = payload
  BY <1>3, <1>7, <1>8 DEF Instruction
<1>10. Turn(index, high, low, beyond, i)
  BY <1>2, <1>4, <1>6, <1>9 DEF Turn
<1>11. \/ /\ IndexInBounds(index)
          /\ instructions' = [instructions EXCEPT ![index] = i.payload]
          /\ parsed' = Append(parsed, i)
          /\ pc' = pc
       \/ /\ ~IndexInBounds(index)
          /\ pc' = "revert"
          /\ instructions' = instructions /\ parsed' = parsed
  BY <1>2, <1>4, <1>6, <1>8, <1>9
<1>12. Len(i.payload) = high * ByteSize + low /\ high * ByteSize + low \in Nat
  BY <1>4, <1>5, <1>7, <1>9
<1> QED BY <1>3, <1>9, <1>10, <1>11, <1>12

\* A turn that ends within the input has read the encoding of its instruction.
LEMMA TurnWithin ==
  ASSUME encoded \in Seq(Byte), offset \in Nat,
         NEW index \in Byte, NEW high \in Byte, NEW low \in Byte,
         NEW beyond \in Byte, NEW i \in Instruction,
         Turn(index, high, low, beyond, i),
         NEW length \in Nat, length = high * ByteSize + low,
         Len(i.payload) = length, offset' <= Len(encoded)
  PROVE  /\ Field(encoded, offset, 3 + length) = encodeInstruction(i)
         /\ offset' = offset + (3 + length)
<1>1. offset' = (offset + 3) + length /\ i.index = index
  BY DEF Turn
<1>2. /\ offset < Len(encoded) /\ offset + 1 < Len(encoded)
      /\ offset + 2 < Len(encoded)
      /\ offset + 1 \in Nat /\ offset + 2 \in Nat
      /\ (offset + 1) + 1 = offset + 2 /\ (offset + 2) + 1 = offset + 3
  BY <1>1
<1>3. /\ Reads(offset) = {encoded[offset + 1]}
      /\ Reads(offset + 1) = {encoded[(offset + 1) + 1]}
      /\ Reads(offset + 2) = {encoded[(offset + 2) + 1]}
  BY <1>2, ReadsIs
<1>4. /\ encoded[offset + 1] = i.index /\ encoded[offset + 2] = high
      /\ encoded[offset + 3] = low
  BY <1>1, <1>2, <1>3 DEF Turn
<1>5. i.payload = [n \in 1 .. length |->
                     IF (offset + 3) + n <= Len(encoded)
                     THEN encoded[(offset + 3) + n] ELSE beyond]
  BY DEF Turn
<1>6. \A n \in 1 .. length : (offset + 3) + n <= Len(encoded)
  BY <1>1
<1>7. \A n \in 1 .. length : encoded[offset + 3 + n] = i.payload[n]
  BY <1>5, <1>6
<1>8. offset + 3 + length <= Len(encoded)
  BY <1>1
<1>9. Field(encoded, offset, 3 + Len(i.payload)) = encodeInstruction(i)
  <2>1. Len(i.payload) = high * ByteSize + low
    OBVIOUS
  <2>2. offset + 3 + Len(i.payload) <= Len(encoded)
    BY <1>8
  <2>3. \A n \in 1 .. Len(i.payload) :
          encoded[offset + 3 + n] = i.payload[n]
    BY <1>7
  <2> QED BY <1>4, <2>1, <2>2, <2>3, ReadIsEncoding
<1> QED BY <1>1, <1>9

\* A turn of the loop keeps ParseInv.
LEMMA TurnKeepsParseInv == ParseInv /\ ParseNext => ParseInv'
<1> SUFFICES ASSUME ParseInv, ParseNext PROVE ParseInv'
  OBVIOUS
<1>1. /\ encoded \in Seq(Byte) /\ offset \in Nat /\ parsed \in Seq(Instruction)
      /\ numRegisteredAdapters \in Nat /\ total \in Byte
  BY DEF ParseInv
<1>2. /\ pc = "loop" /\ Len(parsed) < total
      /\ UNCHANGED <<source, encoded, numRegisteredAdapters, total>>
  BY DEF ParseNext
<1>3. PICK index \in Byte, high \in Byte, low \in Byte, beyond \in Byte,
           i \in Instruction :
        /\ Turn(index, high, low, beyond, i)
        /\ high * ByteSize + low \in Nat
        /\ Len(i.payload) = high * ByteSize + low
        /\ \/ /\ IndexInBounds(index)
              /\ instructions' = [instructions EXCEPT ![index] = i.payload]
              /\ parsed' = Append(parsed, i)
              /\ pc' = pc
           \/ /\ ~IndexInBounds(index)
              /\ pc' = "revert"
              /\ instructions' = instructions /\ parsed' = parsed
  BY <1>1, TurnIs
<1>4. PICK length \in Nat : length = high * ByteSize + low
  BY <1>3
<1>5. offset' = (offset + 3) + length /\ i.index = index
  BY <1>3, <1>4 DEF Turn
<1>6. offset' \in Nat
  BY <1>1, <1>5
<1>7. CASE ~IndexInBounds(index)
  <2>1. pc' = "revert" /\ instructions' = instructions /\ parsed' = parsed
    BY <1>3, <1>7
  <2>2. AllInBounds(parsed)' /\ (instructions = LastWins(parsed))'
    BY <1>2, <2>1 DEF ParseInv, AllInBounds, LastWins
  <2> QED BY <1>1, <1>2, <1>6, <2>1, <2>2 DEF ParseInv
<1>8. CASE IndexInBounds(index)
  <2>1. /\ parsed' = Append(parsed, i) /\ pc' = "loop"
        /\ instructions' = [instructions EXCEPT ![i.index] = i.payload]
    BY <1>2, <1>3, <1>5, <1>8
  <2>2. i.index \in 0 .. numRegisteredAdapters - 1
    BY <1>1, <1>5, <1>8, Limits DEF IndexInBounds
  <2>3. PICK len \in Nat : len = Len(parsed)
    BY <1>1
  <2>4. /\ parsed' \in Seq(Instruction) /\ Len(parsed') = len + 1
        /\ \A n \in 1 .. len : parsed'[n] = parsed[n]
        /\ parsed'[len + 1] = i
    BY <1>1, <2>1, <2>3, AppendProperties
  <2>5. AllInBounds(parsed)'
    <3>1. ASSUME NEW n \in 1 .. len + 1
          PROVE  parsed'[n].index < numRegisteredAdapters
      <4>1. CASE n = len + 1
        <5>1. i.index < numRegisteredAdapters
          BY <1>1, <2>2
        <5> QED BY <2>4, <4>1, <5>1
      <4>2. CASE n \in 1 .. len
        BY <2>3, <2>4, <4>2 DEF ParseInv, AllInBounds
      <4> QED BY <4>1, <4>2
    <3> QED BY <1>2, <2>4, <3>1 DEF AllInBounds
  <2>6. (instructions = LastWins(parsed))'
    <3>1. instructions = LastOf(parsed, numRegisteredAdapters)
      BY DEF ParseInv, LastWins, LastOf
    <3>2. instructions' = LastOf(parsed', numRegisteredAdapters)
      BY <1>1, <2>1, <2>2, <3>1, LastOfAppend
    <3> QED BY <1>2, <3>2 DEF LastWins, LastOf
  <2>7. Len(parsed') <= total
    BY <1>1, <1>2, <2>3, <2>4, Limits
  <2>8. ASSUME offset' <= Len(encoded)
        PROVE  Field(encoded, 0, offset') = <<total>> \o Body(parsed')
    <3>1. PICK enc : enc = encodeInstruction(i)
      OBVIOUS
    <3>2. Field(encoded, offset, 3 + length) = enc
      BY <1>1, <1>3, <1>4, <2>8, <3>1, TurnWithin
    <3>3. PICK w \in Nat : w = 3 + length
      OBVIOUS
    <3>4. offset' = offset + w /\ offset + w <= Len(encoded)
            /\ offset <= Len(encoded)
      BY <1>1, <1>5, <2>8, <3>3
    <3>5. Field(encoded, 0, offset) \o Field(encoded, offset, w)
            = Field(encoded, 0, offset + w)
      BY <1>1, <3>4, FieldsJoin
    <3>6. Field(encoded, 0, offset) = <<total>> \o Body(parsed)
      BY <1>2, <3>4 DEF ParseInv
    <3>7. Body(parsed) \in Seq(Byte) /\ Body(parsed') = Body(parsed) \o enc
      BY <1>1, <2>1, <3>1, BodyOfAppend
    <3>8. <<total>> \in Seq(Byte) /\ enc \in Seq(Byte)
      BY <1>1, <3>1, EncodingIs
    <3>9. (<<total>> \o Body(parsed)) \o enc
            = <<total>> \o (Body(parsed) \o enc)
      BY <3>7, <3>8, ConcatAssociative
    <3>10. Field(encoded, 0, offset') = (<<total>> \o Body(parsed)) \o enc
      BY <3>2, <3>3, <3>4, <3>5, <3>6, Zenon
    <3> QED BY <3>7, <3>9, <3>10, Zenon
  <2>9. (pc = "loop" =>
           /\ Len(parsed) <= total
           /\ offset <= Len(encoded) =>
                Field(encoded, 0, offset) = <<total>> \o Body(parsed))'
    BY <1>2, <2>7, <2>8
  <2> QED BY <1>1, <1>2, <1>6, <2>1, <2>4, <2>5, <2>6, <2>9 DEF ParseInv
<1> QED BY <1>7, <1>8

\* ParseInv is an invariant.
LEMMA ParseInvariant == InstructionsSpec => []ParseInv
<1>1. InstructionsInit => ParseInv
  <2> SUFFICES ASSUME InstructionsInit PROVE ParseInv
    OBVIOUS
  <2>1. numRegisteredAdapters \in Nat /\ total \in Byte /\ offset \in Nat
    BY Limits, InstructionsAssumption DEF InstructionsInit
  <2>2. encoded \in Seq(Byte)
    <3>1. CASE source = NoList /\ pc = "parse"
      <4>1. PICK len \in 0 .. MaxLen : encoded \in [1 .. len -> Byte]
        BY <3>1 DEF InstructionsInit
      <4> QED BY <4>1, InstructionsAssumption
    <3>2. CASE encoded = <<>>
      BY <3>2
    <3> QED BY <3>1, <3>2 DEF InstructionsInit
  <2>3. parsed = << >> /\ parsed \in Seq(Instruction) /\ AllInBounds(parsed)
    BY DEF InstructionsInit, AllInBounds
  <2>4. instructions = LastWins(parsed)
    <3>1. instructions = LastOf(parsed, numRegisteredAdapters)
      BY <2>3, LastOfNothing DEF InstructionsInit, Empty
    <3> QED BY <3>1 DEF LastWins, LastOf
  <2>5. /\ source = NoList \/ source \in Lists
        /\ pc \in {"encode", "parse"} /\ (pc = "encode" => source \in Lists)
    BY DEF InstructionsInit
  <2> QED BY <2>1, <2>2, <2>3, <2>4, <2>5 DEF ParseInv
<1>2. ParseInv /\ [InstructionsNext]_instructionVars => ParseInv'
  <2> SUFFICES ASSUME ParseInv, [InstructionsNext]_instructionVars
               PROVE  ParseInv'
    OBVIOUS
  <2>1. CASE Encode
    <3>1. /\ UNCHANGED <<source, numRegisteredAdapters, instructions, total,
                         offset, parsed>>
          /\ pc = "encode" /\ pc' \in {"parse", "revert"}
          /\ encoded' \in {encoded, encodeInstructions(source)}
      BY <2>1 DEF Encode
    <3>2. encoded' \in Seq(Byte)
      <4>1. source \in Seq(Instruction)
        BY <3>1, ListsAssumption DEF ParseInv
      <4>2. encodeInstructions(source) \in Seq(Byte)
        BY <4>1, ListEncoding
      <4> QED BY <3>1, <4>2 DEF ParseInv
    <3>3. AllInBounds(parsed)' /\ (instructions = LastWins(parsed))'
      BY <3>1 DEF ParseInv, AllInBounds, LastWins
    <3> QED BY <3>1, <3>2, <3>3 DEF ParseInv
  <2>2. CASE parseInstructions
    <3>1. /\ UNCHANGED <<source, encoded, numRegisteredAdapters, instructions,
                         parsed>>
          /\ pc = "parse" /\ parsed = << >>
      BY <2>2 DEF parseInstructions, ParseInv
    <3>2. AllInBounds(parsed)' /\ (instructions = LastWins(parsed))'
      BY <3>1 DEF ParseInv, AllInBounds, LastWins
    <3>3. CASE encoded = <<>> /\ pc' = "ok" /\ UNCHANGED <<total, offset>>
      <4>1. Len(parsed') <= uint8Max
        BY <3>1, Limits
      <4> QED BY <3>1, <3>2, <3>3, <4>1 DEF ParseInv
    <3>4. CASE /\ encoded # <<>> /\ pc' = "loop"
               /\ total' \in Reads(0) /\ offset' = 1
      <4>1. encoded \in Seq(Byte) /\ Len(encoded) \in Nat /\ Len(encoded) >= 1
        BY <3>4 DEF ParseInv
      <4>2. Reads(0) = {encoded[1]} /\ encoded[1] \in Byte
        <5>1. 0 < Len(encoded) /\ 0 + 1 = 1 /\ 1 \in 1 .. Len(encoded)
          BY <4>1
        <5> QED BY <4>1, <5>1, ReadsIs
      <4>3. total' = encoded[1] /\ total' \in Byte
        BY <3>4, <4>2
      <4>4. Field(encoded, 0, 1) = <<total'>>
        <5>1. Field(encoded, 0, 1) = [k \in 1 .. 1 |-> encoded[0 + k]]
          <6>1. PICK at \in Nat, w \in Nat : at = 0 /\ w = 1
            OBVIOUS
          <6>2. at + w <= Len(encoded)
            BY <4>1, <6>1
          <6>3. Field(encoded, at, w) = [k \in 1 .. w |-> encoded[at + k]]
            <7>1. encoded \in Seq(Byte)
              BY <4>1
            <7> QED BY <6>2, <7>1, FieldIs
          <6> QED BY <6>1, <6>3
        <5>2. [k \in 1 .. 1 |-> encoded[0 + k]] = <<encoded[1]>>
          OBVIOUS
        <5> QED BY <4>3, <5>1, <5>2
      <4>5. <<total'>> \o Body(parsed') = <<total'>>
        <5>1. Body(parsed') = << >>
          BY <3>1, BodyOfNothing
        <5>2. <<total'>> \o << >> = <<total'>>
          BY <4>3
        <5> QED BY <5>1, <5>2
      <4>6. Len(parsed') <= total'
        BY <3>1, <4>3, Limits
      <4>7. (pc = "loop" =>
               /\ Len(parsed) <= total
               /\ offset <= Len(encoded) =>
                    Field(encoded, 0, offset) = <<total>> \o Body(parsed))'
        BY <3>1, <3>4, <4>4, <4>5, <4>6
      <4> QED BY <3>1, <3>2, <3>4, <4>3, <4>7 DEF ParseInv
    <3> QED BY <2>2, <3>3, <3>4 DEF parseInstructions
  <2>3. CASE ParseNext
    BY <2>3, TurnKeepsParseInv
  <2>4. CASE Finish
    <3>1. /\ UNCHANGED <<source, encoded, numRegisteredAdapters, instructions,
                         total, offset, parsed>>
          /\ pc = "loop" /\ pc' \in {"ok", "revert"}
          /\ Len(parsed) = total
          /\ pc' = "ok" => offset = Len(encoded)
      BY <2>4 DEF Finish, checkLength
    <3>2. AllInBounds(parsed)' /\ (instructions = LastWins(parsed))'
      BY <3>1 DEF ParseInv, AllInBounds, LastWins
    <3>3. ASSUME pc' = "ok"
          PROVE  /\ encoded = encodeInstructions(parsed)
                 /\ Len(parsed) <= uint8Max
      <4>1. /\ encoded \in Seq(Byte) /\ parsed \in Seq(Instruction)
            /\ offset = Len(encoded) /\ total \in Byte
        BY <3>1, <3>3 DEF ParseInv
      <4>2. Field(encoded, 0, offset) = <<total>> \o Body(parsed)
        BY <3>1, <4>1 DEF ParseInv
      <4>3. Field(encoded, 0, offset) = encoded
        BY <4>1 DEF Field
      <4>4. total % ByteSize = total
        <5>1. ByteSize \in Nat \ {0} /\ total \in 0 .. ByteSize - 1
          BY <4>1, Limits
        <5> QED BY <5>1, NotTruncated
      <4>5. encodeInstructions(parsed) = <<Len(parsed) % ByteSize>>
                                           \o Body(parsed)
        BY <4>1, ListEncoding
      <4>6. Len(parsed) <= uint8Max
        BY <3>1, <4>1 DEF Byte
      <4>7. encoded = encodeInstructions(parsed)
        BY <3>1, <4>2, <4>3, <4>4, <4>5, Zenon
      <4> QED BY <4>6, <4>7
    <3>4. (pc = "ok" => /\ encoded = << >> \/ encoded
                                               = encodeInstructions(parsed)
                        /\ Len(parsed) <= uint8Max)'
      <4> HIDE DEF encodeInstructions
      <4>1. pc' = "ok" => /\ encoded' = encodeInstructions(parsed')
                          /\ Len(parsed') <= uint8Max
        BY <3>1, <3>3
      <4> QED BY <4>1
    <3> QED BY <3>1, <3>2, <3>4 DEF ParseInv
  <2>5. CASE UNCHANGED instructionVars
    <3>1. UNCHANGED <<source, encoded, numRegisteredAdapters, instructions,
                      total, offset, pc, parsed>>
      BY <2>5 DEF instructionVars
    <3>2. AllInBounds(parsed)' /\ (instructions = LastWins(parsed))'
      BY <3>1 DEF ParseInv, AllInBounds, LastWins
    <3> QED BY <3>1, <3>2 DEF ParseInv
  <2> QED BY <2>1, <2>2, <2>3, <2>4, <2>5 DEF InstructionsNext
<1> QED BY <1>1, <1>2, PTL DEF InstructionsSpec

\* For bytes of any size, inputs of any length and any number of adapters:
\* although parseInstructions reads without bounds checks, what it accepts is
\* byte for byte the encoding of the instructions it stored, all of them for
\* registered adapters, the last of each index in the array.
THEOREM AcceptedIsAnEncoding == InstructionsSpec => []AcceptedIsWellFormed
<1>1. ParseInv => AcceptedIsWellFormed
  BY DEF ParseInv, AcceptedIsWellFormed
<1> QED BY <1>1, ParseInvariant, PTL

\* Two lists agree as far as the first goes.
Begins(list, more) ==
  Len(list) <= Len(more) /\ \A n \in 1 .. Len(list) : list[n] = more[n]

\* The parser follows the list that was encoded.
RoundInv ==
  source # NoList =>
    /\ pc = "encode" => encoded = << >>
    /\ pc \in {"parse", "loop"} => /\ Encodable(source)
                                   /\ encoded = encodeInstructions(source)
    /\ pc = "loop" => /\ total = Len(source)
                      /\ Begins(parsed, source)
                      /\ offset = 1 + Len(Body(parsed))
    /\ pc = "ok" => parsed = source
    /\ pc = "revert" /\ encoded # << >> => ~AllInBounds(source)

\* The parser reads the next instruction of the list that was encoded.
LEMMA TurnFollows ==
  ASSUME encoded \in Seq(Byte), offset \in Nat,
         NEW list \in Seq(Instruction), NEW more \in Seq(Instruction),
         Begins(list, more), Len(list) < Len(more), Encodable(more),
         encoded = encodeInstructions(more), offset = 1 + Len(Body(list)),
         NEW index \in Byte, NEW high \in Byte, NEW low \in Byte,
         NEW beyond \in Byte, NEW i \in Instruction,
         Turn(index, high, low, beyond, i)
  PROVE  /\ i = more[Len(list) + 1]
         /\ offset' = 1 + Len(Body(Append(list, i)))
<1>1. PICK k \in Nat : k = Len(list)
  OBVIOUS
<1>2. k + 1 \in 1 .. Len(more)
  BY <1>1
<1>3. PICK j \in Instruction : j = more[k + 1]
  BY <1>2
<1>4. PayloadFits(j.payload)
  BY <1>2, <1>3 DEF Encodable
<1>5. PICK len \in Nat : len = Len(j.payload)
  BY DEF Instruction
<1>6. PICK enc : enc = encodeInstruction(j)
  OBVIOUS
<1>7. /\ enc \in Seq(Byte) /\ Len(enc) = 3 + len /\ enc[1] = j.index
      /\ \A n \in 1 .. len : enc[3 + n] = j.payload[n]
      /\ enc[2] * ByteSize + enc[3] = len
  BY <1>4, <1>5, <1>6, EncodingIs
<1>8. PICK body, front : body = Body(more) /\ front = Body(list)
  OBVIOUS
<1>9. /\ front \in Seq(Byte) /\ body \in Seq(Byte)
      /\ Has(body, Len(front), enc)
  BY <1>1, <1>3, <1>6, <1>8, NextEncoding DEF Begins
<1>10. PICK from \in Nat, whole \in Nat :
         from = Len(front) /\ whole = Len(body)
  BY <1>9
<1>11. ASSUME NEW n \in 1 .. 3 + len
       PROVE  body[from + n] = enc[n] /\ from + n \in 1 .. whole
  <2>1. Has(body, from, enc) /\ n \in 1 .. Len(enc)
    BY <1>7, <1>9, <1>10
  <2>2. body \in Seq(Byte) /\ enc \in Seq(Byte)
    BY <1>7, <1>9
  <2>3. body[from + n] = enc[n] /\ from + n \in 1 .. Len(body)
    <3> HIDE DEF Has
    <3> QED BY <2>1, <2>2, HasByte, Zenon
  <2> QED BY <1>10, <2>3
<1>12. /\ Len(encoded) = 1 + whole
       /\ \A n \in 1 .. whole : encoded[1 + n] = body[n]
  BY <1>8, <1>10, ListEncoding
<1>13. offset = 1 + from
  BY <1>8, <1>10
<1>14. ASSUME NEW n \in 1 .. 3 + len
       PROVE  encoded[offset + n] = enc[n] /\ offset + n <= Len(encoded)
  <2>1. PICK at \in 1 .. whole : at = from + n
    BY <1>11
  <2>2. body[at] = enc[n]
    BY <1>11, <2>1
  <2>3. 1 + at = offset + n
    BY <1>13, <2>1
  <2>4. 1 + at <= 1 + whole
    OBVIOUS
  <2>5. encoded[1 + at] = body[at]
    BY <1>12
  <2> QED BY <1>12, <2>2, <2>3, <2>4, <2>5
<1>15. index = enc[1] /\ high = enc[2] /\ low = enc[3]
  <2>1. 1 \in 1 .. 3 + len /\ 2 \in 1 .. 3 + len /\ 3 \in 1 .. 3 + len
    OBVIOUS
  <2>2. /\ offset + 1 <= Len(encoded) /\ encoded[offset + 1] = enc[1]
        /\ offset + 2 <= Len(encoded) /\ encoded[offset + 2] = enc[2]
        /\ offset + 3 <= Len(encoded) /\ encoded[offset + 3] = enc[3]
    BY <1>14, <2>1
  <2>3. /\ offset < Len(encoded) /\ offset + 1 < Len(encoded)
        /\ offset + 2 < Len(encoded)
        /\ offset + 1 \in Nat /\ offset + 2 \in Nat
        /\ (offset + 1) + 1 = offset + 2 /\ (offset + 2) + 1 = offset + 3
    BY <2>2
  <2>4. /\ Reads(offset) = {encoded[offset + 1]}
        /\ Reads(offset + 1) = {encoded[(offset + 1) + 1]}
        /\ Reads(offset + 2) = {encoded[(offset + 2) + 1]}
    BY <2>3, ReadsIs
  <2> QED BY <2>2, <2>3, <2>4 DEF Turn
<1>16. high * ByteSize + low = len
  BY <1>7, <1>15
<1>17. i.payload = [n \in 1 .. len |->
                      IF (offset + 3) + n <= Len(encoded)
                      THEN encoded[(offset + 3) + n] ELSE beyond]
  BY <1>16 DEF Turn
<1>18. ASSUME NEW n \in 1 .. len
       PROVE  /\ (offset + 3) + n <= Len(encoded)
              /\ encoded[(offset + 3) + n] = j.payload[n]
  <2>1. 3 + n \in 1 .. 3 + len /\ offset + (3 + n) = (offset + 3) + n
    OBVIOUS
  <2> QED BY <1>7, <1>14, <2>1
<1>19. j.payload = [n \in 1 .. len |-> j.payload[n]]
  BY <1>5 DEF Instruction
<1>20. i.payload = j.payload
  BY <1>17, <1>18, <1>19
<1>21. i.index = j.index
  BY <1>7, <1>15 DEF Turn
<1>22. i = j
  <2>1. /\ i = [index |-> i.index, payload |-> i.payload]
        /\ j = [index |-> j.index, payload |-> j.payload]
    BY DEF Instruction
  <2> QED BY <1>20, <1>21, <2>1
<1>23. Len(Body(Append(list, i))) = from + (3 + len)
  <2>1. Body(Append(list, i)) = front \o enc
    BY <1>6, <1>8, <1>22, BodyOfAppend
  <2>2. Len(front \o enc) = Len(front) + Len(enc)
    BY <1>7, <1>9, ConcatIs
  <2> QED BY <1>7, <1>10, <2>1, <2>2
<1>24. offset' = (offset + 3) + len
  BY <1>16 DEF Turn
<1> QED BY <1>1, <1>3, <1>13, <1>22, <1>23, <1>24

\* A turn of the loop keeps RoundInv.
LEMMA TurnKeepsRoundInv == ParseInv /\ RoundInv /\ ParseNext => RoundInv'
<1> SUFFICES ASSUME ParseInv, RoundInv, ParseNext, source' # NoList
             PROVE  RoundInv'
  BY DEF RoundInv
<1>1. /\ encoded \in Seq(Byte) /\ offset \in Nat /\ parsed \in Seq(Instruction)
      /\ numRegisteredAdapters \in Nat
  BY DEF ParseInv
<1>2. /\ pc = "loop" /\ Len(parsed) < total
      /\ UNCHANGED <<source, encoded, numRegisteredAdapters, total>>
  BY DEF ParseNext
<1>3. source \in Seq(Instruction)
  BY <1>2, ListsAssumption DEF ParseInv
<1>4. /\ Encodable(source) /\ encoded = encodeInstructions(source)
      /\ total = Len(source) /\ Begins(parsed, source)
      /\ offset = 1 + Len(Body(parsed))
  BY <1>2 DEF RoundInv
<1>5. PICK index \in Byte, high \in Byte, low \in Byte, beyond \in Byte,
           i \in Instruction :
        /\ Turn(index, high, low, beyond, i)
        /\ \/ IndexInBounds(index) /\ parsed' = Append(parsed, i) /\ pc' = pc
           \/ ~IndexInBounds(index) /\ pc' = "revert"
  BY <1>1, TurnIs
<1>6. PICK k \in Nat : k = Len(parsed)
  BY <1>1
<1>7. i = source[k + 1] /\ offset' = 1 + Len(Body(Append(parsed, i)))
  <2>1. Len(parsed) < Len(source)
    BY <1>2, <1>4
  <2> QED BY <1>1, <1>3, <1>4, <1>5, <1>6, <2>1, TurnFollows
<1>8. k + 1 \in 1 .. Len(source) /\ Len(source) \in Nat
  BY <1>2, <1>3, <1>4, <1>6
<1>9. i.index = index
  BY <1>5 DEF Turn
<1>10. CASE IndexInBounds(index)
  <2>1. parsed' = Append(parsed, i) /\ pc' = "loop"
    BY <1>2, <1>5, <1>10
  <2>2. /\ Len(parsed') = k + 1 /\ parsed'[k + 1] = i
        /\ \A n \in 1 .. k : parsed'[n] = parsed[n]
    BY <1>1, <1>6, <2>1, AppendProperties
  <2>3. Begins(parsed, source)'
    <3>1. \A n \in 1 .. k : parsed[n] = source[n]
      BY <1>4, <1>6 DEF Begins
    <3>2. \A n \in 1 .. k + 1 : n \in 1 .. k \/ n = k + 1
      OBVIOUS
    <3>3. \A n \in 1 .. k + 1 : parsed'[n] = source[n]
      BY <1>7, <2>2, <3>1, <3>2
    <3>4. k + 1 <= Len(source)
      BY <1>8
    <3> QED BY <1>2, <2>2, <3>3, <3>4 DEF Begins
  <2>4. offset' = 1 + Len(Body(parsed'))
    BY <1>7, <2>1
  <2>5. (Encodable(source) /\ encoded = encodeInstructions(source))'
    <3>1. source' = source /\ encoded' = encoded
      BY <1>2
    <3>2. Encodable(source') /\ encoded' = encodeInstructions(source')
      BY <1>4, <3>1, Zenon
    <3> QED BY <3>2
  <2> QED BY <1>2, <1>4, <2>1, <2>3, <2>4, <2>5 DEF RoundInv
<1>11. CASE ~IndexInBounds(index)
  <2>1. pc' = "revert"
    BY <1>5, <1>11
  <2>2. ~(source[k + 1].index < numRegisteredAdapters)
    BY <1>7, <1>9, <1>11 DEF IndexInBounds
  <2>3. ~AllInBounds(source)'
    BY <1>2, <1>8, <2>2 DEF AllInBounds
  <2> QED BY <2>1, <2>3 DEF RoundInv
<1> QED BY <1>10, <1>11

\* RoundInv is an invariant.
LEMMA RoundInvariant == InstructionsSpec => []RoundInv
<1>1. InstructionsInit => RoundInv
  BY DEF InstructionsInit, RoundInv
<1>2. ParseInv /\ RoundInv /\ [InstructionsNext]_instructionVars => RoundInv'
  <2> SUFFICES ASSUME ParseInv, RoundInv, [InstructionsNext]_instructionVars,
                      source' # NoList
               PROVE  RoundInv'
    BY DEF RoundInv
  <2>1. source' = source /\ numRegisteredAdapters' = numRegisteredAdapters
    BY DEF InstructionsNext, Encode, parseInstructions, ParseNext, Finish,
           instructionVars
  <2>2. source \in Seq(Instruction) /\ parsed \in Seq(Instruction)
    BY <2>1, ListsAssumption DEF ParseInv
  <2>3. CASE Encode
    <3>1. CASE pc' = "parse"
      <4>1. Encodable(source) /\ encoded' = encodeInstructions(source)
        BY <2>3, <3>1 DEF Encode
      <4>2. (Encodable(source) /\ encoded = encodeInstructions(source))'
        <5>1. Encodable(source') /\ encoded' = encodeInstructions(source')
          BY <2>1, <4>1, Zenon
        <5> QED BY <5>1
      <4> QED BY <3>1, <4>2 DEF RoundInv
    <3>2. CASE pc' = "revert"
      <4>1. encoded' = << >>
        BY <2>1, <2>3, <3>2 DEF Encode, RoundInv
      <4> QED BY <3>2, <4>1 DEF RoundInv
    <3> QED BY <2>3, <3>1, <3>2 DEF Encode
  <2>4. CASE parseInstructions
    <3>1. /\ pc = "parse" /\ encoded' = encoded /\ parsed' = parsed
          /\ parsed = << >>
      BY <2>4 DEF parseInstructions, ParseInv
    <3>2. Encodable(source) /\ encoded = encodeInstructions(source)
      BY <2>1, <3>1 DEF RoundInv
    <3>3. /\ encoded \in Seq(Byte) /\ encoded # << >>
          /\ encoded[1] = Len(source) % ByteSize /\ 0 < Len(encoded)
      <4>1. /\ encoded \in Seq(Byte) /\ Body(source) \in Seq(Byte)
            /\ Len(encoded) = 1 + Len(Body(source))
            /\ encoded[1] = Len(source) % ByteSize
        BY <2>2, <3>2, ListEncoding
      <4>2. Len(encoded) > 0
        BY <4>1
      <4> QED BY <4>1, <4>2
    <3>4. pc' = "loop" /\ total' \in Reads(0) /\ offset' = 1
      BY <2>4, <3>3 DEF parseInstructions
    <3>5. Len(source) % ByteSize = Len(source)
      <4>1. Len(source) \in 0 .. ByteSize - 1 /\ ByteSize \in Nat \ {0}
        BY <2>2, <3>2, Limits DEF Encodable, CountFits, uint8Max
      <4> QED BY <4>1, NotTruncated
    <3>6. total' = Len(source)
      <4>1. 0 \in Nat /\ 0 + 1 = 1
        OBVIOUS
      <4>2. Reads(0) = {encoded[0 + 1]}
        BY <3>3, <4>1, ReadsIs
      <4> QED BY <3>3, <3>4, <3>5, <4>1, <4>2
    <3>7. Begins(parsed, source)'
      BY <2>1, <2>2, <3>1 DEF Begins
    <3>8. offset' = 1 + Len(Body(parsed'))
      <4>1. Body(parsed') = << >>
        BY <3>1, BodyOfNothing
      <4> QED BY <3>4, <4>1
    <3>9. (Encodable(source) /\ encoded = encodeInstructions(source))'
      <4>1. Encodable(source') /\ encoded' = encodeInstructions(source')
        BY <2>1, <3>1, <3>2, Zenon
      <4> QED BY <4>1
    <3> QED BY <2>1, <3>4, <3>6, <3>7, <3>8, <3>9 DEF RoundInv
  <2>5. CASE ParseNext
    BY <2>5, TurnKeepsRoundInv
  <2>6. CASE Finish
    <3>1. /\ pc = "loop" /\ Len(parsed) = total
          /\ encoded' = encoded /\ parsed' = parsed
          /\ pc' = IF offset = Len(encoded) THEN "ok" ELSE "revert"
      BY <2>6 DEF Finish, checkLength
    <3>2. /\ encoded = encodeInstructions(source) /\ total = Len(source)
          /\ Begins(parsed, source) /\ offset = 1 + Len(Body(parsed))
      BY <2>1, <3>1 DEF RoundInv
    <3>3. parsed = source
      BY <2>2, <3>1, <3>2, SeqEqual DEF Begins
    <3>4. offset = Len(encoded)
      BY <2>2, <3>2, <3>3, ListEncoding
    <3>5. pc' = "ok" /\ parsed' = source'
      BY <2>1, <3>1, <3>3, <3>4
    <3> QED BY <3>5 DEF RoundInv
  <2>7. CASE UNCHANGED instructionVars
    BY <2>7 DEF instructionVars, RoundInv, Begins, Encodable, AllInBounds
  <2> QED BY <2>3, <2>4, <2>5, <2>6, <2>7 DEF InstructionsNext
<1> QED BY <1>1, <1>2, ParseInvariant, PTL DEF InstructionsSpec

\* For bytes of any size and any list of instructions that encodeInstructions
\* accepts: parseInstructions stores what each adapter should get, and reverts
\* only because of an index of no adapter.
THEOREM EncodedIsParsedBack == InstructionsSpec => []RoundTrip
<1>1. ParseInv /\ RoundInv => RoundTrip
  <2> SUFFICES ASSUME ParseInv, RoundInv, source # NoList
               PROVE  /\ pc = "ok" => instructions = LastWins(source)
                      /\ pc = "revert" /\ encoded # <<>>
                           => ~AllInBounds(source)
    BY DEF RoundTrip
  <2>1. pc = "ok" => instructions = LastWins(source)
    BY DEF ParseInv, RoundInv
  <2>2. pc = "revert" /\ encoded # <<>> => ~AllInBounds(source)
    BY DEF RoundInv
  <2> QED BY <2>1, <2>2
<1> QED BY <1>1, ParseInvariant, RoundInvariant, PTL

=============================================================================
