------------------------- MODULE ServoProtocolProofs -------------------------
(***************************************************************************)
(* What the driver's checksum does for every packet: it passes every       *)
(* packet as encoded, and none that was damaged in eight consecutive bits  *)
(* or fewer.                                                               *)
(***************************************************************************)
EXTENDS ServoProtocol, SequenceTheorems, WellFoundedInduction, TLAPS

Bit == {0, 1}

OctetOf(s) == \A k \in 1..8 : s[k] \in Bit

-----------------------------------------------------------------------------
(* Bytes and their bits.                                                   *)

LEMMA BitsAreBits ==
    ASSUME NEW b \in Byte
    PROVE  Bits(b) \in [1..8 -> Bit]
  BY DEF Bits, Byte, Bit

LEMMA BitsOfFromBits ==
    ASSUME NEW s \in [1..8 -> Bit]
    PROVE  FromBits(s) \in Byte /\ Bits(FromBits(s)) = s
<1> DEFINE n == FromBits(s)
<1>1. s[1] \in Bit /\ s[2] \in Bit /\ s[3] \in Bit /\ s[4] \in Bit
      /\ s[5] \in Bit /\ s[6] \in Bit /\ s[7] \in Bit /\ s[8] \in Bit
  OBVIOUS
<1>2. n = 128 * s[1] + 64 * s[2] + 32 * s[3] + 16 * s[4] + 8 * s[5] + 4 * s[6] + 2 * s[7] + s[8]
  BY DEF FromBits
<1> HIDE DEF n
<1>3. n \in Byte
  BY <1>1, <1>2 DEF Bit, Byte
<1>4. (n \div 128) % 2 = s[1] /\ (n \div 64) % 2 = s[2]
      /\ (n \div 32) % 2 = s[3] /\ (n \div 16) % 2 = s[4]
  <2> DEFINE low == 8 * s[5] + 4 * s[6] + 2 * s[7] + s[8]
             high == 8 * s[1] + 4 * s[2] + 2 * s[3] + s[4]
  <2>1. low \in 0..15 /\ high \in 0..15 /\ n = 16 * high + low
    BY <1>1, <1>2 DEF Bit
  <2>2. high = 8 * s[1] + 4 * s[2] + 2 * s[3] + s[4]
    OBVIOUS
  <2> HIDE DEF low, high
  <2>3. /\ n \div 128 = high \div 8 /\ n \div 64 = high \div 4
        /\ n \div 32 = high \div 2 /\ n \div 16 = high
    BY <2>1
  <2>4. (high \div 8) % 2 = s[1] /\ (high \div 4) % 2 = s[2]
        /\ (high \div 2) % 2 = s[3] /\ high % 2 = s[4]
    BY <1>1, <2>2 DEF Bit
  <2> QED
    BY <2>3, <2>4
<1>5. (n \div 8) % 2 = s[5] /\ (n \div 4) % 2 = s[6] /\ (n \div 2) % 2 = s[7] /\ n % 2 = s[8]
  BY <1>1, <1>2 DEF Bit
<1>6. Bits(n) = s
  BY <1>4, <1>5 DEF Bits
<1> QED
  BY <1>3, <1>6 DEF n

LEMMA FromBitsOfBits ==
    ASSUME NEW b \in Byte
    PROVE  FromBits(Bits(b)) = b
  BY DEF Bits, FromBits, Byte
-----------------------------------------------------------------------------
(* The exclusive or: a group in which everything is its own inverse.       *)

LEMMA BitLaws ==
    ASSUME NEW x \in Bit, NEW y \in Bit, NEW z \in Bit
    PROVE  /\ (x + y) % 2 \in Bit
           /\ (x + y) % 2 = (y + x) % 2
           /\ (((x + y) % 2) + z) % 2 = (x + ((y + z) % 2)) % 2
           /\ (x + 0) % 2 = x /\ (x + x) % 2 = 0
           /\ (x + y) % 2 = 0 => x = y
  BY DEF Bit

LEMMA XorBitByBit ==
    ASSUME NEW s \in [1..8 -> Bit], NEW t \in [1..8 -> Bit]
    PROVE  /\ XorBits(s, t) \in [1..8 -> Bit]
           /\ \A k \in 1..8 : XorBits(s, t)[k] = (s[k] + t[k]) % 2
<1>1. \A k \in 1..8 : (s[k] + t[k]) % 2 \in Bit
  BY BitLaws
<1> QED
  BY <1>1 DEF XorBits

LEMMA BitsOfXor ==
    ASSUME NEW a \in Byte, NEW b \in Byte
    PROVE  /\ Xor(a, b) \in Byte
           /\ Bits(Xor(a, b)) = XorBits(Bits(a), Bits(b))
<1>1. Xor(a, b) = FromBits(XorBits(Bits(a), Bits(b)))
  BY DEF Xor, XorTable
<1>2. Bits(a) \in [1..8 -> Bit] /\ Bits(b) \in [1..8 -> Bit]
  BY BitsAreBits
<1>4. XorBits(Bits(a), Bits(b)) \in [1..8 -> Bit]
  BY <1>2, XorBitByBit
<1> QED
  BY <1>1, <1>4, BitsOfFromBits

LEMMA SameBits ==
    ASSUME NEW a \in Byte, NEW b \in Byte, Bits(a) = Bits(b)
    PROVE  a = b
  BY FromBitsOfBits

LEMMA XorIsAGroup ==
    ASSUME NEW a \in Byte, NEW b \in Byte, NEW c \in Byte
    PROVE  /\ Xor(a, b) \in Byte
           /\ Xor(a, b) = Xor(b, a)
           /\ Xor(Xor(a, b), c) = Xor(a, Xor(b, c))
           /\ Xor(a, 0) = a /\ Xor(0, a) = a /\ Xor(a, a) = 0
           /\ Xor(a, b) = 0 => a = b
<1> DEFINE A == Bits(a)  B == Bits(b)  C == Bits(c)
<1>1. A \in [1..8 -> Bit] /\ B \in [1..8 -> Bit] /\ C \in [1..8 -> Bit]
  BY BitsAreBits
<1>0. 0 \in Byte /\ Bits(0) = [k \in 1..8 |-> 0]
  BY DEF Byte, Bits
<1> HIDE DEF A, B, C
<1> DEFINE AB == XorBits(A, B)  BC == XorBits(B, C)
<1>t. AB \in [1..8 -> Bit] /\ BC \in [1..8 -> Bit]
  BY <1>1, XorBitByBit
<1>2. XorBits(A, B) = XorBits(B, A)
  <2>1. \A k \in 1..8 : XorBits(A, B)[k] = XorBits(B, A)[k]
    <3> TAKE k \in 1..8
    <3>1. A[k] \in Bit /\ B[k] \in Bit
      BY <1>1
    <3>2. XorBits(A, B)[k] = (A[k] + B[k]) % 2 /\ XorBits(B, A)[k] = (B[k] + A[k]) % 2
      BY <1>1, XorBitByBit
    <3> QED
      BY <3>1, <3>2 DEF Bit
  <2>2. XorBits(A, B) \in [1..8 -> Bit] /\ XorBits(B, A) \in [1..8 -> Bit]
    BY <1>1, XorBitByBit
  <2> QED
    BY <2>1, <2>2
<1>3. XorBits(AB, C) = XorBits(A, BC)
  <2>1. \A k \in 1..8 : XorBits(AB, C)[k] = XorBits(A, BC)[k]
    <3> TAKE k \in 1..8
    <3>1. A[k] \in Bit /\ B[k] \in Bit /\ C[k] \in Bit
      BY <1>1
    <3>2. AB[k] = (A[k] + B[k]) % 2 /\ BC[k] = (B[k] + C[k]) % 2
      BY <1>1, XorBitByBit
    <3> HIDE DEF AB, BC
    <3>3. XorBits(AB, C)[k] = (AB[k] + C[k]) % 2 /\ XorBits(A, BC)[k] = (A[k] + BC[k]) % 2
      BY <1>1, <1>t, XorBitByBit
    <3> QED
      BY <3>1, <3>2, <3>3 DEF Bit
  <2> HIDE DEF AB, BC
  <2>2. XorBits(AB, C) \in [1..8 -> Bit] /\ XorBits(A, BC) \in [1..8 -> Bit]
    BY <1>1, <1>t, XorBitByBit
  <2> QED
    BY <2>1, <2>2
<1>a. \A k \in 1..8 : A[k] \in Bit /\ (A[k] + 0) % 2 = A[k] /\ (A[k] + A[k]) % 2 = 0
  <2>1. \A k \in 1..8 : A[k] \in Bit
    BY <1>1
  <2> QED
    BY <2>1, BitLaws
<1>4. XorBits(A, [k \in 1..8 |-> 0]) = A
  BY <1>1, <1>a DEF XorBits
<1>5. XorBits(A, A) = [k \in 1..8 |-> 0]
  BY <1>a DEF XorBits
<1>6. XorBits(A, B) = [k \in 1..8 |-> 0] => A = B
  <2> HAVE XorBits(A, B) = [k \in 1..8 |-> 0]
  <2>1. \A k \in 1..8 : (A[k] + B[k]) % 2 = 0
    BY DEF XorBits
  <2>2. \A k \in 1..8 : A[k] = B[k]
    <3> TAKE k \in 1..8
    <3>1. A[k] \in Bit /\ B[k] \in Bit
      BY <1>1
    <3> QED
      BY <2>1, <3>1, BitLaws
  <2> QED
    BY <1>1, <2>2
<1>7. Xor(a, b) \in Byte /\ Xor(b, c) \in Byte
  BY BitsOfXor
<1>8. Xor(a, b) = Xor(b, a)
  BY <1>2, BitsOfXor, SameBits DEF A, B
<1>9. Xor(Xor(a, b), c) = Xor(a, Xor(b, c))
  BY <1>3, <1>7, BitsOfXor, SameBits DEF A, B, C
<1>10. Xor(a, 0) = a
  BY <1>0, <1>4, BitsOfXor, SameBits DEF A
<1>11. Xor(0, a) = a
  <2>1. XorBits([k \in 1..8 |-> 0], A) = XorBits(A, [k \in 1..8 |-> 0])
    BY <1>1 DEF XorBits, Bit
  <2> QED
    BY <1>0, <1>4, <2>1, BitsOfXor, SameBits DEF A
<1>12. Xor(a, a) = 0
  BY <1>0, <1>5, BitsOfXor, SameBits DEF A
<1>13. Xor(a, b) = 0 => a = b
  BY <1>0, <1>6, BitsOfXor, SameBits DEF A, B
<1> QED
  BY <1>7, <1>8, <1>9, <1>10, <1>11, <1>12, <1>13

-----------------------------------------------------------------------------
(* The shift of the checksum: linear, and without a kernel.                *)

ShiftOf(d, c) ==
    /\ d[1] = c[2] /\ d[2] = c[3] /\ d[3] = (c[4] + c[1]) % 2 /\ d[4] = (c[5] + c[1]) % 2
    /\ d[5] = c[6] /\ d[6] = c[7] /\ d[7] = c[8] /\ d[8] = c[1]

LEMMA BitsOfDouble ==
    ASSUME NEW b \in Byte
    PROVE  /\ (b * 2) % 256 \in Byte
           /\ Bits((b * 2) % 256) = [k \in 1..8 |-> IF k = 8 THEN 0 ELSE Bits(b)[k + 1]]
<1> DEFINE c == Bits(b)
           d == [k \in 1..8 |-> IF k = 8 THEN 0 ELSE c[k + 1]]
<1>1. c \in [1..8 -> Bit]
  BY BitsAreBits
<1>2. b = FromBits(c)
  BY FromBitsOfBits
<1> HIDE DEF c
<1>3. d \in [1..8 -> Bit]
  BY <1>1 DEF Bit
<1>4. (b * 2) % 256 = FromBits(d)
  BY <1>1, <1>2 DEF FromBits, Bit
<1> QED
  BY <1>3, <1>4, BitsOfFromBits DEF c

LEMMA BitsOfShift ==
    ASSUME NEW b \in Byte
    PROVE  Shift(b) \in Byte /\ ShiftOf(Bits(Shift(b)), Bits(b))
<1> DEFINE c == Bits(b)  d == Bits((b * 2) % 256)  e == Bits(49)
<1>0. 49 \in Byte /\ e = <<0, 0, 1, 1, 0, 0, 0, 1>>
  BY DEF Byte, Bits
<1>1. c \in [1..8 -> Bit] /\ 49 \in Byte /\ e = <<0, 0, 1, 1, 0, 0, 0, 1>>
  BY <1>0, BitsAreBits
<1>2. (b * 2) % 256 \in Byte /\ d = [k \in 1..8 |-> IF k = 8 THEN 0 ELSE c[k + 1]]
  BY BitsOfDouble
<1>3. d \in [1..8 -> Bit]
  BY <1>2, BitsAreBits
<1>4. CASE b >= 128
  <2>1. c[1] = 1
    BY <1>4 DEF Bits, Byte
  <2>2. Shift(b) = Xor((b * 2) % 256, 49)
    BY <1>4 DEF Shift
  <2>3. Shift(b) \in Byte /\ Bits(Shift(b)) = XorBits(d, e)
    BY <1>1, <1>2, <2>2, BitsOfXor
  <2>4. e \in [1..8 -> Bit]
    BY <1>1, BitsAreBits
  <2> HIDE DEF c, d, e
  <2>5. \A k \in 1..8 : XorBits(d, e)[k] = (d[k] + e[k]) % 2
    BY <1>3, <2>4, XorBitByBit
  <2>6. ShiftOf(XorBits(d, e), c)
    BY <1>1, <1>2, <2>1, <2>5 DEF ShiftOf, Bit
  <2> QED
    BY <2>3, <2>6 DEF c
<1>5. CASE b < 128
  <2>1. c[1] = 0
    BY <1>5 DEF Bits, Byte
  <2>2. Shift(b) = (b * 2) % 256
    BY <1>5 DEF Shift, Byte
  <2> HIDE DEF c, d, e
  <2>3. ShiftOf(d, c)
    BY <1>1, <1>2, <2>1 DEF ShiftOf, Bit
  <2> QED
    BY <1>2, <2>2, <2>3 DEF c, d
<1> QED
  BY <1>4, <1>5 DEF Byte

LEMMA ShiftIsLinear ==
    ASSUME NEW a \in Byte, NEW b \in Byte
    PROVE  /\ Shift(a) \in Byte
           /\ Shift(Xor(a, b)) = Xor(Shift(a), Shift(b))
           /\ Shift(a) = 0 => a = 0
           /\ Shift(0) = 0
           /\ a < 128 => Shift(a) = 2 * a
<1> DEFINE A == Bits(a)  B == Bits(b)  SA == Bits(Shift(a))  SB == Bits(Shift(b))
           X == Bits(Xor(a, b))  SX == Bits(Shift(Xor(a, b)))
<1>1. Xor(a, b) \in Byte /\ Shift(a) \in Byte /\ Shift(b) \in Byte /\ Shift(Xor(a, b)) \in Byte
  BY BitsOfXor, BitsOfShift
<1>2. /\ A \in [1..8 -> Bit] /\ B \in [1..8 -> Bit] /\ X \in [1..8 -> Bit]
      /\ SA \in [1..8 -> Bit] /\ SB \in [1..8 -> Bit] /\ SX \in [1..8 -> Bit]
  BY <1>1, BitsAreBits
<1>3. ShiftOf(SA, A) /\ ShiftOf(SB, B) /\ ShiftOf(SX, X)
  BY <1>1, BitsOfShift
<1>4. X = XorBits(A, B)
  BY BitsOfXor
<1>0. 0 \in Byte /\ Bits(0) = [k \in 1..8 |-> 0]
  BY DEF Byte, Bits
<1>5. Shift(0) = 0 /\ (a < 128 => Shift(a) = 2 * a)
  BY DEF Shift, Byte
<1>6. Shift(Xor(a, b)) = Xor(Shift(a), Shift(b))
  <2>1. Xor(Shift(a), Shift(b)) \in Byte /\ Bits(Xor(Shift(a), Shift(b))) = XorBits(SA, SB)
    BY <1>1, BitsOfXor
  <2> HIDE DEF A, B, SA, SB, X, SX
  <2>2. \A k \in 1..8 : X[k] = (A[k] + B[k]) % 2
    BY <1>2, <1>4, XorBitByBit
  <2>3. XorBits(SA, SB) \in [1..8 -> Bit]
        /\ \A k \in 1..8 : XorBits(SA, SB)[k] = (SA[k] + SB[k]) % 2
    BY <1>2, XorBitByBit
  <2>4. \A k \in {1, 2, 5, 6, 7, 8} : SX[k] = (SA[k] + SB[k]) % 2
    BY <1>2, <1>3, <2>2 DEF ShiftOf
  <2>5. \A k \in {3, 4} : SX[k] = (SA[k] + SB[k]) % 2
    <3>1. A[1] \in Bit /\ B[1] \in Bit /\ A[4] \in Bit /\ B[4] \in Bit
          /\ A[5] \in Bit /\ B[5] \in Bit
      BY <1>2
    <3> QED
      BY <1>3, <2>2, <3>1 DEF ShiftOf, Bit
  <2>6. SX = XorBits(SA, SB)
    BY <1>2, <2>3, <2>4, <2>5
  <2> QED
    BY <1>1, <2>1, <2>6, SameBits DEF SX
<1>7. Shift(a) = 0 => a = 0
  <2> HAVE Shift(a) = 0
  <2>1. SA = [k \in 1..8 |-> 0]
    BY <1>0
  <2> HIDE DEF A, SA
  <2>2. A = [k \in 1..8 |-> 0]
    BY <1>2, <1>3, <2>1 DEF ShiftOf, Bit
  <2> QED
    BY <1>0, <2>2, SameBits DEF A
<1> QED
  BY <1>1, <1>5, <1>6, <1>7

-----------------------------------------------------------------------------
(* Eight shifts, and the checksum of three bytes.                          *)

Linear(f) ==
    /\ f \in [Byte -> Byte]
    /\ \A x, y \in Byte : f[Xor(x, y)] = Xor(f[x], f[y])
    /\ \A x \in Byte : f[x] = 0 <=> x = 0

LEMMA TwiceLinear ==
    ASSUME NEW f, Linear(f)
    PROVE  Linear([x \in Byte |-> f[f[x]]])
<1> DEFINE g == [x \in Byte |-> f[f[x]]]
<1>1. \A x, y \in Byte : Xor(x, y) \in Byte
  BY BitsOfXor
<1>2. g \in [Byte -> Byte] /\ \A x \in Byte : g[x] = 0 <=> x = 0
  BY DEF Linear
<1>3. \A x, y \in Byte : g[Xor(x, y)] = Xor(g[x], g[y])
  <2> TAKE x \in Byte, y \in Byte
  <2>1. f[x] \in Byte /\ f[y] \in Byte /\ f[Xor(x, y)] = Xor(f[x], f[y])
    BY DEF Linear
  <2>2. f[Xor(f[x], f[y])] = Xor(f[f[x]], f[f[y]])
    BY <2>1 DEF Linear
  <2> QED
    BY <1>1, <2>1, <2>2
<1> QED
  BY <1>2, <1>3 DEF Linear

LEMMA CrcTableIsLinear == Linear(CrcTable)
<1> DEFINE one == [x \in Byte |-> Shift(x)]
           two == [x \in Byte |-> one[one[x]]]
           four == [x \in Byte |-> two[two[x]]]
           eight == [x \in Byte |-> four[four[x]]]
<1>1. Linear(one)
  <2>1. \A x, y \in Byte : Xor(x, y) \in Byte
    BY BitsOfXor
  <2> QED
    BY <2>1, ShiftIsLinear DEF Linear
<1>2. Linear(two)
  BY <1>1, TwiceLinear
<1>3. Linear(four)
  BY <1>2, TwiceLinear
<1>4. Linear(eight)
  BY <1>3, TwiceLinear
<1>5. \A x \in Byte : two[x] = Shift(Shift(x)) /\ two[x] \in Byte
  BY <1>1, <1>2 DEF Linear
<1> HIDE DEF two
<1>6. \A x \in Byte : four[x] = Shift(Shift(Shift(Shift(x)))) /\ four[x] \in Byte
  BY <1>3, <1>5 DEF Linear
<1> HIDE DEF four
<1>7. eight = CrcTable
  BY <1>6 DEF CrcTable
<1> QED
  BY <1>4, <1>7

(* Damage over the border of two bytes: what the checksum makes of the     *)
(* first is not the second.  A shift doubles as long as the top bit is     *)
(* clear, and only then gives an even number.                              *)
LEMMA CrcTableAcross ==
    ASSUME NEW h \in Byte, NEW v \in Byte, NEW p \in {1, 2, 4, 8, 16, 32, 64, 128, 256},
           h < p, v % p = 0, CrcTable[h] = v
    PROVE  h = 0 /\ v = 0
<1> DEFINE Doubles(x, y) == IF x < 128 THEN y = 2 * x ELSE y % 2 = 1
<1>1. \A x \in Byte : Shift(x) \in Byte /\ Doubles(x, Shift(x))
  <2> TAKE x \in Byte
  <2>1. Shift(x) \in Byte /\ ShiftOf(Bits(Shift(x)), Bits(x))
    BY BitsOfShift
  <2>2. x >= 128 => Bits(x)[1] = 1
    BY DEF Bits, Byte
  <2>3. Bits(Shift(x))[8] = Shift(x) % 2
    BY DEF Bits
  <2>4. x < 128 => Shift(x) = 2 * x
    BY ShiftIsLinear
  <2>5. x >= 128 => Shift(x) % 2 = 1
    BY <2>1, <2>2, <2>3 DEF ShiftOf
  <2>6. x < 128 \/ x >= 128
    BY DEF Byte
  <2> QED
    BY <2>1, <2>4, <2>5, <2>6
<1>2. PICK a \in Byte : a = Shift(h) /\ Doubles(h, a)
  BY <1>1
<1>3. PICK b \in Byte : b = Shift(a) /\ Doubles(a, b)
  BY <1>1
<1>4. PICK c \in Byte : c = Shift(b) /\ Doubles(b, c)
  BY <1>1
<1>5. PICK d \in Byte : d = Shift(c) /\ Doubles(c, d)
  BY <1>1
<1>6. PICK e \in Byte : e = Shift(d) /\ Doubles(d, e)
  BY <1>1
<1>7. PICK f \in Byte : f = Shift(e) /\ Doubles(e, f)
  BY <1>1
<1>8. PICK g \in Byte : g = Shift(f) /\ Doubles(f, g)
  BY <1>1
<1>9. v = Shift(g)
  BY <1>2, <1>3, <1>4, <1>5, <1>6, <1>7, <1>8 DEF CrcTable
<1>10. Doubles(g, v)
  BY <1>1, <1>9
(* Forwards from h, as long as the top bit is clear.                       *)
<1>11. h < 128 => a = 2 * h
  BY <1>2 DEF Byte
<1>12. h < 64 => b = 4 * h
  BY <1>3, <1>11 DEF Byte
<1>13. h < 32 => c = 8 * h
  BY <1>4, <1>12 DEF Byte
<1>14. h < 16 => d = 16 * h
  BY <1>5, <1>13 DEF Byte
<1>15. h < 8 => e = 32 * h
  BY <1>6, <1>14 DEF Byte
<1>16. h < 4 => f = 64 * h
  BY <1>7, <1>15 DEF Byte
<1>17. h < 2 => g = 128 * h
  BY <1>8, <1>16 DEF Byte
<1>18. h < 1 => v = 256 * h
  BY <1>10, <1>17 DEF Byte
(* Backwards from v, as long as the lowest bit is clear.                   *)
<1>19. v % 2 = 0 => v = 2 * g
  BY <1>10 DEF Byte
<1>20. v % 4 = 0 => v = 4 * f
  BY <1>8, <1>19 DEF Byte
<1>21. v % 8 = 0 => v = 8 * e
  BY <1>7, <1>20 DEF Byte
<1>22. v % 16 = 0 => v = 16 * d
  BY <1>6, <1>21 DEF Byte
<1>23. v % 32 = 0 => v = 32 * c
  BY <1>5, <1>22 DEF Byte
<1>24. v % 64 = 0 => v = 64 * b
  BY <1>4, <1>23 DEF Byte
<1>25. v % 128 = 0 => v = 128 * a
  BY <1>3, <1>24 DEF Byte
<1>26. v % 256 = 0 => v = 256 * h
  BY <1>2, <1>25 DEF Byte
<1>27. CASE p = 1
  BY <1>18, <1>27 DEF Byte
<1>28. CASE p = 2
  BY <1>17, <1>19, <1>28 DEF Byte
<1>29. CASE p = 4
  BY <1>16, <1>20, <1>29 DEF Byte
<1>30. CASE p = 8
  BY <1>15, <1>21, <1>30 DEF Byte
<1>31. CASE p = 16
  BY <1>14, <1>22, <1>31 DEF Byte
<1>32. CASE p = 32
  BY <1>13, <1>23, <1>32 DEF Byte
<1>33. CASE p = 64
  BY <1>12, <1>24, <1>33 DEF Byte
<1>34. CASE p = 128
  BY <1>11, <1>25, <1>34 DEF Byte
<1>35. CASE p = 256
  BY <1>26, <1>35 DEF Byte
<1> QED
  BY <1>27, <1>28, <1>29, <1>30, <1>31, <1>32, <1>33, <1>34, <1>35

LEMMA Crc8UpdateIsLinear ==
    ASSUME NEW a \in Byte, NEW b \in Byte, NEW c \in Byte, NEW d \in Byte
    PROVE  /\ Crc8Update(a, b) \in Byte
           /\ Crc8Update(Xor(a, c), Xor(b, d)) = Xor(Crc8Update(a, b), Crc8Update(c, d))
<1>1. Xor(a, b) \in Byte /\ Xor(c, d) \in Byte /\ Xor(a, c) \in Byte /\ Xor(b, d) \in Byte
      /\ Xor(c, b) \in Byte
  BY XorIsAGroup
<1>2. Xor(Xor(a, c), Xor(b, d)) = Xor(Xor(a, b), Xor(c, d))
  <2>1. Xor(Xor(a, c), Xor(b, d)) = Xor(a, Xor(c, Xor(b, d)))
    BY <1>1, XorIsAGroup
  <2>2. Xor(c, Xor(b, d)) = Xor(Xor(b, c), d)
    BY <1>1, XorIsAGroup
  <2>3. Xor(Xor(b, c), d) = Xor(b, Xor(c, d))
    BY XorIsAGroup
  <2> QED
    BY <1>1, <2>1, <2>2, <2>3, XorIsAGroup
<1> QED
  BY <1>1, <1>2, CrcTableIsLinear DEF Crc8Update, Linear

-----------------------------------------------------------------------------
(* Packets.                                                                *)

LEMMA Crc8Type ==
    ASSUME NEW q, q[1] \in Byte, q[2] \in Byte, q[3] \in Byte
    PROVE  Crc8(q) \in Byte
<1>1. 255 \in Byte
  BY DEF Byte
<1>2. Crc8Update(255, q[1]) \in Byte
  BY <1>1, Crc8UpdateIsLinear
<1>3. Crc8Update(Crc8Update(255, q[1]), q[2]) \in Byte
  BY <1>2, Crc8UpdateIsLinear
<1>4. Crc8Update(Crc8Update(Crc8Update(255, q[1]), q[2]), q[3]) \in Byte
  BY <1>3, Crc8UpdateIsLinear
<1> QED
  BY <1>4 DEF Crc8

(* Every packet that encode makes passes decode, and says what it was made *)
(* of.                                                                     *)
THEOREM EncodedDecodes ==
    ASSUME NEW code \in Byte, NEW value \in Word
    PROVE  /\ Encode(code, value) \in [1..4 -> Byte]
           /\ Decodes(Encode(code, value))
           /\ PacketOf(Encode(code, value)) = [code |-> code, value |-> value]
<1> DEFINE body == <<code, value % 256, value \div 256>>
           q == Encode(code, value)
<1>1. value % 256 \in Byte /\ value \div 256 \in Byte
  <2>1. value \in Int /\ 0 <= value /\ value < 65536
    BY DEF Word
  <2>2. value % 256 \in 0..255
    BY <2>1
  <2>3. value \div 256 \in 0..255
    BY <2>1
  <2> QED
    BY <2>2, <2>3 DEF Byte
<1>2. body[1] \in Byte /\ body[2] \in Byte /\ body[3] \in Byte
  BY <1>1
<1>3. Crc8(body) \in Byte
  BY <1>2, Crc8Type
<1>4. body \in Seq(Byte) /\ Len(body) = 3
  BY <1>1
<1>5. q = Append(body, Crc8(body))
  BY DEF Encode
<1>6. (value % 256) + 256 * (value \div 256) = value
  BY DEF Word
<1>7. /\ q \in Seq(Byte) /\ Len(q) = 4 /\ q[4] = Crc8(body)
      /\ \A i \in 1..3 : q[i] = body[i]
  <2>1. /\ Append(body, Crc8(body)) \in Seq(Byte) /\ Len(Append(body, Crc8(body))) = 4
        /\ Append(body, Crc8(body))[4] = Crc8(body)
        /\ \A i \in 1..3 : Append(body, Crc8(body))[i] = body[i]
    BY <1>3, <1>4
  <2> HIDE DEF q, body
  <2> QED
    BY <1>5, <2>1
<1> HIDE DEF q
<1>8. q \in [1..4 -> Byte]
  BY <1>7
<1>9. q[1] = code /\ q[2] = value % 256 /\ q[3] = value \div 256
  BY <1>7
<1>10. Crc8(q) = Crc8(body)
  BY <1>9 DEF Crc8
<1>11. Decodes(q)
  BY <1>7, <1>10 DEF Decodes
<1>12. PacketOf(q) = [code |-> code, value |-> value]
  BY <1>6, <1>9 DEF PacketOf
<1> QED
  BY <1>8, <1>11, <1>12 DEF q

(* What damage makes of the checksum does not depend on the packet.        *)
Syndrome(e) == Crc8Update(Crc8Update(Crc8Update(0, e[1]), e[2]), e[3])

LEMMA Crc8OfDamaged ==
    ASSUME NEW q \in [1..4 -> Byte], NEW e \in [1..4 -> Byte]
    PROVE  /\ Crc8(CrossedWith(q, e)) = Xor(Crc8(q), Syndrome(e))
           /\ Syndrome(e) \in Byte
<1> DEFINE a1 == Crc8Update(255, q[1])  a2 == Crc8Update(a1, q[2])
           b1 == Crc8Update(0, e[1])    b2 == Crc8Update(b1, e[2])
<1>1. q[1] \in Byte /\ q[2] \in Byte /\ q[3] \in Byte /\ e[1] \in Byte /\ e[2] \in Byte
      /\ e[3] \in Byte /\ 255 \in Byte /\ 0 \in Byte
  BY DEF Byte
<1>2. a1 \in Byte /\ b1 \in Byte
  BY <1>1, Crc8UpdateIsLinear
<1>3. Xor(255, 0) = 255
  BY <1>1, XorIsAGroup
<1>4. Crc8Update(255, Xor(q[1], e[1])) = Xor(a1, b1)
  <2>1. Crc8Update(Xor(255, 0), Xor(q[1], e[1])) = Xor(a1, b1)
    BY <1>1, Crc8UpdateIsLinear
  <2> QED
    BY <1>3, <2>1
<1> HIDE DEF a1, b1
<1>5. a2 \in Byte /\ b2 \in Byte
      /\ Crc8Update(Xor(a1, b1), Xor(q[2], e[2])) = Xor(a2, b2)
  BY <1>1, <1>2, Crc8UpdateIsLinear
<1> HIDE DEF a2, b2
<1>6. Crc8Update(b2, e[3]) \in Byte
      /\ Crc8Update(Xor(a2, b2), Xor(q[3], e[3])) = Xor(Crc8Update(a2, q[3]), Crc8Update(b2, e[3]))
  BY <1>1, <1>5, Crc8UpdateIsLinear
<1>7. /\ Crc8(CrossedWith(q, e)) =
           Crc8Update(Crc8Update(Crc8Update(255, Xor(q[1], e[1])), Xor(q[2], e[2])), Xor(q[3], e[3]))
      /\ Crc8(q) = Crc8Update(a2, q[3]) /\ Syndrome(e) = Crc8Update(b2, e[3])
  BY DEF Crc8, CrossedWith, Syndrome, a1, a2, b1, b2
<1> QED
  BY <1>4, <1>5, <1>6, <1>7

LEMMA BurstHasASyndrome ==
    ASSUME NEW e, IsBurst(e)
    PROVE  Syndrome(e) # e[4]
<1>1. e[1] \in Byte /\ e[2] \in Byte /\ e[3] \in Byte /\ e[4] \in Byte /\ 0 \in Byte
  BY DEF IsBurst, Byte
<1>2. /\ CrcTable[0] = 0
      /\ \A x \in Byte : CrcTable[x] \in Byte /\ (CrcTable[x] = 0 => x = 0)
  BY <1>1, CrcTableIsLinear DEF Linear
<1>3. /\ \A x, y \in Byte : Xor(x, y) \in Byte /\ (Xor(x, y) = 0 => x = y)
      /\ \A x \in Byte : Xor(x, 0) = x /\ Xor(0, x) = x
  BY <1>1, XorIsAGroup
<1>4. PICK k \in 1..3, p \in {1, 2, 4, 8, 16, 32, 64, 128, 256} :
        /\ \A i \in 1..4 \ {k, k + 1} : e[i] = 0
        /\ e[k] < p /\ e[k + 1] % p = 0
        /\ e[k] # 0 \/ e[k + 1] # 0
  BY DEF IsBurst
<1>5. CrcTable[e[k]] # e[k + 1]
  BY <1>1, <1>4, CrcTableAcross
<1>6. CASE k = 1
  <2>1. e[3] = 0 /\ e[4] = 0
    BY <1>4, <1>6
  <2>2. Syndrome(e) = CrcTable[CrcTable[Xor(CrcTable[e[1]], e[2])]]
    BY <1>1, <1>2, <1>3, <2>1 DEF Syndrome, Crc8Update
  <2>3. Xor(CrcTable[e[1]], e[2]) # 0 /\ Xor(CrcTable[e[1]], e[2]) \in Byte
    BY <1>1, <1>2, <1>3, <1>5, <1>6
  <2> QED
    BY <1>2, <2>1, <2>2, <2>3
<1>7. CASE k = 2
  <2>1. e[1] = 0 /\ e[4] = 0
    BY <1>4, <1>7
  <2>2. Syndrome(e) = CrcTable[Xor(CrcTable[e[2]], e[3])]
    BY <1>1, <1>2, <1>3, <2>1 DEF Syndrome, Crc8Update
  <2>3. Xor(CrcTable[e[2]], e[3]) # 0 /\ Xor(CrcTable[e[2]], e[3]) \in Byte
    BY <1>1, <1>2, <1>3, <1>5, <1>7
  <2> QED
    BY <1>2, <2>1, <2>2, <2>3
<1>8. CASE k = 3
  <2>1. e[1] = 0 /\ e[2] = 0
    BY <1>4, <1>8
  <2>2. Syndrome(e) = CrcTable[e[3]]
    BY <1>1, <1>2, <1>3, <2>1 DEF Syndrome, Crc8Update
  <2> QED
    BY <1>5, <1>8, <2>2
<1> QED
  BY <1>6, <1>7, <1>8

(* No damage to eight consecutive bits or fewer goes unnoticed, whatever   *)
(* the packet and wherever in it.                                          *)
THEOREM BurstIsCaught ==
    ASSUME NEW q \in [1..4 -> Byte], Decodes(q), NEW e, IsBurst(e)
    PROVE  /\ CrossedWith(q, e) \in [1..4 -> Byte]
           /\ ~Decodes(CrossedWith(q, e))
<1>1. e \in [1..4 -> Byte]
  BY DEF IsBurst
<1>2. q[1] \in Byte /\ q[2] \in Byte /\ q[3] \in Byte /\ q[4] \in Byte
      /\ e[1] \in Byte /\ e[2] \in Byte /\ e[3] \in Byte /\ e[4] \in Byte
  BY <1>1
<1>3. /\ Xor(q[1], e[1]) \in Byte /\ Xor(q[2], e[2]) \in Byte
      /\ Xor(q[3], e[3]) \in Byte /\ Xor(q[4], e[4]) \in Byte
  BY <1>2, XorIsAGroup
<1>4. CrossedWith(q, e) \in [1..4 -> Byte] /\ CrossedWith(q, e)[4] = Xor(q[4], e[4])
  BY <1>3 DEF CrossedWith
<1>5. Crc8(CrossedWith(q, e)) = Xor(q[4], Syndrome(e)) /\ Syndrome(e) \in Byte
  BY <1>1, Crc8OfDamaged DEF Decodes
<1>6. ASSUME Xor(q[4], Syndrome(e)) = Xor(q[4], e[4]) PROVE Syndrome(e) = e[4]
  <2>1. Xor(q[4], Xor(q[4], Syndrome(e))) = Xor(Xor(q[4], q[4]), Syndrome(e))
    BY <1>2, <1>5, XorIsAGroup
  <2>2. Xor(q[4], Xor(q[4], e[4])) = Xor(Xor(q[4], q[4]), e[4])
    BY <1>2, XorIsAGroup
  <2>3. Xor(q[4], q[4]) = 0 /\ Xor(0, Syndrome(e)) = Syndrome(e) /\ Xor(0, e[4]) = e[4]
    BY <1>2, <1>5, XorIsAGroup
  <2> QED
    BY <1>6, <2>1, <2>2, <2>3
<1> QED
  BY <1>4, <1>5, <1>6, BurstHasASyndrome DEF Decodes

-----------------------------------------------------------------------------
(* The last packet about a channel.                                        *)

LEMMA MaxOfSome ==
    ASSUME NEW n \in Nat, NEW S \in SUBSET (1..n), S # {}
    PROVE  /\ Max(S) \in S
           /\ \A y \in S : y <= Max(S)
           /\ \A x \in S : (\A y \in S : y <= x) => Max(S) = x
<1> DEFINE T == {n - y : y \in S}
<1>0. \A y \in S : y \in Int /\ 1 <= y /\ y <= n
  OBVIOUS
<1>1. T \subseteq Nat /\ T # {}
  <2>1. \A y \in S : n - y \in Nat
    BY <1>0
  <2> QED
    BY <2>1
<1>2. PICK t \in T : \A u \in T : ~(<<u, t>> \in OpToRel(<, Nat))
  BY <1>1, NatLessThanWellFounded, WFMin
<1>3. \A u \in T : ~(u < t)
  BY <1>1, <1>2 DEF OpToRel
<1>4. PICK top \in S : t = n - top
  BY <1>2
<1>5. \A y \in S : top >= y
  <2> TAKE y \in S
  <2>1. ~(n - y < n - top)
    BY <1>3, <1>4
  <2> QED
    BY <1>0, <2>1
<1>6. Max(S) \in S /\ \A y \in S : Max(S) >= y
  BY <1>4, <1>5 DEF Max
<1>7. \A y \in S : y \in Int
  BY <1>0
<1> DEFINE greatest == Max(S)
<1> HIDE DEF greatest
<1>8. greatest \in S /\ \A y \in S : greatest >= y
  BY <1>6 DEF greatest
<1>9. \A y \in S : y <= greatest
  BY <1>7, <1>8
<1>10. \A x \in S : (\A y \in S : y <= x) => greatest = x
  BY <1>7, <1>8
<1> QED
  BY <1>8, <1>9, <1>10 DEF greatest

LEMMA AboutIsKnown ==
    ASSUME NEW n \in Nat, NEW quads, DOMAIN quads = 1..n, NEW ch \in Channels,
           About(quads, ch) # {}
    PROVE  /\ Max(About(quads, ch)) \in About(quads, ch)
           /\ \A y \in About(quads, ch) : y <= Max(About(quads, ch))
           /\ \A x \in About(quads, ch) :
                (\A y \in About(quads, ch) : y <= x) => Max(About(quads, ch)) = x
<1>1. About(quads, ch) \in SUBSET (1..n)
  BY DEF About
<1> QED
  BY <1>1, MaxOfSome

Joined(all, m, first, n, second) ==
    /\ DOMAIN first = 1..m /\ DOMAIN second = 1..n /\ DOMAIN all = 1..(m + n)
    /\ \A i \in 1..m : all[i] = first[i]
    /\ \A i \in 1..n : all[m + i] = second[i]

(* Packets applied in two goes are applied as if in one.                   *)
LEMMA LatestInTwoGoes ==
    ASSUME NEW m \in Nat, NEW n \in Nat, NEW all, NEW first, NEW second,
           Joined(all, m, first, n, second), NEW ch \in Channels, NEW old
    PROVE  /\ About(all, ch) = About(first, ch) \cup {m + i : i \in About(second, ch)}
           /\ Latest(all, ch, old) = Latest(second, ch, Latest(first, ch, old))
<1>0. /\ DOMAIN first = 1..m /\ DOMAIN second = 1..n /\ DOMAIN all = 1..(m + n)
      /\ \A i \in 1..m : all[i] = first[i]
      /\ \A i \in 1..n : all[m + i] = second[i]
  BY DEF Joined
<1> DEFINE A == About(all, ch)  F == About(first, ch)  S == About(second, ch)
<1>1. A = F \cup {m + i : i \in S}
  <2>1. \A j \in 1..(m + n) : j \in 1..m \/ \E i \in 1..n : j = m + i
    <3> TAKE j \in 1..(m + n)
    <3>1. j > m => j - m \in 1..n /\ j = m + (j - m)
      OBVIOUS
    <3> QED
      BY <3>1
  <2>2. \A i \in 1..m : i \in 1..(m + n)
    OBVIOUS
  <2>3. \A i \in 1..n : m + i \in 1..(m + n)
    OBVIOUS
  <2>4. A \subseteq F \cup {m + i : i \in S}
    <3> SUFFICES ASSUME NEW j \in A
                 PROVE  j \in F \/ \E i \in S : j = m + i
      OBVIOUS
    <3>1. j \in 1..(m + n) /\ Decodes(all[j]) /\ all[j][1] = CodeOf[ch]
      BY <1>0 DEF About
    <3>2. CASE j \in 1..m
      BY <1>0, <3>1, <3>2 DEF About
    <3>3. CASE \E i \in 1..n : j = m + i
      BY <1>0, <3>1, <3>3 DEF About
    <3> QED
      BY <2>1, <3>1, <3>2, <3>3
  <2>5. F \subseteq A /\ {m + i : i \in S} \subseteq A
    BY <1>0, <2>2, <2>3 DEF About
  <2> QED
    BY <2>4, <2>5
<1>2. F \subseteq 1..m /\ S \subseteq 1..n /\ m + n \in Nat
  BY <1>0 DEF About
<1> DEFINE InTwoGoes == Latest(all, ch, old) = Latest(second, ch, Latest(first, ch, old))
<1>3. ASSUME S = {} PROVE InTwoGoes
  <2>1. A = F
    BY <1>1, <1>3
  <2>2. Latest(second, ch, Latest(first, ch, old)) = Latest(first, ch, old)
    BY <1>3 DEF Latest
  <2>3. F # {} => all[Max(F)] = first[Max(F)]
    BY <1>0, <1>2, AboutIsKnown
  <2>4. Latest(all, ch, old) = IF A = {} THEN old ELSE PacketOf(all[Max(A)]).value
    BY DEF Latest
  <2>5. Latest(first, ch, old) = IF F = {} THEN old ELSE PacketOf(first[Max(F)]).value
    BY DEF Latest
  <2> HIDE DEF A, F
  <2> QED
    BY <2>1, <2>2, <2>3, <2>4, <2>5
<1>4. ASSUME S # {} PROVE InTwoGoes
  <2>1. Max(S) \in S /\ \A y \in S : y <= Max(S)
    BY <1>0, <1>4, AboutIsKnown
  <2>2. m + Max(S) \in A /\ A # {}
    BY <1>1, <2>1
  <2>3. \A y \in A : y <= m + Max(S)
    BY <1>1, <1>2, <2>1
  <2>4. Max(A) = m + Max(S)
    BY <1>0, <1>2, <2>2, <2>3, AboutIsKnown
  <2>5. all[m + Max(S)] = second[Max(S)]
    BY <1>0, <1>2, <2>1
  <2>6. Latest(all, ch, old) = PacketOf(all[Max(A)]).value
    BY <2>2 DEF Latest
  <2>7. Latest(second, ch, Latest(first, ch, old)) = PacketOf(second[Max(S)]).value
    BY <1>4 DEF Latest
  <2> QED
    BY <2>4, <2>5, <2>6, <2>7
<1> QED
  BY <1>1, <1>3, <1>4

-----------------------------------------------------------------------------
(* The cut of the stream into packets.                                     *)

LEMMA QuadsShape ==
    ASSUME NEW s \in Seq(Byte)
    PROVE  /\ Len(s) \div 4 \in Nat /\ Len(s) \in Nat
           /\ 4 * (Len(s) \div 4) <= Len(s) /\ Len(s) < 4 * (Len(s) \div 4) + 4
           /\ DOMAIN Quads(s) = 1..(Len(s) \div 4)
           /\ \A i \in 1..(Len(s) \div 4) :
                /\ Quads(s)[i] \in [1..4 -> Byte]
                /\ \A j \in 1..4 : Quads(s)[i][j] = s[4 * i - 4 + j]
<1>1. Len(s) \in Nat
  OBVIOUS
<1>2. Len(s) \div 4 \in Nat /\ 4 * (Len(s) \div 4) <= Len(s) /\ Len(s) < 4 * (Len(s) \div 4) + 4
  BY <1>1
<1>3. DOMAIN Quads(s) = 1..(Len(s) \div 4)
  BY DEF Quads
<1>4. ASSUME NEW i \in 1..(Len(s) \div 4)
      PROVE  /\ Quads(s)[i] \in [1..4 -> Byte]
             /\ \A j \in 1..4 : Quads(s)[i][j] = s[4 * i - 4 + j]
  <2>1. Quads(s)[i] = SubSeq(s, 4 * i - 3, 4 * i)
    BY DEF Quads
  <2>2. 4 * i - 3 \in 1..Len(s) /\ 4 * i \in 1..Len(s)
    BY <1>1, <1>2
  <2> DEFINE t == SubSeq(s, 4 * i - 3, 4 * i)
  <2>3. t \in Seq(Byte) /\ Len(t) = 4 /\ \A j \in 1..4 : t[j] = s[4 * i - 3 + j - 1]
    BY <1>1, <2>2
  <2> HIDE DEF t
  <2>4. t \in [1..4 -> Byte]
    BY <2>3
  <2>5. \A j \in 1..4 : 4 * i - 3 + j - 1 = 4 * i - 4 + j
    BY <1>2
  <2> QED
    BY <2>1, <2>3, <2>4, <2>5 DEF t
<1> QED
  BY <1>1, <1>2, <1>3, <1>4

LEMMA QuadsCount ==
    ASSUME NEW s
    PROVE  DOMAIN Quads(s) = 1..(Len(s) \div 4)
  BY DEF Quads

LEMMA SameQuad ==
    ASSUME NEW q \in [1..4 -> Byte], NEW r \in [1..4 -> Byte], \A j \in 1..4 : q[j] = r[j]
    PROVE  q = r
  OBVIOUS

LEMMA ConcatShape ==
    ASSUME NEW S, NEW s \in Seq(S), NEW t \in Seq(S)
    PROVE  /\ s \o t \in Seq(S) /\ Len(s \o t) = Len(s) + Len(t)
           /\ Len(s) \in Nat /\ Len(t) \in Nat
           /\ \A k \in 1..Len(s) : (s \o t)[k] = s[k]
           /\ \A k \in 1..Len(t) : (s \o t)[Len(s) + k] = t[k]
<1>1. s \o t \in Seq(S) /\ Len(s \o t) = Len(s) + Len(t) /\ Len(s) \in Nat /\ Len(t) \in Nat
  BY ConcatProperties
<1>2. ASSUME NEW k \in 1..Len(s) PROVE (s \o t)[k] = s[k]
  BY <1>1, ConcatProperties
<1>3. ASSUME NEW k \in 1..Len(t) PROVE (s \o t)[Len(s) + k] = t[k]
  <2>1. Len(s) + k \in 1..(Len(s) + Len(t)) /\ ~(Len(s) + k <= Len(s)) /\ Len(s) + k - Len(s) = k
    BY <1>1
  <2> QED
    BY <2>1, ConcatProperties
<1> QED
  BY <1>1, <1>2, <1>3

LEMMA QuadsOfConcat ==
    ASSUME NEW s \in Seq(Byte), NEW t \in Seq(Byte), Len(s) % 4 = 0
    PROVE  /\ Len(s) \div 4 \in Nat /\ Len(t) \div 4 \in Nat
           /\ Len(s \o t) \div 4 = (Len(s) \div 4) + (Len(t) \div 4)
           /\ \A i \in 1..(Len(s) \div 4) : Quads(s \o t)[i] = Quads(s)[i]
           /\ \A i \in 1..(Len(t) \div 4) : Quads(s \o t)[(Len(s) \div 4) + i] = Quads(t)[i]
<1> DEFINE m == Len(s) \div 4  n == Len(t) \div 4  all == Quads(s \o t)
<1>1. Len(s) = 4 * m /\ m \in Nat /\ n \in Nat
  BY QuadsShape
<1>2. /\ s \o t \in Seq(Byte) /\ Len(s \o t) = Len(s) + Len(t)
      /\ Len(s) \in Nat /\ Len(t) \in Nat
      /\ \A k \in 1..Len(s) : (s \o t)[k] = s[k]
      /\ \A k \in 1..Len(t) : (s \o t)[Len(s) + k] = t[k]
  BY ConcatShape
<1>3. Len(s \o t) \div 4 = m + n
  <2>1. \A a, b \in Nat : (4 * a + b) \div 4 = a + (b \div 4)
    OBVIOUS
  <2>2. (4 * m + Len(t)) \div 4 = m + n
    BY <1>1, <1>2, <2>1
  <2> HIDE DEF m, n
  <2> QED
    BY <1>1, <1>2, <2>2
<1>4. /\ 4 * n <= Len(t)
      /\ \A i \in 1..(m + n) : /\ all[i] \in [1..4 -> Byte]
                               /\ \A j \in 1..4 : all[i][j] = (s \o t)[4 * i - 4 + j]
      /\ \A i \in 1..m : /\ Quads(s)[i] \in [1..4 -> Byte]
                         /\ \A j \in 1..4 : Quads(s)[i][j] = s[4 * i - 4 + j]
      /\ \A i \in 1..n : /\ Quads(t)[i] \in [1..4 -> Byte]
                         /\ \A j \in 1..4 : Quads(t)[i][j] = t[4 * i - 4 + j]
  <2>1. 4 * n <= Len(t)
    BY QuadsShape
  <2>2. \A i \in 1..(Len(s \o t) \div 4) :
           /\ all[i] \in [1..4 -> Byte]
           /\ \A j \in 1..4 : all[i][j] = (s \o t)[4 * i - 4 + j]
    BY <1>2, QuadsShape
  <2> QED
    BY <1>3, <2>1, <2>2, QuadsShape
<1> HIDE DEF m, n, all
<1>5. ASSUME NEW i \in 1..m PROVE all[i] = Quads(s)[i]
  <2>1. i \in 1..(m + n)
    BY <1>1
  <2>2. \A j \in 1..4 : 4 * i - 4 + j \in 1..Len(s)
    BY <1>1
  <2>3. \A j \in 1..4 : all[i][j] = Quads(s)[i][j]
    BY <1>2, <1>4, <2>1, <2>2
  <2> QED
    BY <1>4, <2>1, <2>3, SameQuad
<1>6. ASSUME NEW i \in 1..n PROVE all[m + i] = Quads(t)[i]
  <2>1. m + i \in 1..(m + n)
    BY <1>1
  <2>2. ASSUME NEW j \in 1..4 PROVE all[m + i][j] = Quads(t)[i][j]
    <3>1. 4 * i - 4 + j \in 1..Len(t) /\ 4 * (m + i) - 4 + j = Len(s) + (4 * i - 4 + j)
      BY <1>1, <1>2, <1>4
    <3>2. all[m + i][j] = (s \o t)[4 * (m + i) - 4 + j] /\ Quads(t)[i][j] = t[4 * i - 4 + j]
      BY <1>4, <2>1
    <3> QED
      BY <1>2, <3>1, <3>2
  <2> QED
    BY <1>4, <2>1, <2>2, SameQuad
<1> QED
  BY <1>1, <1>3, <1>5, <1>6 DEF m, n, all

(* A stream applied in two goes, the first of whole packets.               *)
LEMMA LatestOfConcat ==
    ASSUME NEW s \in Seq(Byte), NEW t \in Seq(Byte), Len(s) % 4 = 0, NEW ch \in Channels, NEW old
    PROVE  /\ About(Quads(s \o t), ch) =
                  About(Quads(s), ch) \cup {(Len(s) \div 4) + i : i \in About(Quads(t), ch)}
           /\ Latest(Quads(s \o t), ch, old) =
                  Latest(Quads(t), ch, Latest(Quads(s), ch, old))
<1>1. s \o t \in Seq(Byte)
  OBVIOUS
<1>2. /\ DOMAIN Quads(s) = 1..(Len(s) \div 4) /\ DOMAIN Quads(t) = 1..(Len(t) \div 4)
      /\ DOMAIN Quads(s \o t) = 1..((Len(s) \div 4) + (Len(t) \div 4))
  BY <1>1, QuadsShape, QuadsOfConcat
<1> QED
  <2> DEFINE m == Len(s) \div 4  n == Len(t) \div 4
             first == Quads(s)  second == Quads(t)  all == Quads(s \o t)
  <2>1. m \in Nat /\ n \in Nat /\ Joined(all, m, first, n, second)
    BY <1>2, QuadsOfConcat DEF Joined
  <2> HIDE DEF m, n, first, second, all
  <2>2. /\ About(all, ch) = About(first, ch) \cup {m + i : i \in About(second, ch)}
        /\ Latest(all, ch, old) = Latest(second, ch, Latest(first, ch, old))
    BY <2>1, LatestInTwoGoes
  <2> QED
    BY <2>2 DEF m, n, first, second, all

(* What the packets of a stream say about a channel.                       *)
SaidIn(s, ch) == {PacketOf(Quads(s)[i]).value : i \in About(Quads(s), ch)}

LEMMA SaidInType ==
    ASSUME NEW s \in Seq(Byte), NEW ch \in Channels, NEW old
    PROVE  /\ SaidIn(s, ch) \subseteq Word
           /\ SaidIn(s, ch) = {} <=> About(Quads(s), ch) = {}
           /\ IF About(Quads(s), ch) = {} THEN Latest(Quads(s), ch, old) = old
              ELSE Latest(Quads(s), ch, old) \in SaidIn(s, ch)
<1> DEFINE A == About(Quads(s), ch)
<1>1. A \subseteq 1..(Len(s) \div 4) /\ Len(s) \div 4 \in Nat
      /\ DOMAIN Quads(s) = 1..(Len(s) \div 4)
  BY QuadsShape DEF About
<1>2. ASSUME NEW i \in A PROVE PacketOf(Quads(s)[i]).value \in Word
  <2>1. Quads(s)[i] \in [1..4 -> Byte]
    BY <1>1, QuadsShape
  <2> DEFINE low == Quads(s)[i][2]
             high == Quads(s)[i][3]
  <2>2. low \in Byte /\ high \in Byte
    BY <2>1
  <2>3. PacketOf(Quads(s)[i]).value = low + 256 * high
    BY DEF PacketOf
  <2> HIDE DEF low, high
  <2>4. low + 256 * high \in Word
    BY <2>2 DEF Word, Byte
  <2> QED
    BY <2>3, <2>4
<1>3. A # {} => Max(A) \in A
  BY <1>1, AboutIsKnown
<1> HIDE DEF A
<1>4. Latest(Quads(s), ch, old) = IF A = {} THEN old ELSE PacketOf(Quads(s)[Max(A)]).value
  BY DEF Latest, A
<1>5. SaidIn(s, ch) = {PacketOf(Quads(s)[i]).value : i \in A}
  BY DEF SaidIn, A
<1>6. SaidIn(s, ch) \subseteq Word
  BY <1>2, <1>5
<1>7. SaidIn(s, ch) = {} <=> A = {}
  BY <1>5
<1>8. A # {} => PacketOf(Quads(s)[Max(A)]).value \in SaidIn(s, ch)
  BY <1>3, <1>5
<1>9. A = {} => Latest(Quads(s), ch, old) = old
  BY <1>4
<1>10. A # {} => Latest(Quads(s), ch, old) \in SaidIn(s, ch)
  BY <1>4, <1>8
<1> QED
  BY <1>6, <1>7, <1>9, <1>10 DEF A

LEMMA SaidInConcat ==
    ASSUME NEW s \in Seq(Byte), NEW t \in Seq(Byte), Len(s) % 4 = 0, NEW ch \in Channels
    PROVE  SaidIn(s \o t, ch) = SaidIn(s, ch) \cup SaidIn(t, ch)
<1> DEFINE m == Len(s) \div 4  n == Len(t) \div 4
           A == About(Quads(s), ch)  B == About(Quads(t), ch)
<1>1. A \subseteq 1..m /\ B \subseteq 1..n
  BY QuadsShape DEF About
<1>2. About(Quads(s \o t), ch) = A \cup {m + i : i \in B}
  BY LatestOfConcat
<1>3. /\ \A i \in A : Quads(s \o t)[i] = Quads(s)[i]
      /\ \A i \in B : Quads(s \o t)[m + i] = Quads(t)[i]
  BY <1>1, QuadsOfConcat
<1> HIDE DEF m, n, A, B
<1>4. SaidIn(s \o t, ch) = {PacketOf(Quads(s \o t)[j]).value : j \in A \cup {m + i : i \in B}}
  BY <1>2 DEF SaidIn
<1>5. SaidIn(s, ch) = {PacketOf(Quads(s)[i]).value : i \in A}
      /\ SaidIn(t, ch) = {PacketOf(Quads(t)[i]).value : i \in B}
  BY DEF SaidIn, A, B
<1>6. SaidIn(s \o t, ch) \subseteq SaidIn(s, ch) \cup SaidIn(t, ch)
  BY <1>3, <1>4, <1>5
<1>7. SaidIn(s, ch) \subseteq SaidIn(s \o t, ch) /\ SaidIn(t, ch) \subseteq SaidIn(s \o t, ch)
  BY <1>3, <1>4, <1>5
<1> QED
  BY <1>6, <1>7

LEMMA BytesInARow ==
    ASSUME NEW s \in Seq(Byte), NEW t \in Seq(Byte), NEW u \in Seq(Byte)
    PROVE  (s \o t) \o u = s \o (t \o u)
  OBVIOUS

(* Whole packets first, less than a packet last.                           *)
Whole(s) == SubSeq(s, 1, 4 * (Len(s) \div 4))

LEMMA WholeAndRest ==
    ASSUME NEW s \in Seq(Byte)
    PROVE  /\ Whole(s) \in Seq(Byte) /\ Len(Whole(s)) = 4 * (Len(s) \div 4)
           /\ Len(Whole(s)) % 4 = 0
           /\ Rest(s) \in Seq(Byte) /\ Len(Rest(s)) = Len(s) % 4
           /\ s = Whole(s) \o Rest(s)
           /\ \A j \in 1..(Len(s) % 4) : Rest(s)[j] = s[4 * (Len(s) \div 4) + j]
<1> DEFINE n == Len(s) \div 4
           from == 4 * n + 1
           r == Rest(s)
<1>1. /\ n \in Nat /\ Len(s) \in Nat /\ 4 * n <= Len(s) /\ Len(s) < 4 * n + 4
      /\ Len(s) % 4 = Len(s) - 4 * n
  <2>1. n \in Nat /\ Len(s) \in Nat /\ 4 * n <= Len(s) /\ Len(s) < 4 * n + 4
    BY QuadsShape
  <2>2. Len(s) % 4 = Len(s) - 4 * n
    BY <2>1
  <2> QED
    BY <2>1, <2>2
<1> HIDE DEF n
<1>2. Whole(s) = SubSeq(s, 1, 4 * n) /\ r = SubSeq(s, from, Len(s))
  BY DEF Whole, Rest, n
<1>3. Whole(s) \in Seq(Byte) /\ Len(Whole(s)) = 4 * n
  <2>1. SubSeq(s, 1, 4 * n) \in Seq(Byte) /\ Len(SubSeq(s, 1, 4 * n)) = 4 * n
    BY <1>1
  <2> QED
    BY <1>2, <2>1
<1>4. (4 * n) % 4 = 0
  BY <1>1
<1>5. /\ r \in Seq(Byte) /\ Len(r) = Len(s) - 4 * n
      /\ \A j \in 1..(Len(s) - 4 * n) : r[j] = s[4 * n + j]
  <2>1. /\ from \in Int /\ Len(s) \in Int
        /\ \A i \in from..Len(s) : i \in 1..Len(s)
        /\ IF from <= Len(s) THEN Len(s) - from + 1 = Len(s) - 4 * n ELSE 0 = Len(s) - 4 * n
        /\ \A j \in 1..(Len(s) - 4 * n) : from + j - 1 = 4 * n + j
    BY <1>1
  <2>2. \A i \in from..Len(s) : s[i] \in Byte
    BY <2>1
  <2> HIDE DEF from
  <2>3. /\ SubSeq(s, from, Len(s)) \in Seq(Byte)
        /\ Len(SubSeq(s, from, Len(s))) = IF from <= Len(s) THEN Len(s) - from + 1 ELSE 0
        /\ \A j \in 1..Len(SubSeq(s, from, Len(s))) : SubSeq(s, from, Len(s))[j] = s[from + j - 1]
    BY <2>1, <2>2, SubSeqProperties
  <2> HIDE DEF r
  <2> QED
    BY <1>2, <2>1, <2>3
<1>6. s = Whole(s) \o r
  <2>1. 1 \in 1..(Len(s) + 1) /\ 4 * n \in (1 - 1)..Len(s) /\ Len(s) \in (4 * n)..Len(s)
    BY <1>1
  <2>2. SubSeq(s, 1, Len(s)) = s
    BY SubSeqFull
  <2> QED
    BY <1>2, <2>1, <2>2, ConcatAdjacentSubSeq
<1> HIDE DEF r
<1>7. Len(Whole(s)) % 4 = 0
  BY <1>3, <1>4
<1> QED
  BY <1>1, <1>3, <1>5, <1>6, <1>7 DEF n, r

(* A feed hands on what the stream says: what it applies and what it       *)
(* leaves in front of the rest together say what was there.                *)
HandsOn(kept, bytes, rest, sample, fed, ch) ==
    LET stream == (kept \o bytes) \o rest
        left == fed.kept \o rest
    IN  /\ fed.kept \in Seq(Byte) /\ Len(fed.kept) < 4
        /\ Len(stream) % 4 = 0 => Len(left) % 4 = 0
        /\ SaidIn(stream, ch) = SaidIn(kept \o bytes, ch) \cup SaidIn(left, ch)
        /\ Latest(Quads(stream), ch, sample[ch]) = Latest(Quads(left), ch, fed.sample[ch])
        /\ fed.sample[ch] = Latest(Quads(kept \o bytes), ch, sample[ch])
        /\ ch \in fed.mask <=> About(Quads(kept \o bytes), ch) # {}

LEMMA FeedOfStream ==
    ASSUME NEW kept \in Seq(Byte), NEW bytes \in Seq(Byte), NEW rest \in Seq(Byte),
           NEW sample, NEW ch \in Channels
    PROVE  HandsOn(kept, bytes, rest, sample, Feed(kept, bytes, sample), ch)
<1> DEFINE k == kept \o bytes
           s == Whole(k)
           r == Rest(k)
           fed == Feed(kept, bytes, sample)
<1>1. k \in Seq(Byte)
  OBVIOUS
<1>2. fed.kept = r /\ fed.sample[ch] = Latest(Quads(k), ch, sample[ch])
      /\ (ch \in fed.mask <=> About(Quads(k), ch) # {})
  BY DEF Feed
<1> HIDE DEF k, fed
<1>3. /\ s \in Seq(Byte) /\ Len(s) % 4 = 0 /\ r \in Seq(Byte) /\ k = s \o r
      /\ Len(r) = Len(k) % 4 /\ Len(k) \in Nat
  BY <1>1, WholeAndRest, LenProperties
<1> HIDE DEF s, r
<1>4. About(Quads(r), ch) = {} /\ SaidIn(r, ch) = {}
  <2>1. Len(r) \div 4 = 0
    BY <1>3
  <2>2. DOMAIN Quads(r) = {}
    BY <2>1, QuadsCount
  <2> QED
    BY <2>2 DEF About, SaidIn
<1>5. Latest(Quads(k), ch, sample[ch]) = Latest(Quads(s), ch, sample[ch])
      /\ SaidIn(k, ch) = SaidIn(s, ch)
  <2>1. Latest(Quads(k), ch, sample[ch]) = Latest(Quads(r), ch, Latest(Quads(s), ch, sample[ch]))
    BY <1>3, LatestOfConcat
  <2>2. SaidIn(k, ch) = SaidIn(s, ch) \cup SaidIn(r, ch)
    BY <1>3, SaidInConcat
  <2> QED
    BY <1>4, <2>1, <2>2 DEF Latest
<1> DEFINE t == r \o rest
<1>6. k \o rest = s \o t /\ t \in Seq(Byte)
      /\ Len(t) = Len(r) + Len(rest) /\ Len(k \o rest) = Len(k) + Len(rest)
  <2>1. (s \o r) \o rest = s \o t
    <3>1. \A u, v, w \in Seq(Byte) : (u \o v) \o w = u \o (v \o w)
      BY BytesInARow
    <3>2. s \in Seq(Byte) /\ r \in Seq(Byte)
      BY <1>3
    <3> QED
      BY <3>1, <3>2
  <2>2. k \o rest = s \o t
    BY <1>3, <2>1
  <2>3. t \in Seq(Byte) /\ Len(t) = Len(r) + Len(rest)
    BY <1>3, ConcatProperties
  <2>4. Len(k \o rest) = Len(k) + Len(rest)
    BY <1>1, ConcatProperties
  <2> QED
    BY <2>2, <2>3, <2>4
<1> HIDE DEF t
<1>7. Latest(Quads(k \o rest), ch, sample[ch]) =
          Latest(Quads(t), ch, Latest(Quads(s), ch, sample[ch]))
  BY <1>3, <1>6, LatestOfConcat
<1>8. SaidIn(k \o rest, ch) = SaidIn(s, ch) \cup SaidIn(t, ch)
  BY <1>3, <1>6, SaidInConcat
<1>9. Len(k \o rest) % 4 = 0 => Len(t) % 4 = 0
  <2>1. Len(rest) \in Nat
    OBVIOUS
  <2> QED
    BY <1>3, <1>6, <2>1
<1>10. Len(r) < 4
  BY <1>3
<1>11. HandsOn(kept, bytes, rest, sample, fed, ch)
  BY <1>2, <1>3, <1>5, <1>7, <1>8, <1>9, <1>10 DEF HandsOn, k, t
<1> QED
  BY <1>11 DEF fed

LEMMA PacketIsASeq ==
    ASSUME NEW q \in [1..4 -> Byte]
    PROVE  q \in Seq(Byte) /\ Len(q) = 4
<1>1. q \in Seq(Byte)
  BY SeqDef
<1> QED
  BY <1>1

(* A stream of one packet.                                                 *)
LEMMA OnePacket ==
    ASSUME NEW q \in [1..4 -> Byte], NEW ch \in Channels, NEW old
    PROVE  /\ q \in Seq(Byte) /\ Len(q) = 4
           /\ Decodes(q) /\ q[1] = CodeOf[ch] =>
                /\ SaidIn(q, ch) = {PacketOf(q).value}
                /\ Latest(Quads(q), ch, old) = PacketOf(q).value
           /\ ~(Decodes(q) /\ q[1] = CodeOf[ch]) =>
                SaidIn(q, ch) = {} /\ Latest(Quads(q), ch, old) = old
<1>1. q \in Seq(Byte) /\ Len(q) = 4
  BY PacketIsASeq
<1>2. DOMAIN Quads(q) = {1} /\ Quads(q)[1] \in [1..4 -> Byte]
      /\ \A j \in 1..4 : Quads(q)[1][j] = q[4 * 1 - 4 + j]
  <2>1. Len(q) \div 4 = 1 /\ 1 \in 1..(Len(q) \div 4) /\ 1..1 = {1}
    BY <1>1
  <2>2. DOMAIN Quads(q) = {1}
    BY <2>1, QuadsCount
  <2>3. /\ Quads(q)[1] \in [1..4 -> Byte]
        /\ \A j \in 1..4 : Quads(q)[1][j] = q[4 * 1 - 4 + j]
    BY <1>1, <2>1, QuadsShape
  <2> QED
    BY <2>2, <2>3
<1>3. Quads(q)[1] = q
  <2>1. \A j \in 1..4 : 4 * 1 - 4 + j = j
    OBVIOUS
  <2>2. \A j \in 1..4 : Quads(q)[1][j] = q[j]
    BY <1>2, <2>1
  <2> QED
    BY <1>2, <2>2, SameQuad
<1>4. About(Quads(q), ch) = IF Decodes(q) /\ q[1] = CodeOf[ch] THEN {1} ELSE {}
  BY <1>2, <1>3 DEF About
<1>5. ASSUME Decodes(q) /\ q[1] = CodeOf[ch]
      PROVE  SaidIn(q, ch) = {PacketOf(q).value} /\ Latest(Quads(q), ch, old) = PacketOf(q).value
  <2>1. About(Quads(q), ch) = {1}
    BY <1>4, <1>5
  <2>2. SaidIn(q, ch) = {PacketOf(q).value}
    BY <1>3, <2>1 DEF SaidIn
  <2>3. Latest(Quads(q), ch, old) \in SaidIn(q, ch)
    BY <1>1, <2>1, SaidInType
  <2> QED
    BY <2>2, <2>3
<1>6. ASSUME ~(Decodes(q) /\ q[1] = CodeOf[ch])
      PROVE  SaidIn(q, ch) = {} /\ Latest(Quads(q), ch, old) = old
  BY <1>1, <1>4, <1>6, SaidInType
<1> QED
  BY <1>1, <1>5, <1>6

-----------------------------------------------------------------------------
(* A stream out of step: whole packets, less than a packet, and a byte     *)
(* less or more than there was.                                            *)

(* What is less than a packet at the end does not depend on whole packets  *)
(* in front.                                                               *)
LEMMA RestOfConcat ==
    ASSUME NEW s \in Seq(Byte), NEW t \in Seq(Byte), Len(s) % 4 = 0
    PROVE  Rest(s \o t) = Rest(t)
<1> DEFINE m == Len(s) \div 4  n == Len(t) \div 4  st == s \o t
<1>1. /\ st \in Seq(Byte) /\ Len(st) = Len(s) + Len(t) /\ Len(s) \in Nat /\ Len(t) \in Nat
      /\ \A k \in 1..Len(t) : st[Len(s) + k] = t[k]
  BY ConcatShape
<1>2. Len(s) = 4 * m /\ m \in Nat /\ n \in Nat /\ 4 * n <= Len(t)
  BY QuadsShape
<1>3. Len(st) \div 4 = m + n
  BY QuadsOfConcat
<1>4. /\ Rest(st) \in Seq(Byte) /\ Len(Rest(st)) = Len(st) % 4
      /\ \A j \in 1..(Len(st) % 4) : Rest(st)[j] = st[4 * (Len(st) \div 4) + j]
      /\ Rest(t) \in Seq(Byte) /\ Len(Rest(t)) = Len(t) % 4
      /\ \A j \in 1..(Len(t) % 4) : Rest(t)[j] = t[4 * n + j]
  BY <1>1, WholeAndRest
<1>5. Len(st) % 4 = Len(t) % 4 /\ Len(t) % 4 \in Nat /\ 4 * n + (Len(t) % 4) = Len(t)
  <2>1. \A a, b \in Nat : (4 * a + b) % 4 = b % 4
    OBVIOUS
  <2>2. (4 * m + Len(t)) % 4 = Len(t) % 4
    BY <1>1, <1>2, <2>1
  <2>3. Len(t) % 4 \in Nat /\ 4 * (Len(t) \div 4) + (Len(t) % 4) = Len(t)
    BY <1>1
  <2>4. Len(st) = 4 * m + Len(t)
    BY <1>1, <1>2
  <2> HIDE DEF m, st
  <2> QED
    BY <2>2, <2>3, <2>4
<1> HIDE DEF m, n, st
<1>6. \A j \in 1..(Len(t) % 4) : Rest(st)[j] = Rest(t)[j]
  <2> TAKE j \in 1..(Len(t) % 4)
  <2>1. 4 * n + j \in 1..Len(t)
    BY <1>1, <1>2, <1>5
  <2>2. 4 * (m + n) + j = Len(s) + (4 * n + j)
    BY <1>2
  <2>3. Rest(st)[j] = st[4 * (m + n) + j]
    BY <1>3, <1>4, <1>5
  <2> QED
    BY <1>1, <1>4, <2>1, <2>2, <2>3
<1>7. Rest(st) = Rest(t)
  BY <1>4, <1>5, <1>6, SeqEqual
<1> QED
  BY <1>7 DEF st

(* Whole packets cut from the front of a stream, what they say applied.    *)
PacketsCut(stream, left, old, new) ==
    \E s \in Seq(Byte) :
      /\ Len(s) % 4 = 0 /\ stream = s \o left
      /\ \A ch \in Channels : new[ch] = Latest(Quads(s), ch, old[ch])

LEMMA FeedCutsPackets ==
    ASSUME NEW kept \in Seq(Byte), NEW bytes \in Seq(Byte), NEW rest \in Seq(Byte), NEW old
    PROVE  LET fed == Feed(kept, bytes, old)
           IN  /\ fed.kept \o rest \in Seq(Byte)
               /\ PacketsCut((kept \o bytes) \o rest, fed.kept \o rest, old, fed.sample)
<1> DEFINE k == kept \o bytes
           s == Whole(k)
           r == Rest(k)
           fed == Feed(kept, bytes, old)
<1>1. k \in Seq(Byte)
  OBVIOUS
<1>2. fed.kept = r /\ \A ch \in Channels : fed.sample[ch] = Latest(Quads(k), ch, old[ch])
  BY DEF Feed
<1> HIDE DEF k, fed
<1>3. /\ s \in Seq(Byte) /\ Len(s) % 4 = 0 /\ r \in Seq(Byte) /\ k = s \o r
      /\ Len(r) = Len(k) % 4 /\ Len(k) \in Nat
  BY <1>1, WholeAndRest, LenProperties
<1> HIDE DEF s, r
<1>4. ASSUME NEW ch \in Channels PROVE fed.sample[ch] = Latest(Quads(s), ch, old[ch])
  <2>1. Latest(Quads(k), ch, old[ch]) = Latest(Quads(r), ch, Latest(Quads(s), ch, old[ch]))
    BY <1>3, LatestOfConcat
  <2>2. Len(r) \div 4 = 0
    BY <1>3
  <2>3. DOMAIN Quads(r) = {}
    BY <2>2, QuadsCount
  <2>4. About(Quads(r), ch) = {}
    BY <2>3 DEF About
  <2> QED
    BY <1>2, <2>1, <2>4 DEF Latest
<1>5. k \o rest = s \o (r \o rest)
  <2>1. s \in Seq(Byte) /\ r \in Seq(Byte) /\ k = s \o r
    BY <1>3
  <2>2. \A u, v, w \in Seq(Byte) : (u \o v) \o w = u \o (v \o w)
    BY BytesInARow
  <2> QED
    BY <2>1, <2>2
<1>6. r \o rest \in Seq(Byte)
  BY <1>3, ConcatProperties
<1>7. PacketsCut(k \o rest, fed.kept \o rest, old, fed.sample)
  BY <1>2, <1>3, <1>4, <1>5 DEF PacketsCut
<1> QED
  BY <1>2, <1>6, <1>7 DEF k, fed

(* A packet behind a stream that is out of step.                           *)
LEMMA OneMorePacket ==
    ASSUME NEW s \in Seq(Byte), NEW q \in [1..4 -> Byte]
    PROVE  LET n == Len(s) \div 4
               r == Len(s) % 4
           IN  /\ s \o q \in Seq(Byte) /\ Len(s \o q) \div 4 = n + 1 /\ Len(s \o q) % 4 = r
               /\ \A k \in 1..n : Quads(s \o q)[k] = Quads(s)[k]
               /\ \A j \in 1..4 : Quads(s \o q)[n + 1][j] = IF j <= r THEN Rest(s)[j] ELSE q[j - r]
               /\ \A j \in 1..r : Rest(s \o q)[j] = q[4 - r + j]
<1> DEFINE n == Len(s) \div 4
           r == Len(s) % 4
           t == s \o q
<1>1. q \in Seq(Byte) /\ Len(q) = 4
  BY PacketIsASeq
<1>2. /\ t \in Seq(Byte) /\ Len(t) = Len(s) + 4 /\ Len(s) \in Nat
      /\ \A k \in 1..Len(s) : t[k] = s[k]
      /\ \A k \in 1..4 : t[Len(s) + k] = q[k]
  <2>1. /\ t \in Seq(Byte) /\ Len(t) = Len(s) + Len(q) /\ Len(s) \in Nat
        /\ \A k \in 1..Len(s) : t[k] = s[k]
        /\ \A k \in 1..Len(q) : t[Len(s) + k] = q[k]
    <3>1. \A u, v \in Seq(Byte) :
            /\ u \o v \in Seq(Byte) /\ Len(u \o v) = Len(u) + Len(v) /\ Len(u) \in Nat
            /\ \A k \in 1..Len(u) : (u \o v)[k] = u[k]
            /\ \A k \in 1..Len(v) : (u \o v)[Len(u) + k] = v[k]
      BY ConcatShape
    <3> QED
      BY <1>1, <3>1
  <2> HIDE DEF t
  <2> QED
    BY <1>1, <2>1
<1>3. /\ n \in Nat /\ r \in 0..3 /\ Len(s) = 4 * n + r
      /\ (Len(s) + 4) \div 4 = n + 1 /\ (Len(s) + 4) % 4 = r
  <2>1. Len(s) \in Nat
    BY <1>2
  <2> QED
    BY <2>1
<1> HIDE DEF t
<1>t. Len(t) \div 4 = n + 1 /\ Len(t) % 4 = r
  BY <1>2, <1>3
<1>4. /\ \A k \in 1..(n + 1) : /\ Quads(t)[k] \in [1..4 -> Byte]
                               /\ \A j \in 1..4 : Quads(t)[k][j] = t[4 * k - 4 + j]
      /\ \A k \in 1..n : /\ Quads(s)[k] \in [1..4 -> Byte]
                         /\ \A j \in 1..4 : Quads(s)[k][j] = s[4 * k - 4 + j]
      /\ \A j \in 1..r : Rest(t)[j] = t[4 * (n + 1) + j]
      /\ \A j \in 1..r : Rest(s)[j] = s[4 * n + j]
  <2>1. \A k \in 1..(Len(t) \div 4) : /\ Quads(t)[k] \in [1..4 -> Byte]
                                      /\ \A j \in 1..4 : Quads(t)[k][j] = t[4 * k - 4 + j]
    BY <1>2, QuadsShape
  <2>2. \A j \in 1..(Len(t) % 4) : Rest(t)[j] = t[4 * (Len(t) \div 4) + j]
    BY <1>2, WholeAndRest
  <2> QED
    BY <1>t, <2>1, <2>2, QuadsShape, WholeAndRest
<1> HIDE DEF n, r
<1>5. ASSUME NEW k \in 1..n PROVE Quads(t)[k] = Quads(s)[k]
  <2>1. k \in 1..(n + 1) /\ \A j \in 1..4 : 4 * k - 4 + j \in 1..Len(s)
    BY <1>3
  <2>2. \A j \in 1..4 : Quads(t)[k][j] = Quads(s)[k][j]
    <3> TAKE j \in 1..4
    <3> DEFINE x == 4 * k - 4 + j
    <3>1. x \in 1..Len(s)
      BY <2>1
    <3>2. Quads(t)[k][j] = t[x]
      BY <1>4, <2>1
    <3>3. Quads(s)[k][j] = s[x]
      BY <1>4
    <3> HIDE DEF x
    <3> QED
      BY <1>2, <3>1, <3>2, <3>3
  <2> QED
    BY <1>4, <2>1, <2>2, SameQuad
<1>6. ASSUME NEW j \in 1..4
      PROVE  Quads(t)[n + 1][j] = IF j <= r THEN Rest(s)[j] ELSE q[j - r]
  <2>1. Quads(t)[n + 1][j] = t[4 * n + j]
    <3>1. n + 1 \in 1..(n + 1) /\ 4 * (n + 1) - 4 + j = 4 * n + j
      BY <1>3
    <3> QED
      BY <1>4, <3>1
  <2>2. CASE j <= r
    <3>1. j \in 1..r /\ 4 * n + j \in 1..Len(s)
      BY <1>3, <2>2
    <3>2. t[4 * n + j] = s[4 * n + j]
      BY <1>2, <3>1
    <3>3. Rest(s)[j] = s[4 * n + j]
      BY <1>4, <3>1
    <3> QED
      BY <2>1, <2>2, <3>2, <3>3
  <2>3. CASE ~(j <= r)
    <3>1. j - r \in 1..4 /\ 4 * n + j = Len(s) + (j - r)
      BY <1>3, <2>3
    <3> QED
      BY <1>2, <2>1, <2>3, <3>1
  <2> QED
    BY <2>2, <2>3
<1>7. ASSUME NEW j \in 1..r PROVE Rest(t)[j] = q[4 - r + j]
  <2>1. 4 * (n + 1) + j = Len(s) + (4 - r + j) /\ 4 - r + j \in 1..4
    BY <1>3
  <2> QED
    BY <1>2, <1>4, <2>1
<1> QED
  BY <1>2, <1>t, <1>5, <1>6, <1>7 DEF n, r, t

(* A byte less.                                                            *)
Without(t, s, n) ==
    /\ t \in Seq(Byte) /\ Len(t) = Len(s) - 1
    /\ \A x \in 1..Len(t) : t[x] = IF x < n THEN s[x] ELSE s[x + 1]

(* A byte more.                                                            *)
With(t, s, n, b) ==
    /\ t \in Seq(Byte) /\ Len(t) = Len(s) + 1
    /\ \A x \in 1..Len(t) : t[x] = IF x < n THEN s[x] ELSE IF x = n THEN b ELSE s[x - 1]

(* Where the line takes a byte or makes one up.                            *)
LEMMA PartOf ==
    ASSUME NEW s \in Seq(Byte), NEW a \in 1..(Len(s) + 1), NEW b \in 0..Len(s), a <= b + 1
    PROVE  /\ SubSeq(s, a, b) \in Seq(Byte) /\ Len(SubSeq(s, a, b)) = b - a + 1
           /\ \A x \in 1..(b - a + 1) : SubSeq(s, a, b)[x] = s[a + x - 1]
<1>1. Len(s) \in Nat /\ a \in Int /\ b \in Int /\ 1 <= a /\ b <= Len(s)
  BY LenProperties
<1>2. \A i \in a..b : s[i] \in Byte
  <2>1. \A i \in a..b : i \in 1..Len(s)
    BY <1>1
  <2> QED
    BY <2>1
<1>3. IF a <= b THEN b - a + 1 = b - a + 1 ELSE 0 = b - a + 1
  BY <1>1
<1> QED
  BY <1>1, <1>2, <1>3, SubSeqProperties

(* A sequence of n bytes, the first c of them in s.                        *)
Joins(w, s, t, c, n) ==
    /\ w \in Seq(Byte) /\ Len(w) = n
    /\ \A x \in 1..n : w[x] = IF x <= c THEN s[x] ELSE t[x - c]

LEMMA TwoParts ==
    ASSUME NEW s \in Seq(Byte), NEW t \in Seq(Byte)
    PROVE  Joins(s \o t, s, t, Len(s), Len(s) + Len(t))
  BY ConcatProperties DEF Joins

LEMMA RemovedAt ==
    ASSUME NEW s \in Seq(Byte), NEW i \in 1..Len(s)
    PROVE  Without(RemoveAt(s, i), s, i)
<1> DEFINE l == Len(s)  a == SubSeq(s, 1, i - 1)
           from == i + 1  z == SubSeq(s, from, l)  w == a \o z
<1>1. l \in Nat /\ i \in Int /\ 1 <= i /\ i <= l
  BY LenProperties
<1>2. a \in Seq(Byte) /\ Len(a) = i - 1 /\ \A x \in 1..(i - 1) : a[x] = s[x]
  <2>1. /\ 1 \in 1..(l + 1) /\ i - 1 \in 0..l /\ 1 <= i - 1 + 1 /\ i - 1 - 1 + 1 = i - 1
        /\ \A x \in Int : 1 + x - 1 = x
    BY <1>1
  <2> QED
    BY <2>1, PartOf
<1>3. z \in Seq(Byte) /\ Len(z) = l - i /\ \A x \in 1..(l - i) : z[x] = s[i + x]
  <2>1. /\ from \in 1..(l + 1) /\ l \in 0..l /\ from <= l + 1 /\ l - from + 1 = l - i
        /\ \A x \in 1..(l - i) : from + x - 1 = i + x
    BY <1>1
  <2> HIDE DEF from
  <2> QED
    BY <2>1, PartOf
<1>4. RemoveAt(s, i) = w
  BY DEF RemoveAt
<1> HIDE DEF a, z
<1>5. /\ w \in Seq(Byte) /\ Len(w) = l - 1
      /\ \A x \in 1..(l - 1) : w[x] = IF x <= i - 1 THEN a[x] ELSE z[x - (i - 1)]
  <2>1. Len(a) + Len(z) = l - 1 /\ Len(a) = i - 1
    BY <1>1, <1>2, <1>3
  <2>2. Joins(a \o z, a, z, Len(a), Len(a) + Len(z))
    BY <1>2, <1>3, TwoParts
  <2>3. Joins(w, a, z, i - 1, l - 1)
    BY <2>1, <2>2
  <2> HIDE DEF w
  <2> QED
    BY <2>3 DEF Joins
<1> HIDE DEF l, w
<1>6. ASSUME NEW x \in 1..(l - 1)
      PROVE  w[x] = IF x < i THEN s[x] ELSE s[x + 1]
  <2>1. CASE x < i
    <3>1. x \in 1..(i - 1) /\ x <= i - 1
      BY <1>1, <2>1
    <3> QED
      BY <1>2, <1>5, <2>1, <3>1
  <2>2. CASE ~(x < i)
    <3>1. x - (i - 1) \in 1..(l - i) /\ ~(x <= i - 1) /\ i + (x - (i - 1)) = x + 1
      BY <1>1, <2>2
    <3>2. z[x - (i - 1)] = s[x + 1]
      BY <1>3, <3>1
    <3> QED
      BY <1>5, <2>2, <3>1, <3>2
  <2> QED
    BY <2>1, <2>2
<1> QED
  BY <1>4, <1>5, <1>6 DEF Without, l

LEMMA InsertedAt ==
    ASSUME NEW s \in Seq(Byte), NEW i \in 1..(Len(s) + 1), NEW b \in Byte
    PROVE  With(InsertAt(s, i, b), s, i, b)
<1> DEFINE l == Len(s)  a == SubSeq(s, 1, i - 1)  z == SubSeq(s, i, l)  m == <<b>>
           am == a \o m  w == am \o z
<1>1. l \in Nat /\ i \in Int /\ 1 <= i /\ i <= l + 1
  BY LenProperties
<1>2. a \in Seq(Byte) /\ Len(a) = i - 1 /\ \A x \in 1..(i - 1) : a[x] = s[x]
  <2>1. /\ 1 \in 1..(l + 1) /\ i - 1 \in 0..l /\ 1 <= i - 1 + 1 /\ i - 1 - 1 + 1 = i - 1
        /\ \A x \in Int : 1 + x - 1 = x
    BY <1>1
  <2> QED
    BY <2>1, PartOf
<1>3. z \in Seq(Byte) /\ Len(z) = l - i + 1 /\ \A x \in 1..(l - i + 1) : z[x] = s[i + x - 1]
  <2>1. i \in 1..(l + 1) /\ l \in 0..l /\ i <= l + 1
    BY <1>1
  <2> QED
    BY <2>1, PartOf
<1>4. InsertAt(s, i, b) = w
  BY DEF InsertAt
<1>5. m \in Seq(Byte) /\ Len(m) = 1 /\ m[1] = b
  OBVIOUS
<1> HIDE DEF a, z, m
<1>6. /\ am \in Seq(Byte) /\ Len(am) = i
      /\ \A x \in 1..i : am[x] = IF x <= i - 1 THEN a[x] ELSE m[x - (i - 1)]
  <2>1. Len(a) + Len(m) = i /\ Len(a) = i - 1
    BY <1>1, <1>2, <1>5
  <2>2. Joins(a \o m, a, m, Len(a), Len(a) + Len(m))
    BY <1>2, <1>5, TwoParts
  <2>3. Joins(am, a, m, i - 1, i)
    BY <2>1, <2>2
  <2> HIDE DEF am
  <2> QED
    BY <2>3 DEF Joins
<1> HIDE DEF am
<1>7. /\ w \in Seq(Byte) /\ Len(w) = l + 1
      /\ \A x \in 1..(l + 1) : w[x] = IF x <= i THEN am[x] ELSE z[x - i]
  <2>1. Len(am) + Len(z) = l + 1 /\ Len(am) = i
    BY <1>1, <1>3, <1>6
  <2>2. Joins(am \o z, am, z, Len(am), Len(am) + Len(z))
    BY <1>3, <1>6, TwoParts
  <2>3. Joins(w, am, z, i, l + 1)
    BY <2>1, <2>2
  <2> HIDE DEF w
  <2> QED
    BY <2>3 DEF Joins
<1> HIDE DEF l, w
<1>8. ASSUME NEW x \in 1..(l + 1)
      PROVE  w[x] = IF x < i THEN s[x] ELSE IF x = i THEN b ELSE s[x - 1]
  <2>1. CASE x < i
    <3>1. x \in 1..(i - 1) /\ x <= i - 1 /\ x \in 1..i /\ x <= i
      BY <1>1, <2>1
    <3> QED
      BY <1>2, <1>6, <1>7, <2>1, <3>1
  <2>2. CASE x = i
    <3>1. i \in 1..i /\ i <= i /\ ~(i <= i - 1) /\ i - (i - 1) = 1 /\ ~(i < i)
      BY <1>1
    <3>2. am[i] = b
      BY <1>5, <1>6, <3>1
    <3> QED
      BY <1>7, <2>2, <3>1, <3>2
  <2>3. CASE x > i
    <3>1. x - i \in 1..(l - i + 1) /\ ~(x <= i) /\ i + (x - i) - 1 = x - 1 /\ ~(x < i) /\ x # i
      BY <1>1, <2>3
    <3>2. z[x - i] = s[x - 1]
      BY <1>3, <3>1
    <3> QED
      BY <1>7, <3>1, <3>2
  <2> QED
    BY <1>1, <2>1, <2>2, <2>3
<1> QED
  BY <1>4, <1>7, <1>8 DEF With, l

(* A byte of the wire is one of the stream, behind what the parser keeps.  *)
LEMMA WithoutBehind ==
    ASSUME NEW u \in Seq(Byte), NEW s \in Seq(Byte), NEW i \in 1..Len(s), NEW t, Without(t, s, i)
    PROVE  Without(u \o t, u \o s, Len(u) + i)
<1> DEFINE us == u \o s  ut == u \o t  c == Len(u)  l == Len(s)
<1>1. c \in Nat /\ l \in Nat /\ i \in Int /\ 1 <= i /\ i <= l
  BY LenProperties
<1>2. /\ t \in Seq(Byte) /\ Len(t) = l - 1
      /\ \A x \in 1..(l - 1) : t[x] = IF x < i THEN s[x] ELSE s[x + 1]
  BY DEF Without
<1>3. /\ us \in Seq(Byte) /\ Len(us) = c + l
      /\ \A x \in 1..(c + l) : us[x] = IF x <= c THEN u[x] ELSE s[x - c]
  BY TwoParts DEF Joins
<1>4. /\ ut \in Seq(Byte) /\ Len(ut) = c + (l - 1)
      /\ \A x \in 1..(c + (l - 1)) : ut[x] = IF x <= c THEN u[x] ELSE t[x - c]
  <2>1. Len(u) + Len(t) = c + (l - 1)
    BY <1>2
  <2>2. Joins(u \o t, u, t, Len(u), Len(u) + Len(t))
    BY <1>2, TwoParts
  <2>3. Joins(ut, u, t, c, c + (l - 1))
    BY <2>1, <2>2
  <2> HIDE DEF ut, c, l
  <2> QED
    BY <2>3 DEF Joins
<1> HIDE DEF us, ut, c, l
<1>5. ASSUME NEW x \in 1..(c + (l - 1))
      PROVE  ut[x] = IF x < c + i THEN us[x] ELSE us[x + 1]
  <2>1. CASE x <= c
    <3>1. x \in 1..(c + l) /\ x < c + i
      BY <1>1, <2>1
    <3> QED
      BY <1>3, <1>4, <2>1, <3>1
  <2>2. CASE ~(x <= c)
    <3>1. /\ x - c \in 1..(l - 1) /\ x \in 1..(c + l) /\ x + 1 \in 1..(c + l) /\ ~(x + 1 <= c)
          /\ (x + 1) - c = (x - c) + 1 /\ (x < c + i <=> x - c < i)
      BY <1>1, <2>2
    <3>2. ut[x] = t[x - c] /\ us[x] = s[x - c] /\ us[x + 1] = s[(x - c) + 1]
      <4>1. ut[x] = t[x - c]
        BY <1>4, <2>2
      <4>2. us[x] = s[x - c]
        BY <1>3, <2>2, <3>1
      <4>3. us[x + 1] = s[(x + 1) - c]
        BY <1>3, <3>1
      <4> QED
        BY <3>1, <4>1, <4>2, <4>3
    <3>3. t[x - c] = IF x - c < i THEN s[x - c] ELSE s[(x - c) + 1]
      BY <1>2, <3>1
    <3> QED
      BY <3>1, <3>2, <3>3
  <2> QED
    BY <2>1, <2>2
<1>6. Len(ut) = Len(us) - 1
  BY <1>1, <1>3, <1>4
<1>7. Without(ut, us, c + i)
  BY <1>4, <1>5, <1>6 DEF Without
<1> QED
  BY <1>7 DEF us, ut, c

LEMMA WithBehind ==
    ASSUME NEW u \in Seq(Byte), NEW s \in Seq(Byte), NEW i \in 1..(Len(s) + 1), NEW b,
           NEW t, With(t, s, i, b)
    PROVE  With(u \o t, u \o s, Len(u) + i, b)
<1> DEFINE us == u \o s  ut == u \o t  c == Len(u)  l == Len(s)
<1>1. c \in Nat /\ l \in Nat /\ i \in Int /\ 1 <= i /\ i <= l + 1
  BY LenProperties
<1>2. /\ t \in Seq(Byte) /\ Len(t) = l + 1
      /\ \A x \in 1..(l + 1) : t[x] = IF x < i THEN s[x] ELSE IF x = i THEN b ELSE s[x - 1]
  BY DEF With
<1>3. /\ us \in Seq(Byte) /\ Len(us) = c + l
      /\ \A x \in 1..(c + l) : us[x] = IF x <= c THEN u[x] ELSE s[x - c]
  BY TwoParts DEF Joins
<1>4. /\ ut \in Seq(Byte) /\ Len(ut) = c + (l + 1)
      /\ \A x \in 1..(c + (l + 1)) : ut[x] = IF x <= c THEN u[x] ELSE t[x - c]
  <2>1. Len(u) + Len(t) = c + (l + 1)
    BY <1>2
  <2>2. Joins(u \o t, u, t, Len(u), Len(u) + Len(t))
    BY <1>2, TwoParts
  <2>3. Joins(ut, u, t, c, c + (l + 1))
    BY <2>1, <2>2
  <2> HIDE DEF ut, c, l
  <2> QED
    BY <2>3 DEF Joins
<1> HIDE DEF us, ut, c, l
<1>5. ASSUME NEW x \in 1..(c + (l + 1))
      PROVE  ut[x] = IF x < c + i THEN us[x] ELSE IF x = c + i THEN b ELSE us[x - 1]
  <2>1. CASE x <= c
    <3>1. x \in 1..(c + l) /\ x < c + i
      BY <1>1, <2>1
    <3> QED
      BY <1>3, <1>4, <2>1, <3>1
  <2>2. CASE ~(x <= c)
    <3>1. x - c \in 1..(l + 1) /\ (x < c + i <=> x - c < i) /\ (x = c + i <=> x - c = i)
      BY <1>1, <2>2
    <3>2. ut[x] = IF x - c < i THEN s[x - c] ELSE IF x - c = i THEN b ELSE s[(x - c) - 1]
      BY <1>2, <1>4, <2>2, <3>1
    <3>3. x - c < i => us[x] = s[x - c]
      <4>1. x - c < i => x \in 1..(c + l)
        BY <1>1, <2>2
      <4> QED
        BY <1>3, <2>2, <4>1
    <3>4. x - c > i => us[x - 1] = s[(x - c) - 1]
      <4>1. x - c > i => x - 1 \in 1..(c + l) /\ ~(x - 1 <= c) /\ x - 1 - c = (x - c) - 1
        BY <1>1, <2>2
      <4> QED
        BY <1>3, <4>1
    <3>5. x - c < i \/ x - c = i \/ (x - c > i /\ ~(x - c < i) /\ x - c # i)
      BY <1>1
    <3> QED
      BY <3>1, <3>2, <3>3, <3>4, <3>5
  <2> QED
    BY <2>1, <2>2
<1>6. Len(ut) = Len(us) + 1
  BY <1>1, <1>3, <1>4
<1>7. With(ut, us, c + i, b)
  BY <1>4, <1>5, <1>6 DEF With
<1> QED
  BY <1>7 DEF us, ut, c
=============================================================================
