------------------------------- MODULE Bytes -------------------------------
(***************************************************************************)
(* Bytes and 16-bit words as numbers, the eight bits of a byte (the most  *)
(* significant first), and the exclusive or of two bytes, C++'s ^.         *)
(***************************************************************************)
EXTENDS Integers

Byte == 0..255

Word == {n \in Nat : n < 65536}

Bits(b) == <<(b \div 128) % 2, (b \div 64) % 2, (b \div 32) % 2, (b \div 16) % 2,
             (b \div 8) % 2, (b \div 4) % 2, (b \div 2) % 2, b % 2>>

FromBits(s) ==
    128 * s[1] + 64 * s[2] + 32 * s[3] + 16 * s[4] + 8 * s[5] + 4 * s[6] + 2 * s[7] + s[8]

XorBits(s, t) == [k \in 1..8 |-> (s[k] + t[k]) % 2]

XorTable == [a \in Byte |-> [b \in Byte |-> FromBits(XorBits(Bits(a), Bits(b)))]]

Xor(a, b) == XorTable[a][b]
=============================================================================
