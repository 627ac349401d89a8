--------------------------- MODULE ServoProtocol ---------------------------
(***************************************************************************)
(* The packets between the pilot and the motor driver: four bytes, a code, *)
(* a value of 16 bits and a checksum over both; and the parser, which      *)
(* takes four bytes at a time from the start of the stream on and drops    *)
(* them, whether they pass or not.                                         *)
(*                                                                         *)
(* A sample holds the last value of each channel as the number on the      *)
(* wire: the scaling to volts, amperes and rudder travel is a function of  *)
(* it and keeps values apart.                                              *)
(***************************************************************************)
EXTENDS Integers, SequencesExt, Bytes

CONSTANT Unset  \* no value has come yet

CrossedWith(a, b) == <<Xor(a[1], b[1]), Xor(a[2], b[2]), Xor(a[3], b[3]), Xor(a[4], b[4])>>

(* Damage to eight consecutive bits of the 32 at most: to the lower bits   *)
(* of one byte, those below p, and to the upper bits of the next.          *)
IsBurst(e) ==
    /\ e \in [1..4 -> Byte]
    /\ \E k \in 1..3 : \E p \in {1, 2, 4, 8, 16, 32, 64, 128, 256} :
         /\ \A i \in 1..4 \ {k, k + 1} : e[i] = 0
         /\ e[k] < p /\ e[k + 1] % p = 0
         /\ e[k] # 0 \/ e[k + 1] # 0

(* crc8_update: eight shifts, polynomial 0x31.                             *)
Shift(crc) == IF crc >= 128 THEN Xor((crc * 2) % 256, 49) ELSE crc * 2

CrcTable == [b \in Byte |-> Shift(Shift(Shift(Shift(Shift(Shift(Shift(Shift(b))))))))]

Crc8Update(crc, byte) == CrcTable[Xor(crc, byte)]

Crc8OverTwo(bytes) == Crc8Update(Crc8Update(255, bytes[1]), bytes[2])

(* Over the first three bytes.                                             *)
Crc8(bytes) == Crc8Update(Crc8Update(Crc8Update(255, bytes[1]), bytes[2]), bytes[3])

Encode(code, value) ==
    LET body == <<code, value % 256, value \div 256>> IN Append(body, Crc8(body))

DecodesUnchecked(q) == TRUE

Decodes(q) == Crc8(q) = q[4]

PacketOf(q) == [code |-> q[1], value |-> q[2] + 256 * q[3]]

(* apply_packet: what the code of a telemetry packet is about.             *)
Channels == {"voltage", "current", "rudder", "flags"}

CodeOf == [voltage |-> 179, current |-> 28, rudder |-> 167, flags |-> 143]

NoSample == [ch \in Channels |-> Unset]

(* Parser::feed, on what it kept (always less than a packet) and the bytes *)
(* that came: the bytes it keeps, the sample, and the channels it saw.     *)
(* Packets are applied one after the other: the last one about a channel   *)
(* stays.                                                                  *)
Quads(bytes) == [i \in 1..(Len(bytes) \div 4) |-> SubSeq(bytes, 4 * i - 3, 4 * i)]

Rest(bytes) == SubSeq(bytes, 4 * (Len(bytes) \div 4) + 1, Len(bytes))

About(quads, ch) == {i \in DOMAIN quads : Decodes(quads[i]) /\ quads[i][1] = CodeOf[ch]}

Latest(quads, ch, old) ==
    IF About(quads, ch) = {} THEN old ELSE PacketOf(quads[Max(About(quads, ch))]).value

FeedForgetsTheRest(kept, bytes, sample) ==
    LET quads == Quads(kept \o bytes)
    IN  [kept |-> <<>>,
         sample |-> [ch \in Channels |-> Latest(quads, ch, sample[ch])],
         mask |-> {ch \in Channels : About(quads, ch) # {}}]

Feed(kept, bytes, sample) ==
    LET quads == Quads(kept \o bytes)
    IN  [kept |-> Rest(kept \o bytes),
         sample |-> [ch \in Channels |-> Latest(quads, ch, sample[ch])],
         mask |-> {ch \in Channels : About(quads, ch) # {}}]

(* ServoFlags::ENGAGED is the flags' fourth bit.                           *)
SaysEngaged(flags) == flags # Unset /\ (flags \div 8) % 2 = 1
=============================================================================
