-------------------------- MODULE InstrumentsProofs --------------------------
(***************************************************************************)
(* The instruments' properties for every set of packets, bursts of damage, *)
(* sentences, samples, devices and calibrations, and any number of inputs  *)
(* and faults.                                                             *)
(***************************************************************************)
EXTENDS Instruments, ServoProtocolProofs, FiniteSetTheorems

Shown == {"voltage", "current", "flags"}

(* What is on its way: the bytes the parser keeps, and those behind them.  *)
Stream == kept \o wire

(* The parts of the inductive invariant.                                   *)
LinkTypes ==
    /\ wire \in Seq(Byte) /\ kept \in Seq(Byte) /\ Len(kept) < 4
    /\ sample \in [Channels -> Word \cup {Unset}]
    /\ last \in [Channels -> Word \cup {Unset}]
    /\ said \in [Channels -> SUBSET Word]

ServoInv ==
    /\ DOMAIN servo = Shown \cup {"engaged"}
    /\ servo.engaged \in BOOLEAN /\ ap_enabled \in BOOLEAN
    /\ \A ch \in Shown : servo[ch] = sample[ch]

RudderOk(r) ==
    /\ DOMAIN r = {"angle", "source", "valid", "raw", "raw_valid", "last_device", "offset",
                   "range", "min_raw", "max_raw"}
    /\ r.valid \in BOOLEAN /\ r.raw_valid \in BOOLEAN
    /\ r.last_device \in Devices \cup {"servo", NoDevice}
    /\ r.offset \in Int /\ r.range \in Int
    /\ r.min_raw \in Int /\ r.max_raw \in Int
    /\ -50 <= r.min_raw /\ r.min_raw <= r.max_raw /\ r.max_raw <= 50
    /\ r.raw_valid => r.last_device # NoDevice /\ r.raw # NaN

(* As long as no byte was lost or added, the stream is whole packets, what *)
(* passes the checksum was said, and once all of it is applied the sample  *)
(* is what was said last.                                                  *)
InOrder(ch) ==
    /\ SaidIn(Stream, ch) \subseteq said[ch]
    /\ sample[ch] \in said[ch] \cup {Unset}
    /\ last[ch] = Latest(Quads(Stream), ch, sample[ch])

InStep == ~slipped => Len(Stream) % 4 = 0 /\ \A ch \in Channels : InOrder(ch)

IInv == LinkTypes /\ ServoInv /\ RudderOk(rudder) /\ EngagedIsExplained /\ InStep

-----------------------------------------------------------------------------
(* The rudder.                                                             *)

LEMMA ClampRange ==
    ASSUME NEW x \in Int
    PROVE  Clamp(x) \in Int /\ -50 <= Clamp(x) /\ Clamp(x) <= 50
  BY DEF Clamp

LEMMA RudderInitOk == RudderOk(RudderInit)
<1> DEFINE r == [angle |-> 0, source |-> "none", valid |-> FALSE, raw |-> 0, raw_valid |-> FALSE,
                 last_device |-> NoDevice, offset |-> 0, range |-> 45, min_raw |-> 0, max_raw |-> 0]
<1>1. RudderInit = [r EXCEPT !.min_raw = -45, !.max_raw = 45]
  BY DEF RudderInit, UpdateMinMax, Clamp
<1> QED
  BY <1>1 DEF RudderOk

LEMMA UpdateMinMaxOk ==
    ASSUME NEW r, RudderOk(r)
    PROVE  /\ RudderOk(UpdateMinMax(r))
           /\ \A f \in {"angle", "source", "valid", "raw", "raw_valid", "last_device", "offset", "range"} :
                UpdateMinMax(r)[f] = r[f]
<1> DEFINE a == Clamp(-r.range - r.offset)
           b == Clamp(r.range - r.offset)
           lo == IF a > b THEN b ELSE a
           hi == IF a > b THEN a ELSE b
<1>1. a \in Int /\ -50 <= a /\ a <= 50 /\ b \in Int /\ -50 <= b /\ b <= 50
  BY ClampRange DEF RudderOk
<1>2. UpdateMinMax(r) = [r EXCEPT !.min_raw = lo, !.max_raw = hi]
  BY DEF UpdateMinMax
<1> HIDE DEF a, b
<1>3. lo \in Int /\ hi \in Int /\ -50 <= lo /\ lo <= hi /\ hi <= 50
  BY <1>1
<1> HIDE DEF lo, hi
<1> QED
  BY <1>2, <1>3 DEF RudderOk

LEMMA ResetOk ==
    ASSUME NEW r, RudderOk(r)
    PROVE  RudderOk(Reset(r))
  BY DEF RudderOk, Reset

LEMMA UpdateOk ==
    ASSUME NEW r, RudderOk(r), NEW raw, NEW d \in Devices \cup {"servo"}
    PROVE  RudderOk(Update(r, raw, d))
<1>1. CASE d # r.last_device
  BY <1>1, NoDeviceIsNone DEF RudderOk, Update, Reset
<1>2. CASE d = r.last_device /\ raw = NaN
  BY <1>2, ResetOk DEF Update
<1>3. CASE d = r.last_device /\ raw # NaN
  <2> DEFINE m == UpdateMinMax(r)
  <2>1. RudderOk(m) /\ m.last_device = d
    BY <1>3, UpdateMinMaxOk
  <2>2. Update(r, raw, d) = [m EXCEPT !.raw = raw, !.raw_valid = TRUE, !.angle = AngleOf(raw, r.offset),
                                      !.source = "servo", !.valid = TRUE]
    BY <1>3 DEF Update
  <2> HIDE DEF m
  <2> QED
    BY <1>3, <2>1, <2>2, NoDeviceIsNone DEF RudderOk
<1> QED
  BY <1>1, <1>2, <1>3

(* A poll takes the sample that is there.                                  *)
LEMMA PollOk ==
    ASSUME NEW r, RudderOk(r)
    PROVE  /\ RudderOk(Poll(r))
           /\ r.raw_valid => /\ Poll(r).valid /\ Poll(r).raw_valid
                             /\ Poll(r).angle = AngleOf(r.raw, r.offset)
<1> DEFINE m == UpdateMinMax(r)
<1>1. /\ RudderOk(m) /\ m.raw = r.raw /\ m.last_device = r.last_device /\ m.offset = r.offset
      /\ m.raw_valid = r.raw_valid
  BY UpdateMinMaxOk
<1>2. CASE ~r.raw_valid
  BY <1>1, <1>2 DEF Poll
<1>3. CASE r.raw_valid
  <2> DEFINE n == UpdateMinMax(m)
  <2>1. r.last_device \in Devices \cup {"servo"} /\ r.last_device # NoDevice /\ r.raw # NaN
    BY <1>3 DEF RudderOk
  <2>2. Poll(r) = Update(m, r.raw, r.last_device)
    BY <1>3, <2>1 DEF Poll
  <2>3. RudderOk(Poll(r))
    BY <1>1, <2>1, <2>2, UpdateOk
  <2>4. RudderOk(n)
    BY <1>1, UpdateMinMaxOk
  <2> HIDE DEF m
  <2>5. Update(m, r.raw, r.last_device) =
          [n EXCEPT !.raw = r.raw, !.raw_valid = TRUE, !.angle = AngleOf(r.raw, m.offset),
                    !.source = "servo", !.valid = TRUE]
    BY <1>1, <2>1 DEF Update
  <2> HIDE DEF n
  <2> QED
    BY <1>1, <2>2, <2>3, <2>4, <2>5 DEF RudderOk
<1> QED
  BY <1>2, <1>3

-----------------------------------------------------------------------------
(* The link.                                                               *)

LEMMA PartType ==
    ASSUME NEW s \in Seq(Byte), NEW a \in Int, NEW b \in Int, 1 <= a, b <= Len(s)
    PROVE  SubSeq(s, a, b) \in Seq(Byte)
<1>1. \A i \in a..b : s[i] \in Byte
  OBVIOUS
<1> QED
  BY <1>1, SubSeqProperties

LEMMA InitInv == Init => IInv
<1> SUFFICES ASSUME Init PROVE IInv
  OBVIOUS
<1>1. LinkTypes
  BY DEF Init, LinkTypes, NoSample
<1>2. ServoInv
  <2>1. servo = [voltage |-> Unset, current |-> Unset, flags |-> Unset, engaged |-> FALSE]
        /\ ap_enabled = FALSE
    BY DEF Init
  <2>2. DOMAIN servo = {"voltage", "current", "flags", "engaged"}
        /\ servo["voltage"] = Unset /\ servo["current"] = Unset /\ servo["flags"] = Unset
        /\ servo.engaged = FALSE
    BY <2>1
  <2>3. \A ch \in Shown : sample[ch] = Unset
    BY DEF Init, NoSample, Shown, Channels
  <2>4. Shown \cup {"engaged"} = {"voltage", "current", "flags", "engaged"}
    BY DEF Shown
  <2> QED
    BY <2>1, <2>2, <2>3, <2>4 DEF ServoInv, Shown
<1>3. RudderOk(rudder) /\ EngagedIsExplained
  BY RudderInitOk DEF Init, EngagedIsExplained
<1>4. InStep
  <2>1. Stream = <<>> /\ Stream \in Seq(Byte) /\ Len(Stream) = 0
    <3>1. Stream = <<>> \o <<>>
      BY DEF Init, Stream
    <3>2. <<>> \o <<>> = <<>>
      BY EmptySeq, ConcatEmptySeq
    <3> QED
      BY <3>1, <3>2, EmptySeq
  <2>2. DOMAIN Quads(Stream) = {}
    <3>1. 0 \div 4 = 0 /\ 1..0 = {}
      OBVIOUS
    <3> HIDE DEF Stream
    <3> QED
      BY <2>1, <3>1, QuadsShape
  <2>3. \A ch \in Channels : About(Quads(Stream), ch) = {}
    BY <2>2 DEF About
  <2>4. \A ch \in Channels : sample[ch] = Unset /\ last[ch] = Unset
    BY DEF Init, NoSample
  <2> QED
    BY <2>1, <2>3, <2>4 DEF InStep, InOrder, SaidIn, Latest
<1> QED
  BY <1>1, <1>2, <1>3, <1>4 DEF IInv

LEMMA CodesAreTheirs ==
    /\ \A ch \in Channels : CodeOf[ch] \in Byte
    /\ \A ch, other \in Channels : CodeOf[ch] = CodeOf[other] => ch = other
  BY DEF Channels, CodeOf, Byte

LEMMA PacketForIsWhole ==
    ASSUME NEW t \in Telemetry
    PROVE  /\ t[1] \in Channels /\ t[2] \in Word
           /\ PacketFor(t) \in [1..4 -> Byte] /\ Decodes(PacketFor(t))
           /\ PacketFor(t)[1] = CodeOf[t[1]] /\ PacketOf(PacketFor(t)).value = t[2]
<1>1. t[1] \in Channels /\ t[2] \in Word
  BY TelemetryIsKnown
<1>2. CodeOf[t[1]] \in Byte
  BY <1>1, CodesAreTheirs
<1>3. /\ PacketFor(t) \in [1..4 -> Byte] /\ Decodes(PacketFor(t))
      /\ PacketOf(PacketFor(t)) = [code |-> CodeOf[t[1]], value |-> t[2]]
  BY <1>1, <1>2, EncodedDecodes DEF PacketFor
<1>4. PacketOf(PacketFor(t)).code = PacketFor(t)[1]
  BY DEF PacketOf
<1> QED
  BY <1>1, <1>3, <1>4

(* Four more bytes on the wire.                                            *)
LEMMA MoreOnTheWire ==
    ASSUME LinkTypes, NEW q \in [1..4 -> Byte], wire' = wire \o q, UNCHANGED kept
    PROVE  /\ wire' \in Seq(Byte)
           /\ Len(Stream) % 4 = 0 =>
                /\ Len(Stream') % 4 = 0
                /\ \A ch \in Channels :
                     /\ SaidIn(Stream', ch) = SaidIn(Stream, ch) \cup SaidIn(q, ch)
                     /\ Latest(Quads(Stream'), ch, sample[ch]) =
                           Latest(Quads(q), ch, Latest(Quads(Stream), ch, sample[ch]))
<1>1. wire \in Seq(Byte) /\ kept \in Seq(Byte) /\ q \in Seq(Byte) /\ Len(q) = 4
  BY PacketIsASeq DEF LinkTypes
<1>2. Stream \in Seq(Byte)
  BY <1>1, ConcatProperties DEF Stream
<1>3. Stream' = Stream \o q
  <2>1. Stream' = kept \o (wire \o q)
    BY DEF Stream
  <2>2. (kept \o wire) \o q = kept \o (wire \o q)
    BY <1>1, BytesInARow
  <2> QED
    BY <2>1, <2>2 DEF Stream
<1>4. wire' \in Seq(Byte)
  BY <1>1, ConcatProperties
<1> HIDE DEF Stream
<1>5. Len(Stream \o q) = Len(Stream) + 4 /\ Len(Stream) \in Nat
  <2>1. Len(Stream \o q) = Len(Stream) + Len(q)
    BY <1>1, <1>2, ConcatProperties
  <2>2. Len(Stream) \in Nat
    BY <1>2, LenProperties
  <2> QED
    BY <1>1, <2>1, <2>2
<1>6. Len(Stream) % 4 = 0 => Len(Stream \o q) % 4 = 0
  BY <1>5
<1> QED
  BY <1>1, <1>2, <1>3, <1>4, <1>6, LatestOfConcat, SaidInConcat

(* What every step of the driver keeps.                                    *)
LEMMA DriverSaysKeeps ==
    ASSUME IInv, NEW p, p.of[1] \in Channels, p.of[2] \in Word, p.bytes \in [1..4 -> Byte],
           DriverSays(p), last' \in [Channels -> Word \cup {Unset}]
    PROVE  /\ LinkTypes' /\ ServoInv' /\ RudderOk(rudder)' /\ EngagedIsExplained'
           /\ \A ch \in Channels : said[ch] \subseteq said'[ch]
           /\ p.of[2] \in said'[p.of[1]]
<1> USE DEF IInv
<1>1. /\ wire' = wire \o p.bytes /\ said' = [said EXCEPT ![p.of[1]] = @ \cup {p.of[2]}]
      /\ UNCHANGED <<slipped, kept, sample, servo, ap_enabled, rudder>>
  BY DEF DriverSays, servoVars
<1>2. wire' \in Seq(Byte)
  BY <1>1, MoreOnTheWire
<1>3. said \in [Channels -> SUBSET Word]
  BY DEF LinkTypes
<1>4. said' \in [Channels -> SUBSET Word]
      /\ \A ch \in Channels : said[ch] \subseteq said'[ch]
      /\ p.of[2] \in said'[p.of[1]]
  BY <1>1, <1>3
<1>5. LinkTypes'
  BY <1>1, <1>2, <1>4 DEF LinkTypes
<1>6. ServoInv' /\ EngagedIsExplained'
  BY <1>1 DEF ServoInv, EngagedIsExplained
<1>7. RudderOk(rudder)'
  BY <1>1 DEF RudderOk
<1> QED
  BY <1>4, <1>5, <1>6, <1>7

LEMMA SendInv ==
    ASSUME IInv, Send
    PROVE  IInv'
<1>1. PICK t \in Telemetry : DriverSays([of |-> t, bytes |-> PacketFor(t)])
                             /\ last' = [last EXCEPT ![t[1]] = t[2]]
  <2>1. PICK p \in Intact : DriverSays(p) /\ last' = [last EXCEPT ![p.of[1]] = p.of[2]]
    BY DEF Send
  <2>2. PICK t \in Telemetry : p = [of |-> t, bytes |-> PacketFor(t)]
    BY DEF Intact
  <2>3. p.of = t
    BY <2>2
  <2> QED
    BY <2>1, <2>2, <2>3
<1> DEFINE p == [of |-> t, bytes |-> PacketFor(t)]
           q == PacketFor(t)
<1>2. /\ t[1] \in Channels /\ t[2] \in Word /\ q \in [1..4 -> Byte] /\ Decodes(q)
      /\ q[1] = CodeOf[t[1]] /\ PacketOf(q).value = t[2]
  BY PacketForIsWhole
<1>3. last \in [Channels -> Word \cup {Unset}] /\ LinkTypes /\ InStep
  BY DEF IInv, LinkTypes
<1>4. last' \in [Channels -> Word \cup {Unset}]
  BY <1>1, <1>2, <1>3
<1> HIDE DEF q
<1>5. /\ LinkTypes' /\ ServoInv' /\ RudderOk(rudder)' /\ EngagedIsExplained'
      /\ \A ch \in Channels : said[ch] \subseteq said'[ch]
      /\ t[2] \in said'[t[1]]
  <2>1. p.of = t /\ p.bytes = q
    BY DEF q
  <2> HIDE DEF p
  <2>2. DriverSays(p)
    BY <1>1 DEF p
  <2> QED
    BY <1>2, <1>4, <2>1, <2>2, DriverSaysKeeps
<1>6. wire' = wire \o q /\ UNCHANGED <<kept, sample, slipped>>
  BY <1>1 DEF DriverSays, servoVars, q
<1>7. ASSUME ~slipped' PROVE Len(Stream)' % 4 = 0 /\ \A ch \in Channels : InOrder(ch)'
  <2>1. Len(Stream) % 4 = 0 /\ \A ch \in Channels : InOrder(ch)
    BY <1>3, <1>6, <1>7 DEF InStep
  <2>2. /\ Len(Stream') % 4 = 0
        /\ \A ch \in Channels :
             /\ SaidIn(Stream', ch) = SaidIn(Stream, ch) \cup SaidIn(q, ch)
             /\ Latest(Quads(Stream'), ch, sample[ch]) =
                   Latest(Quads(q), ch, Latest(Quads(Stream), ch, sample[ch]))
    BY <1>2, <1>3, <1>6, <2>1, MoreOnTheWire
  <2>3. ASSUME NEW ch \in Channels PROVE InOrder(ch)'
    <3>1. /\ SaidIn(q, ch) \subseteq said'[ch]
          /\ last'[ch] = Latest(Quads(q), ch, last[ch])
      <4>1. CASE ch = t[1]
        BY <1>1, <1>2, <1>3, <1>5, <4>1, OnePacket
      <4>2. CASE ch # t[1]
        <5>1. ~(Decodes(q) /\ q[1] = CodeOf[ch])
          BY <1>2, <4>2, CodesAreTheirs
        <5> QED
          BY <1>1, <1>2, <1>3, <4>2, <5>1, OnePacket
      <4> QED
        BY <4>1, <4>2
    <3>2. SaidIn(Stream', ch) \subseteq said'[ch] /\ sample'[ch] \in said'[ch] \cup {Unset}
      BY <1>5, <1>6, <2>1, <2>2, <3>1 DEF InOrder
    <3>3. last'[ch] = Latest(Quads(Stream'), ch, sample'[ch])
      BY <1>6, <2>1, <2>2, <3>1 DEF InOrder
    <3> QED
      BY <3>2, <3>3 DEF InOrder
  <2> QED
    BY <2>2, <2>3
<1> QED
  BY <1>5, <1>7 DEF IInv, InStep

LEMMA SendDamagedInv ==
    ASSUME IInv, SendDamaged
    PROVE  IInv'
<1>1. PICK p \in Spoiled : DriverSays(p)
  BY DEF SendDamaged
<1>2. UNCHANGED last
  BY DEF SendDamaged
<1>3. PICK t \in Telemetry, burst \in Bursts :
        p = [of |-> t, bytes |-> CrossedWith(PacketFor(t), burst)]
  BY DEF Spoiled, Intact
<1> DEFINE q == CrossedWith(PacketFor(t), burst)
<1>4. t[1] \in Channels /\ t[2] \in Word /\ PacketFor(t) \in [1..4 -> Byte] /\ Decodes(PacketFor(t))
  BY PacketForIsWhole
<1>5. q \in [1..4 -> Byte] /\ ~Decodes(q)
  BY <1>4, BurstsAreShort, BurstIsCaught
<1>6. last \in [Channels -> Word \cup {Unset}] /\ LinkTypes /\ InStep
  BY DEF IInv, LinkTypes
<1> HIDE DEF q
<1>7. p.of = t /\ p.bytes = q
  BY <1>3 DEF q
<1>8. /\ LinkTypes' /\ ServoInv' /\ RudderOk(rudder)' /\ EngagedIsExplained'
      /\ \A ch \in Channels : said[ch] \subseteq said'[ch]
  BY <1>1, <1>2, <1>4, <1>5, <1>6, <1>7, DriverSaysKeeps
<1>9. wire' = wire \o q /\ UNCHANGED <<kept, sample, slipped>>
  BY <1>1, <1>7 DEF DriverSays, servoVars
<1>10. ASSUME ~slipped' PROVE Len(Stream)' % 4 = 0 /\ \A ch \in Channels : InOrder(ch)'
  <2>1. Len(Stream) % 4 = 0 /\ \A ch \in Channels : InOrder(ch)
    BY <1>6, <1>9, <1>10 DEF InStep
  <2>2. /\ Len(Stream') % 4 = 0
        /\ \A ch \in Channels :
             /\ SaidIn(Stream', ch) = SaidIn(Stream, ch) \cup SaidIn(q, ch)
             /\ Latest(Quads(Stream'), ch, sample[ch]) =
                   Latest(Quads(q), ch, Latest(Quads(Stream), ch, sample[ch]))
    BY <1>5, <1>6, <1>9, <2>1, MoreOnTheWire
  <2>3. ASSUME NEW ch \in Channels PROVE InOrder(ch)'
    <3>1. SaidIn(q, ch) = {} /\ Latest(Quads(q), ch, last[ch]) = last[ch]
      BY <1>5, OnePacket
    <3>2. SaidIn(Stream', ch) \subseteq said'[ch] /\ sample'[ch] \in said'[ch] \cup {Unset}
      BY <1>8, <1>9, <2>1, <2>2, <3>1 DEF InOrder
    <3>3. last'[ch] = Latest(Quads(Stream'), ch, sample'[ch])
      BY <1>2, <1>9, <2>1, <2>2, <3>1 DEF InOrder
    <3> QED
      BY <3>2, <3>3 DEF InOrder
  <2> QED
    BY <2>2, <2>3
<1> QED
  BY <1>8, <1>10 DEF IInv, InStep

LEMMA SlipInv ==
    ASSUME IInv, Slip
    PROVE  IInv'
<1>1. /\ slipped' = TRUE
      /\ UNCHANGED <<said, last, kept, sample, servo, ap_enabled, rudder>>
  BY DEF Slip, servoVars
<1>2. wire \in Seq(Byte) /\ Len(wire) \in Nat
  BY LenProperties DEF IInv, LinkTypes
<1>3. wire' \in Seq(Byte)
  <2>1. CASE \E i \in DOMAIN wire : wire' = RemoveAt(wire, i)
    <3>0. DOMAIN wire = 1..Len(wire)
      BY <1>2
    <3>1. PICK i \in 1..Len(wire) : wire' = RemoveAt(wire, i)
      BY <2>1, <3>0
    <3>2. SubSeq(wire, 1, i - 1) \in Seq(Byte) /\ SubSeq(wire, i + 1, Len(wire)) \in Seq(Byte)
      BY <1>2, PartType
    <3>3. SubSeq(wire, 1, i - 1) \o SubSeq(wire, i + 1, Len(wire)) \in Seq(Byte)
      BY <3>2, ConcatProperties
    <3> QED
      BY <3>1, <3>3 DEF RemoveAt
  <2>2. CASE \E i \in 1..(Len(wire) + 1) : \E b \in StrayBytes : wire' = InsertAt(wire, i, b)
    <3>1. PICK i \in 1..(Len(wire) + 1), b \in StrayBytes :
            wire' = SubSeq(wire, 1, i - 1) \o <<b>> \o SubSeq(wire, i, Len(wire))
      BY <2>2 DEF InsertAt
    <3>2. SubSeq(wire, 1, i - 1) \in Seq(Byte) /\ SubSeq(wire, i, Len(wire)) \in Seq(Byte)
      BY <1>2, PartType
    <3>3. b \in Byte
      BY StrayBytesAreBytes
    <3>4. <<b>> \in Seq(Byte)
      BY <3>3
    <3>5. SubSeq(wire, 1, i - 1) \o <<b>> \in Seq(Byte)
      BY <3>2, <3>4, ConcatProperties
    <3> QED
      BY <3>1, <3>2, <3>5, ConcatProperties
  <2> QED
    BY <2>1, <2>2 DEF Slip
<1>4. LinkTypes'
  BY <1>1, <1>3 DEF IInv, LinkTypes
<1>5. ServoInv' /\ EngagedIsExplained'
  BY <1>1 DEF IInv, ServoInv, EngagedIsExplained
<1>6. RudderOk(rudder)'
  BY <1>1 DEF IInv, RudderOk
<1>7. InStep'
  BY <1>1 DEF InStep
<1> QED
  BY <1>4, <1>5, <1>6, <1>7 DEF IInv

-----------------------------------------------------------------------------
(* A feed.                                                                 *)

(* A feed cuts the wire in two.                                            *)
LEMMA WireInTwo ==
    ASSUME IInv, NEW n \in 1..Len(wire)
    PROVE  LET bytes == SubSeq(wire, 1, n)
               rest == SubSeq(wire, n + 1, Len(wire))
           IN  bytes \in Seq(Byte) /\ rest \in Seq(Byte) /\ Stream = (kept \o bytes) \o rest
<1> DEFINE bytes == SubSeq(wire, 1, n)
           rest == SubSeq(wire, n + 1, Len(wire))
<1>1. wire \in Seq(Byte) /\ kept \in Seq(Byte) /\ Len(wire) \in Nat
  BY LenProperties DEF IInv, LinkTypes
<1>2. bytes \in Seq(Byte) /\ rest \in Seq(Byte)
  BY <1>1, PartType
<1>3. bytes \o rest = wire
  <2>1. /\ 1 \in 1..(Len(wire) + 1) /\ n \in (1 - 1)..Len(wire)
        /\ Len(wire) \in n..Len(wire)
    BY <1>1
  <2>2. bytes \o rest = SubSeq(wire, 1, Len(wire))
    BY <1>1, <2>1, ConcatAdjacentSubSeq
  <2>3. SubSeq(wire, 1, Len(wire)) = wire
    BY <1>1, SubSeqFull
  <2> QED
    BY <2>2, <2>3
<1> HIDE DEF bytes, rest
<1>4. (kept \o bytes) \o rest = kept \o (bytes \o rest)
  BY <1>1, <1>2, BytesInARow
<1> QED
  BY <1>2, <1>3, <1>4 DEF Stream, bytes, rest

LEMMA FeedInv ==
    ASSUME IInv, FeedDriverBytes
    PROVE  IInv'
<1>1. PICK n \in 1..Len(wire) :
        /\ wire' = SubSeq(wire, n + 1, Len(wire))
        /\ kept' = Feed(kept, SubSeq(wire, 1, n), sample).kept
        /\ sample' = Feed(kept, SubSeq(wire, 1, n), sample).sample
        /\ servo' = ApplyServo(servo, Feed(kept, SubSeq(wire, 1, n), sample))
        /\ rudder' = ApplyRudder(rudder, Feed(kept, SubSeq(wire, 1, n), sample))
        /\ UNCHANGED <<said, last, slipped, ap_enabled>>
  BY DEF FeedDriverBytes
<1> DEFINE bytes == SubSeq(wire, 1, n)
           rest == SubSeq(wire, n + 1, Len(wire))
           fed == Feed(kept, bytes, sample)
<1>2. /\ wire \in Seq(Byte) /\ kept \in Seq(Byte) /\ sample \in [Channels -> Word \cup {Unset}]
      /\ Len(wire) \in Nat
  BY LenProperties DEF IInv, LinkTypes
<1>3. bytes \in Seq(Byte) /\ rest \in Seq(Byte) /\ Stream = (kept \o bytes) \o rest
  BY WireInTwo
<1>5. Stream' = kept' \o rest
  BY <1>1 DEF Stream
<1>6. kept \o bytes \in Seq(Byte)
  BY <1>2, <1>3, ConcatProperties
<1>7. fed.sample = [ch \in Channels |-> fed.sample[ch]] /\ fed.mask \subseteq Channels
  BY DEF Feed
<1>8. kept' = fed.kept /\ sample' = fed.sample
      /\ servo' = ApplyServo(servo, fed) /\ rudder' = ApplyRudder(rudder, fed)
  BY <1>1
<1> HIDE DEF bytes, rest
<1>9. /\ fed.kept \in Seq(Byte) /\ Len(fed.kept) < 4
      /\ Len(Stream) % 4 = 0 => Len(fed.kept \o rest) % 4 = 0
      /\ \A ch \in Channels :
           /\ SaidIn(Stream, ch) = SaidIn(kept \o bytes, ch) \cup SaidIn(fed.kept \o rest, ch)
           /\ Latest(Quads(Stream), ch, sample[ch]) = Latest(Quads(fed.kept \o rest), ch, fed.sample[ch])
           /\ fed.sample[ch] = Latest(Quads(kept \o bytes), ch, sample[ch])
           /\ ch \in fed.mask <=> About(Quads(kept \o bytes), ch) # {}
  <2> DEFINE all == (kept \o bytes) \o rest
  <2>1. "flags" \in Channels
    BY DEF Channels
  <2>2. ASSUME NEW ch \in Channels
        PROVE  /\ fed.kept \in Seq(Byte) /\ Len(fed.kept) < 4
               /\ Len(all) % 4 = 0 => Len(fed.kept \o rest) % 4 = 0
               /\ SaidIn(all, ch) = SaidIn(kept \o bytes, ch) \cup SaidIn(fed.kept \o rest, ch)
               /\ Latest(Quads(all), ch, sample[ch]) = Latest(Quads(fed.kept \o rest), ch, fed.sample[ch])
               /\ fed.sample[ch] = Latest(Quads(kept \o bytes), ch, sample[ch])
               /\ ch \in fed.mask <=> About(Quads(kept \o bytes), ch) # {}
    <3>1. HandsOn(kept, bytes, rest, sample, fed, ch)
      BY <1>2, <1>3, FeedOfStream
    <3> HIDE DEF fed
    <3> QED
      BY <3>1 DEF HandsOn
  <2>3. Stream = all
    BY <1>3
  <2> HIDE DEF all, fed
  <2> QED
    BY <2>1, <2>2, <2>3
<1> HIDE DEF fed
<1>10. \A ch \in Channels :
         /\ ch \notin fed.mask => fed.sample[ch] = sample[ch]
         /\ ch \in fed.mask => fed.sample[ch] \in SaidIn(kept \o bytes, ch)
         /\ SaidIn(kept \o bytes, ch) \subseteq Word
  <2> TAKE ch \in Channels
  <2> DEFINE k == kept \o bytes
             old == sample[ch]
  <2>1. /\ fed.sample[ch] = Latest(Quads(k), ch, old)
        /\ ch \in fed.mask <=> About(Quads(k), ch) # {}
    BY <1>9
  <2> HIDE DEF k, old
  <2>2. k \in Seq(Byte)
    BY <1>6 DEF k
  <2>3. /\ SaidIn(k, ch) \subseteq Word
        /\ IF About(Quads(k), ch) = {} THEN Latest(Quads(k), ch, old) = old
           ELSE Latest(Quads(k), ch, old) \in SaidIn(k, ch)
    BY <2>2, SaidInType
  <2> QED
    BY <2>1, <2>3 DEF k, old
<1>11. \A ch \in Channels : fed.sample[ch] \in Word \cup {Unset}
  BY <1>2, <1>10
<1>12. LinkTypes'
  <2>1. wire' \in Seq(Byte)
    BY <1>1, <1>3 DEF rest
  <2>2. sample' \in [Channels -> Word \cup {Unset}]
    BY <1>7, <1>8, <1>11
  <2> QED
    BY <1>1, <1>8, <1>9, <2>1, <2>2 DEF IInv, LinkTypes
<1>13. ServoInv' /\ EngagedIsExplained'
  <2> DEFINE shown(ch) == IF ch \in fed.mask THEN fed.sample[ch] ELSE servo[ch]
  <2>1. servo' = [voltage |-> shown("voltage"), current |-> shown("current"), flags |-> shown("flags"),
                  engaged |-> IF "flags" \in fed.mask THEN SaysEngaged(fed.sample["flags"]) ELSE servo.engaged]
    BY <1>8 DEF ApplyServo
  <2>2. \A ch \in Shown : shown(ch) = fed.sample[ch]
    BY <1>10 DEF IInv, ServoInv, Shown, Channels
  <2>3. DOMAIN servo' = Shown \cup {"engaged"} /\ \A ch \in Shown : servo'[ch] = shown(ch)
    BY <2>1 DEF Shown
  <2>4. servo'.engaged = IF "flags" \in fed.mask THEN SaysEngaged(servo'.flags) ELSE servo.engaged
    BY <2>1
  <2>5. "flags" \notin fed.mask => servo'.flags = servo.flags
    BY <2>1
  <2>6. SaysEngaged(servo'.flags) \in BOOLEAN
    BY DEF SaysEngaged
  <2> HIDE DEF shown
  <2>7. ServoInv'
    BY <1>1, <1>8, <2>2, <2>3, <2>4, <2>6 DEF IInv, ServoInv
  <2>8. EngagedIsExplained'
    BY <1>1, <2>4, <2>5 DEF IInv, EngagedIsExplained
  <2> QED
    BY <2>7, <2>8
<1>14. RudderOk(rudder)'
  <2>1. CASE "rudder" \in fed.mask
    <3>1. rudder' = [rudder EXCEPT !.raw = fed.sample["rudder"], !.raw_valid = TRUE, !.last_device = "servo"]
      BY <1>8, <2>1 DEF ApplyRudder
    <3>2. fed.sample["rudder"] \in Word
      BY <1>10, <2>1 DEF Channels
    <3>3. fed.sample["rudder"] # NaN /\ "servo" # NoDevice
      BY <3>2, NaNIsNone, NoDeviceIsNone
    <3> QED
      BY <3>1, <3>3 DEF IInv, RudderOk
  <2>2. CASE "rudder" \notin fed.mask
    BY <1>8, <2>2 DEF ApplyRudder, IInv, RudderOk
  <2> QED
    BY <2>1, <2>2
<1>15. ASSUME ~slipped' PROVE Len(Stream)' % 4 = 0 /\ \A ch \in Channels : InOrder(ch)'
  <2>1. Len(Stream) % 4 = 0 /\ \A ch \in Channels : InOrder(ch)
    BY <1>1, <1>15 DEF IInv, InStep
  <2>2. Stream' = fed.kept \o rest
    BY <1>5, <1>8
  <2>3. ASSUME NEW ch \in Channels PROVE InOrder(ch)'
    <3>1. InOrder(ch) /\ said' = said /\ last' = last
      BY <1>1, <2>1
    <3>2. SaidIn(Stream', ch) \subseteq said[ch] /\ SaidIn(kept \o bytes, ch) \subseteq said[ch]
      BY <1>9, <2>2, <3>1 DEF InOrder
    <3>3. fed.sample[ch] \in said[ch] \cup {Unset}
      BY <1>10, <3>1, <3>2 DEF InOrder
    <3>4. last[ch] = Latest(Quads(Stream'), ch, fed.sample[ch])
      BY <1>9, <2>2, <3>1 DEF InOrder
    <3> QED
      BY <1>8, <3>1, <3>2, <3>3, <3>4 DEF InOrder
  <2>4. Len(Stream)' % 4 = 0
    BY <1>9, <2>1, <2>2
  <2> QED
    BY <2>3, <2>4
<1> QED
  BY <1>12, <1>13, <1>14, <1>15 DEF IInv, InStep

-----------------------------------------------------------------------------
(* The steps that leave the link alone.                                    *)

LEMMA LinkAlone ==
    ASSUME IInv, UNCHANGED <<link, kept, sample>>
    PROVE  LinkTypes' /\ InStep'
<1>1. UNCHANGED <<wire, kept, sample, said, last, slipped>>
  BY DEF link
<1>2. Stream' = Stream
  BY <1>1 DEF Stream
<1> HIDE DEF Stream
<1> QED
  BY <1>1, <1>2 DEF IInv, LinkTypes, InStep, InOrder

LEMMA ServoAlone ==
    ASSUME IInv, UNCHANGED <<sample, servo, ap_enabled>>
    PROVE  ServoInv' /\ EngagedIsExplained'
  BY DEF IInv, ServoInv, EngagedIsExplained

LEMMA EngageInv ==
    ASSUME IInv, UNCHANGED <<link, kept, sample, rudder>>, NEW e \in BOOLEAN,
           servo' = [servo EXCEPT !.engaged = e], ap_enabled' \in BOOLEAN, e => ap_enabled'
    PROVE  IInv'
<1>1. LinkTypes' /\ InStep'
  BY LinkAlone
<1>2. DOMAIN servo = Shown \cup {"engaged"}
  BY DEF IInv, ServoInv
<1>3. DOMAIN servo' = DOMAIN servo /\ servo'.engaged = e /\ \A ch \in Shown : servo'[ch] = servo[ch]
  BY <1>2 DEF Shown
<1>4. ServoInv' /\ EngagedIsExplained'
  BY <1>2, <1>3 DEF IInv, ServoInv, EngagedIsExplained
<1>5. RudderOk(rudder)'
  BY DEF IInv, RudderOk
<1> QED
  BY <1>1, <1>4, <1>5 DEF IInv

LEMMA RudderInv ==
    ASSUME IInv, UNCHANGED <<link, servoVars>>, RudderOk(rudder')
    PROVE  IInv'
<1>1. LinkTypes' /\ InStep'
  BY LinkAlone DEF servoVars
<1>2. ServoInv' /\ EngagedIsExplained'
  BY ServoAlone DEF servoVars
<1>3. RudderOk(rudder)'
  BY DEF RudderOk
<1> QED
  BY <1>1, <1>2, <1>3 DEF IInv

LEMMA NextInv == IInv /\ [Next]_vars => IInv'
<1> SUFFICES ASSUME IInv, [Next]_vars PROVE IInv'
  OBVIOUS
<1>0. RudderOk(rudder)
  BY DEF IInv
<1>1. CASE Send
  BY <1>1, SendInv
<1>2. CASE SendDamaged
  BY <1>2, SendDamagedInv
<1>3. CASE Slip
  BY <1>3, SlipInv
<1>4. CASE FeedDriverBytes
  BY <1>4, FeedInv
<1>5. ASSUME NEW e \in BOOLEAN, SetAutopilotEnabled(e) PROVE IInv'
  BY <1>5, EngageInv DEF SetAutopilotEnabled
<1>6. CASE ServoPoll
  <2>1. UNCHANGED <<link, kept, sample, ap_enabled, rudder>>
    BY <1>6 DEF ServoPoll
  <2>2. CASE ap_enabled
    <3>1. UNCHANGED <<link, servoVars>>
      BY <1>6, <2>1, <2>2 DEF ServoPoll, servoVars
    <3>2. RudderOk(rudder')
      BY <1>0, <2>1
    <3> QED
      BY <3>1, <3>2, RudderInv
  <2>3. CASE ~ap_enabled
    <3>1. servo' = [servo EXCEPT !.engaged = FALSE]
      BY <1>6, <2>3 DEF ServoPoll
    <3>2. ap_enabled' \in BOOLEAN
      BY <2>1 DEF IInv, ServoInv
    <3> QED
      BY <2>1, <3>1, <3>2, EngageInv
  <2> QED
    BY <2>2, <2>3
<1>7. CASE RudderPoll
  <2>1. RudderOk(rudder')
    BY <1>0, <1>7, PollOk DEF RudderPoll
  <2> QED
    BY <1>7, <2>1, RudderInv DEF RudderPoll
<1>8. CASE UpdateRudder
  <2>1. PICK raw \in RawSamples \cup {NaN}, d \in Devices : rudder' = Update(rudder, raw, d)
    BY <1>8 DEF UpdateRudder
  <2>2. RudderOk(rudder')
    BY <1>0, <2>1, UpdateOk
  <2> QED
    BY <1>8, <2>2, RudderInv DEF UpdateRudder
<1>9. CASE Calibrate
  <2>1. PICK x \in Int : rudder' = [rudder EXCEPT !.offset = x] \/ rudder' = [rudder EXCEPT !.range = x]
    BY <1>9, AnglesAreNumbers DEF Calibrate
  <2>2. RudderOk(rudder')
    BY <1>0, <2>1 DEF RudderOk
  <2> QED
    BY <1>9, <2>2, RudderInv DEF Calibrate
<1>10. CASE AssignAngle
  <2>1. PICK a \in Angles : rudder' = [rudder EXCEPT !.angle = a, !.valid = TRUE]
    BY <1>10 DEF AssignAngle
  <2>2. RudderOk(rudder')
    BY <1>0, <2>1 DEF RudderOk
  <2> QED
    BY <1>10, <2>2, RudderInv DEF AssignAngle
<1>11. CASE Hear
  <2>1. PICK h \in Hearings : FeedLine(h.came)
    BY <1>11 DEF Hear
  <2>2. UNCHANGED <<link, servoVars>>
    BY <2>1 DEF FeedLine
  <2>3. rudder' = rudder
        \/ rudder' = [rudder EXCEPT !.angle = h.came.rudder, !.source = "serial", !.valid = TRUE]
    BY <2>1 DEF FeedLine, ApplySentence
  <2>4. RudderOk(rudder')
    BY <1>0, <2>3 DEF RudderOk
  <2> QED
    BY <2>2, <2>4, RudderInv
<1>12. CASE UNCHANGED vars
  <2>1. UNCHANGED <<link, servoVars, rudder>>
    BY <1>12 DEF vars
  <2> QED
    BY <1>0, <2>1, RudderInv
<1> QED
  BY <1>1, <1>2, <1>3, <1>4, <1>5, <1>6, <1>7, <1>8, <1>9, <1>10, <1>11, <1>12 DEF Next

THEOREM Invariant == Spec => []IInv
  BY InitInv, NextInv, PTL DEF Spec

(* Whoever takes the sample away takes the angle with it.                  *)
LEMMA UpdateOrphans ==
    ASSUME NEW r, RudderOk(r), NEW raw, NEW d
    PROVE  ~Orphan(Update(r, raw, d))
<1>1. DOMAIN Reset(r) = DOMAIN r /\ ~Reset(r).valid /\ Reset(r).source = r.source
  BY DEF RudderOk, Reset
<1>2. CASE d # r.last_device \/ raw = NaN
  BY <1>1, <1>2 DEF RudderOk, Update, Reset, Orphan
<1>3. CASE d = r.last_device /\ raw # NaN
  <2> DEFINE m == UpdateMinMax(r)
  <2>1. RudderOk(m)
    BY UpdateMinMaxOk
  <2>2. Update(r, raw, d) = [m EXCEPT !.raw = raw, !.raw_valid = TRUE, !.angle = AngleOf(raw, r.offset),
                                      !.source = "servo", !.valid = TRUE]
    BY <1>3 DEF Update
  <2> HIDE DEF m
  <2> QED
    BY <2>1, <2>2 DEF RudderOk, Orphan
<1> QED
  BY <1>2, <1>3

LEMMA NoNewOrphans ==
    ASSUME IInv, [Next]_vars
    PROVE  Orphan(rudder') => Orphan(rudder) \/ AssignAngle
<1>0. RudderOk(rudder)
  BY DEF IInv
<1>1. CASE UNCHANGED rudder
  BY <1>1 DEF Orphan
<1>2. CASE FeedDriverBytes
  <2>1. rudder' = rudder
        \/ \E raw : rudder' = [rudder EXCEPT !.raw = raw, !.raw_valid = TRUE, !.last_device = "servo"]
    BY <1>2 DEF FeedDriverBytes, ApplyRudder
  <2> QED
    BY <1>0, <2>1 DEF RudderOk, Orphan
<1>3. CASE RudderPoll
  <2> DEFINE m == UpdateMinMax(rudder)
  <2>1. /\ RudderOk(m) /\ m.valid = rudder.valid /\ m.source = rudder.source
        /\ m.raw_valid = rudder.raw_valid
    BY <1>0, UpdateMinMaxOk
  <2> HIDE DEF m
  <2>2. rudder' = m \/ \E raw, d : rudder' = Update(m, raw, d)
    BY <1>3 DEF RudderPoll, Poll, m
  <2>3. Orphan(m) => Orphan(rudder)
    BY <2>1 DEF Orphan
  <2> QED
    BY <2>1, <2>2, <2>3, UpdateOrphans
<1>4. CASE UpdateRudder
  <2>1. PICK raw, d : rudder' = Update(rudder, raw, d)
    BY <1>4 DEF UpdateRudder
  <2> QED
    BY <1>0, <2>1, UpdateOrphans
<1>5. CASE Calibrate
  <2>1. \E x : rudder' = [rudder EXCEPT !.offset = x] \/ rudder' = [rudder EXCEPT !.range = x]
    BY <1>5 DEF Calibrate
  <2> QED
    BY <1>0, <2>1 DEF RudderOk, Orphan
<1>6. CASE Hear
  <2>1. rudder' = rudder
        \/ \E a : rudder' = [rudder EXCEPT !.angle = a, !.source = "serial", !.valid = TRUE]
    BY <1>6 DEF Hear, FeedLine, ApplySentence
  <2> QED
    BY <1>0, <2>1 DEF RudderOk, Orphan
<1>7. CASE Send \/ SendDamaged \/ Slip \/ (\E e \in BOOLEAN : SetAutopilotEnabled(e)) \/ ServoPoll
           \/ UNCHANGED vars
  BY <1>1, <1>7 DEF Send, SendDamaged, DriverSays, Slip, SetAutopilotEnabled, ServoPoll, vars
<1> QED
  BY <1>2, <1>3, <1>4, <1>5, <1>6, <1>7 DEF Next

-----------------------------------------------------------------------------
(* Out of step.  One byte lost or added moves the borders between packets: *)
(* the four bytes taken for one packet are the end of one and the start of *)
(* the next, and the end of the stream is three bytes of a packet or one.  *)

(* Four bytes stay a packet, or become the end of one and the start of the *)
(* next.                                                                   *)
LEMMA OneByteLess ==
    ASSUME NEW s \in Seq(Byte), Len(s) % 4 = 0, NEW t, NEW n \in 1..Len(s), Without(t, s, n)
    PROVE  LET m == Len(s) \div 4
           IN  /\ m \in Nat \ {0} /\ Len(t) \div 4 = m - 1 /\ Len(t) % 4 = 3
               /\ \A k \in 1..(m - 1) :
                    \/ Quads(t)[k] = Quads(s)[k]
                    \/ \E i \in 1..4 : Quads(t)[k] = Losing(Quads(s)[k], Quads(s)[k + 1], i)
               /\ \E i \in 1..4 : \A j \in 1..3 :
                    Rest(t)[j] = Losing(Quads(s)[m], Quads(s)[m], i)[j]
<1> DEFINE m == Len(s) \div 4
<1>1. m \in Nat /\ Len(s) = 4 * m /\ Len(s) \in Nat
  BY QuadsShape
<1> HIDE DEF m
<1>2. /\ t \in Seq(Byte) /\ Len(t) = 4 * m - 1
      /\ \A x \in 1..(4 * m - 1) : t[x] = IF x < n THEN s[x] ELSE s[x + 1]
  BY <1>1 DEF Without
<1>3. n \in 1..(4 * m) /\ m \in Nat \ {0}
  BY <1>1
<1>4. Len(t) \div 4 = m - 1 /\ Len(t) % 4 = 3
  BY <1>2, <1>3
<1>5. /\ \A k \in 1..m : /\ Quads(s)[k] \in [1..4 -> Byte]
                         /\ \A j \in 1..4 : Quads(s)[k][j] = s[4 * k - 4 + j]
      /\ \A k \in 1..(m - 1) : /\ Quads(t)[k] \in [1..4 -> Byte]
                               /\ \A j \in 1..4 : Quads(t)[k][j] = t[4 * k - 4 + j]
  <2>1. \A k \in 1..(Len(t) \div 4) : /\ Quads(t)[k] \in [1..4 -> Byte]
                                      /\ \A j \in 1..4 : Quads(t)[k][j] = t[4 * k - 4 + j]
    BY <1>2, QuadsShape
  <2>2. \A k \in 1..m : /\ Quads(s)[k] \in [1..4 -> Byte]
                        /\ \A j \in 1..4 : Quads(s)[k][j] = s[4 * k - 4 + j]
    BY QuadsShape DEF m
  <2> QED
    BY <1>4, <2>1, <2>2
<1>6. \A j \in 1..3 : Rest(t)[j] = t[4 * (m - 1) + j]
  <2>1. \A j \in 1..(Len(t) % 4) : Rest(t)[j] = t[4 * (Len(t) \div 4) + j]
    BY <1>2, WholeAndRest
  <2> QED
    BY <1>4, <2>1
<1>7. ASSUME NEW k \in 1..(m - 1)
      PROVE  \/ Quads(t)[k] = Quads(s)[k]
             \/ \E i \in 1..4 : Quads(t)[k] = Losing(Quads(s)[k], Quads(s)[k + 1], i)
  <2> DEFINE q == Quads(s)[k]  p == Quads(s)[k + 1]  w == Quads(t)[k]
  <2>1. k \in 1..m /\ k + 1 \in 1..m /\ k \in Int
    BY <1>3
  <2>2. /\ q \in [1..4 -> Byte] /\ p \in [1..4 -> Byte] /\ w \in [1..4 -> Byte]
        /\ \A j \in 1..4 : q[j] = s[4 * k - 4 + j] /\ p[j] = s[4 * (k + 1) - 4 + j]
                           /\ w[j] = t[4 * k - 4 + j]
    BY <1>5, <2>1
  <2>3. \A j \in 1..4 : 4 * k - 4 + j \in 1..(4 * m - 1)
    BY <1>3
  <2>4. \A j \in 1..4 : w[j] = IF 4 * k - 4 + j < n THEN s[4 * k - 4 + j] ELSE s[4 * k - 4 + j + 1]
    BY <1>2, <2>2, <2>3
  <2>5. \A j \in 1..4 : s[4 * k - 4 + j] = q[j]
    BY <2>2
  <2>6. \A j \in 1..4 : s[4 * k - 4 + j + 1] = IF j < 4 THEN q[j + 1] ELSE p[1]
    <3> TAKE j \in 1..4
    <3>1. CASE j < 4
      <4>1. j + 1 \in 1..4 /\ 4 * k - 4 + j + 1 = 4 * k - 4 + (j + 1)
        BY <2>1, <3>1
      <4> QED
        BY <2>2, <3>1, <4>1
    <3>2. CASE j = 4
      <4>1. 4 * k - 4 + j + 1 = 4 * (k + 1) - 4 + 1 /\ 1 \in 1..4
        BY <2>1, <3>2
      <4> QED
        BY <2>2, <3>2, <4>1
    <3> QED
      BY <3>1, <3>2
  <2> HIDE DEF q, p, w
  <2>7. CASE n > 4 * k
    <3>1. \A j \in 1..4 : w[j] = q[j]
      BY <1>3, <2>1, <2>4, <2>5, <2>7
    <3> QED
      BY <2>2, <3>1, SameQuad DEF q, w
  <2>8. CASE n <= 4 * k
    <3>1. PICK i \in 1..4 : \A j \in 1..4 : 4 * k - 4 + j < n <=> j < i
      <4>1. CASE n <= 4 * k - 4
        <5>1. \A j \in 1..4 : 4 * k - 4 + j < n <=> j < 1
          BY <1>3, <2>1, <4>1
        <5> QED
          BY <5>1
      <4>2. CASE n > 4 * k - 4
        <5>1. n - (4 * k - 4) \in 1..4
              /\ \A j \in 1..4 : 4 * k - 4 + j < n <=> j < n - (4 * k - 4)
          BY <1>3, <2>1, <2>8, <4>2
        <5> QED
          BY <5>1
      <4> QED
        BY <1>3, <2>1, <4>1, <4>2
    <3>2. \A j \in 1..4 : w[j] = IF j < i THEN q[j] ELSE IF j < 4 THEN q[j + 1] ELSE p[1]
      BY <2>4, <2>5, <2>6, <3>1
    <3>3. w = Losing(q, p, i)
      BY <2>2, <3>2 DEF Losing
    <3> QED
      BY <3>3 DEF q, p, w
  <2> QED
    BY <1>3, <2>1, <2>7, <2>8
<1>8. \E i \in 1..4 : \A j \in 1..3 : Rest(t)[j] = Losing(Quads(s)[m], Quads(s)[m], i)[j]
  <2> DEFINE q == Quads(s)[m]
  <2>1. m \in 1..m
    BY <1>3
  <2>2. \A j \in 1..4 : q[j] = s[4 * m - 4 + j]
    BY <1>5, <2>1
  <2>3. \A j \in 1..3 : 4 * (m - 1) + j \in 1..(4 * m - 1) /\ 4 * (m - 1) + j = 4 * m - 4 + j
                        /\ 4 * (m - 1) + j + 1 = 4 * m - 4 + (j + 1) /\ j + 1 \in 1..4 /\ j \in 1..4
    BY <1>3
  <2>4. \A j \in 1..3 : Rest(t)[j] = IF 4 * m - 4 + j < n THEN s[4 * m - 4 + j] ELSE s[4 * m - 4 + (j + 1)]
    BY <1>2, <1>6, <2>3
  <2> HIDE DEF q
  <2>5. \A j \in 1..3 : Rest(t)[j] = IF 4 * m - 4 + j < n THEN q[j] ELSE q[j + 1]
    BY <2>2, <2>3, <2>4
  <2>6. PICK i \in 1..4 : \A j \in 1..3 : 4 * m - 4 + j < n <=> j < i
    <3>1. CASE n <= 4 * m - 4
      <4>1. \A j \in 1..3 : 4 * m - 4 + j < n <=> j < 1
        BY <1>3, <3>1
      <4> QED
        BY <4>1
    <3>2. CASE n > 4 * m - 4
      <4>1. n - (4 * m - 4) \in 1..4
            /\ \A j \in 1..3 : 4 * m - 4 + j < n <=> j < n - (4 * m - 4)
        BY <1>3, <3>2
      <4> QED
        BY <4>1
    <3> QED
      BY <1>3, <3>1, <3>2
  <2>7. \A j \in 1..3 : Losing(q, q, i)[j] = IF j < i THEN q[j] ELSE q[j + 1]
    BY DEF Losing
  <2>8. \A j \in 1..3 : Rest(t)[j] = Losing(q, q, i)[j]
    BY <2>5, <2>6, <2>7
  <2> QED
    BY <2>8 DEF q
<1> QED
  BY <1>3, <1>4, <1>7, <1>8 DEF m

LEMMA OneByteMore ==
    ASSUME NEW s \in Seq(Byte), Len(s) % 4 = 0, NEW b \in Byte, NEW t,
           NEW n \in 1..(Len(s) + 1), With(t, s, n, b)
    PROVE  LET m == Len(s) \div 4
           IN  /\ m \in Nat /\ Len(t) \div 4 = m /\ Len(t) % 4 = 1
               /\ \A k \in 1..m :
                    \/ Quads(t)[k] = Quads(s)[k]
                    \/ \E i \in 1..4 : Quads(t)[k] = Gaining(Quads(s)[k], b, i)
                    \/ /\ k - 1 \in 1..m
                        /\ Quads(t)[k] = Gaining(Quads(s)[k], Quads(s)[k - 1][4], 1)
               /\ Rest(t)[1] = b \/ (m \in 1..m /\ Rest(t)[1] = Quads(s)[m][4])
<1> DEFINE m == Len(s) \div 4
<1>1. m \in Nat /\ Len(s) = 4 * m /\ Len(s) \in Nat
  BY QuadsShape
<1> HIDE DEF m
<1>2. /\ t \in Seq(Byte) /\ Len(t) = 4 * m + 1
      /\ \A x \in 1..(4 * m + 1) : t[x] = IF x < n THEN s[x] ELSE IF x = n THEN b ELSE s[x - 1]
  BY <1>1 DEF With
<1>3. n \in 1..(4 * m + 1)
  BY <1>1
<1>4. Len(t) \div 4 = m /\ Len(t) % 4 = 1
  BY <1>1, <1>2
<1>5. /\ \A k \in 1..m : /\ Quads(s)[k] \in [1..4 -> Byte]
                         /\ \A j \in 1..4 : Quads(s)[k][j] = s[4 * k - 4 + j]
      /\ \A k \in 1..m : /\ Quads(t)[k] \in [1..4 -> Byte]
                         /\ \A j \in 1..4 : Quads(t)[k][j] = t[4 * k - 4 + j]
  <2>1. \A k \in 1..(Len(t) \div 4) : /\ Quads(t)[k] \in [1..4 -> Byte]
                                      /\ \A j \in 1..4 : Quads(t)[k][j] = t[4 * k - 4 + j]
    BY <1>2, QuadsShape
  <2>2. \A k \in 1..m : /\ Quads(s)[k] \in [1..4 -> Byte]
                        /\ \A j \in 1..4 : Quads(s)[k][j] = s[4 * k - 4 + j]
    BY QuadsShape DEF m
  <2> QED
    BY <1>4, <2>1, <2>2
<1>6. Rest(t)[1] = t[4 * m + 1]
  <2>1. \A j \in 1..(Len(t) % 4) : Rest(t)[j] = t[4 * (Len(t) \div 4) + j]
    BY <1>2, WholeAndRest
  <2> QED
    BY <1>4, <2>1
<1>7. ASSUME NEW k \in 1..m
      PROVE  \/ Quads(t)[k] = Quads(s)[k]
             \/ \E i \in 1..4 : Quads(t)[k] = Gaining(Quads(s)[k], b, i)
             \/ /\ k - 1 \in 1..m
                /\ Quads(t)[k] = Gaining(Quads(s)[k], Quads(s)[k - 1][4], 1)
  <2> DEFINE q == Quads(s)[k]  w == Quads(t)[k]
  <2>1. k \in Int /\ \A j \in 1..4 : 4 * k - 4 + j \in 1..(4 * m + 1)
    BY <1>1
  <2>2. /\ q \in [1..4 -> Byte] /\ w \in [1..4 -> Byte]
        /\ \A j \in 1..4 : q[j] = s[4 * k - 4 + j] /\ w[j] = t[4 * k - 4 + j]
    BY <1>5
  <2> HIDE DEF q, w
  <2>3. \A j \in 1..4 :
          w[j] = IF 4 * k - 4 + j < n THEN s[4 * k - 4 + j]
                 ELSE IF 4 * k - 4 + j = n THEN b ELSE s[4 * k - 4 + j - 1]
    <3> TAKE j \in 1..4
    <3> DEFINE x == 4 * k - 4 + j
    <3>1. w[j] = t[x] /\ x \in 1..(4 * m + 1)
      BY <2>1, <2>2
    <3> HIDE DEF x
    <3>2. w[j] = IF x < n THEN s[x] ELSE IF x = n THEN b ELSE s[x - 1]
      BY <1>2, <3>1
    <3> QED
      BY <3>2 DEF x
  <2>4. \A j \in 2..4 : s[4 * k - 4 + j - 1] = q[j - 1]
    <3> TAKE j \in 2..4
    <3>1. j - 1 \in 1..4 /\ 4 * k - 4 + j - 1 = 4 * k - 4 + (j - 1)
      BY <2>1
    <3>2. q[j - 1] = s[4 * k - 4 + (j - 1)]
      BY <2>2, <3>1
    <3> QED
      BY <3>1, <3>2
  <2>5. CASE n > 4 * k
    <3>1. \A j \in 1..4 : w[j] = q[j]
      <4> TAKE j \in 1..4
      <4>1. 4 * k - 4 + j < n
        BY <1>3, <2>1, <2>5
      <4>2. w[j] = s[4 * k - 4 + j]
        BY <2>3, <4>1
      <4> QED
        BY <2>2, <4>2
    <3> QED
      BY <2>2, <3>1, SameQuad DEF q, w
  <2>6. CASE n <= 4 * k /\ n > 4 * k - 4
    <3>1. PICK i \in 1..4 : n = 4 * k - 4 + i
      <4>1. n - (4 * k - 4) \in 1..4 /\ n = 4 * k - 4 + (n - (4 * k - 4))
        BY <1>3, <2>1, <2>6
      <4> QED
        BY <4>1
    <3>2. \A j \in 1..4 : /\ 4 * k - 4 + j < n <=> j < i
                          /\ 4 * k - 4 + j = n <=> j = i
                          /\ ~(j < i) /\ j # i => j \in 2..4
      BY <2>1, <3>1
    <3>3. \A j \in 1..4 : w[j] = IF j < i THEN q[j] ELSE IF j = i THEN b ELSE q[j - 1]
      BY <2>2, <2>3, <2>4, <3>2
    <3>4. w = Gaining(q, b, i)
      BY <2>2, <3>3 DEF Gaining
    <3> QED
      BY <3>4 DEF q, w
  <2>7. CASE n <= 4 * k - 4
    <3>1. k - 1 \in 1..m
      BY <1>1, <1>3, <2>7
    <3>2. Quads(s)[k - 1][4] = s[4 * k - 4]
      <4>1. 4 * (k - 1) - 4 + 4 = 4 * k - 4 /\ 4 \in 1..4
        BY <2>1
      <4> QED
        BY <1>5, <3>1, <4>1
    <3>3. \A j \in 1..4 : ~(4 * k - 4 + j < n) /\ 4 * k - 4 + j # n
      BY <1>3, <2>1, <2>7
    <3>4. w[1] = s[4 * k - 4]
      <4>1. w[1] = s[4 * k - 4 + 1 - 1]
        BY <2>3, <3>3
      <4>2. 4 * k - 4 + 1 - 1 = 4 * k - 4
        BY <2>1
      <4> QED
        BY <4>1, <4>2
    <3>5. \A j \in 2..4 : w[j] = q[j - 1]
      BY <2>3, <2>4, <3>3
    <3>6. \A j \in 1..4 : w[j] = IF j < 1 THEN q[j] ELSE IF j = 1 THEN Quads(s)[k - 1][4] ELSE q[j - 1]
      <4>1. \A j \in 1..4 : ~(j < 1) /\ (j = 1 \/ j \in 2..4)
        OBVIOUS
      <4> QED
        BY <3>2, <3>4, <3>5, <4>1
    <3>7. w = Gaining(q, Quads(s)[k - 1][4], 1)
      BY <2>2, <3>6 DEF Gaining
    <3> QED
      BY <3>1, <3>7 DEF q, w
  <2> QED
    BY <1>3, <2>1, <2>5, <2>6, <2>7
<1>8. Rest(t)[1] = b \/ (m \in 1..m /\ Rest(t)[1] = Quads(s)[m][4])
  <2>1. CASE n = 4 * m + 1
    BY <1>1, <1>2, <1>3, <1>6, <2>1
  <2>2. CASE n < 4 * m + 1
    <3>1. m \in 1..m /\ 4 \in 1..4 /\ 4 * m - 4 + 4 = 4 * m /\ 4 * m + 1 \in 1..(4 * m + 1)
          /\ 4 * m + 1 - 1 = 4 * m
      BY <1>1, <1>3, <2>2
    <3>2. Rest(t)[1] = s[4 * m]
      BY <1>2, <1>3, <1>6, <2>2, <3>1
    <3>3. Quads(s)[m][4] = s[4 * m]
      BY <1>5, <3>1
    <3> QED
      BY <3>1, <3>2, <3>3
  <2> QED
    BY <1>1, <1>3, <2>1, <2>2
<1> QED
  BY <1>1, <1>4, <1>7, <1>8 DEF m

(* What a packet says, if anything, was said, or two packets that were     *)
(* sent say it by chance.                                                  *)
Harmless(w, spoken) ==
    \A ch \in Channels :
      Decodes(w) /\ w[1] = CodeOf[ch] => PacketOf(w).value \in spoken[ch] \cup Chance(ch, spoken)

AllHarmless(s, spoken) == \A k \in DOMAIN Quads(s) : Harmless(Quads(s)[k], spoken)

(* What a lost or an added byte leaves at the end of a stream.             *)
TornEnd(s, spoken) ==
    \/ /\ Len(s) % 4 = 3
       /\ \E q \in SentOf(spoken), i \in 1..4 : \A j \in 1..3 : Rest(s)[j] = Losing(q, q, i)[j]
    \/ /\ Len(s) % 4 = 1
       /\ Rest(s)[1] \in StrayBytes \/ \E q \in SentOf(spoken) : Rest(s)[1] = q[4]

(* The inductive invariants: how the stream is made up, and that nothing   *)
(* in it says what was not said, but by chance.                            *)
Framing ==
    /\ faults \in Nat
    /\ faults = 0 => ~slipped /\ \A k \in DOMAIN Quads(Stream) : Quads(Stream)[k] \in SentOf(said)
    /\ slipped /\ faults <= 1 => TornEnd(Stream, said)

Quiet ==
    slipped /\ faults <= 1 =>
      /\ AllHarmless(Stream, said)
      /\ \A ch \in Channels : sample[ch] \in said[ch] \cup Chance(ch, said) \cup {Unset}

LEMMA SentIsHarmless ==
    ASSUME NEW spoken, NEW q \in SentOf(spoken)
    PROVE  q \in [1..4 -> Byte] /\ Harmless(q, spoken)
<1>1. PICK t \in Telemetry : t[2] \in spoken[t[1]] /\ q = PacketFor(t)
  BY DEF SentOf
<1>2. /\ t[1] \in Channels /\ q \in [1..4 -> Byte]
      /\ q[1] = CodeOf[t[1]] /\ PacketOf(q).value = t[2]
  BY <1>1, PacketForIsWhole
<1>3. \A ch \in Channels : q[1] = CodeOf[ch] => ch = t[1]
  BY <1>2, CodesAreTheirs
<1> QED
  BY <1>1, <1>2, <1>3 DEF Harmless

(* What two packets that were sent give out of step, and what it says.     *)
Torn(spoken) == UNION {OutOfStep(q, p) : q \in SentOf(spoken), p \in SentOf(spoken)}

LEMMA TornHas ==
    ASSUME NEW spoken
    PROVE  \A w : w \in Torn(spoken) <=> \E q, p \in SentOf(spoken) : w \in OutOfStep(q, p)
<1> DEFINE all == {OutOfStep(q, p) : q \in SentOf(spoken), p \in SentOf(spoken)}
<1>1. \A t : t \in all <=> \E q, p \in SentOf(spoken) : t = OutOfStep(q, p)
  OBVIOUS
<1>2. \A w : w \in UNION all <=> \E t \in all : w \in t
  OBVIOUS
<1>3. Torn(spoken) = UNION all
  BY DEF Torn
<1> HIDE DEF all
<1> QED
  BY <1>1, <1>2, <1>3

LEMMA ChanceHas ==
    ASSUME NEW spoken, NEW ch
    PROVE  \A x : x \in Chance(ch, spoken) <=>
             \E w \in Torn(spoken) :
               Crc8(w) = w[4] /\ w[1] = CodeOf[ch] /\ x = PacketOf(w).value
<1> DEFINE right == {v \in Torn(spoken) : Crc8(v) = v[4] /\ v[1] = CodeOf[ch]}
<1>1. Chance(ch, spoken) = {PacketOf(w).value : w \in right}
  BY DEF Chance, Torn
<1>2. \A x : x \in {PacketOf(w).value : w \in right} <=> \E w \in right : x = PacketOf(w).value
  OBVIOUS
<1>3. \A w : w \in right <=> w \in Torn(spoken) /\ Crc8(w) = w[4] /\ w[1] = CodeOf[ch]
  OBVIOUS
<1> HIDE DEF right
<1> QED
  BY <1>1, <1>2, <1>3, Zenon

LEMMA OutOfStepIsHarmless ==
    ASSUME NEW spoken, NEW q \in SentOf(spoken), NEW p \in SentOf(spoken),
           NEW w \in OutOfStep(q, p)
    PROVE  Harmless(w, spoken)
<1>1. w \in Torn(spoken)
  BY TornHas
<1>2. ASSUME NEW ch \in Channels, Decodes(w), w[1] = CodeOf[ch]
      PROVE  PacketOf(w).value \in Chance(ch, spoken)
  BY <1>1, <1>2, ChanceHas DEF Decodes
<1> QED
  BY <1>2 DEF Harmless

(* Who has said more has more to say, also by chance.                      *)
LEMMA HarmlessStays ==
    ASSUME NEW spoken, NEW more, \A ch \in Channels : spoken[ch] \subseteq more[ch]
    PROVE  /\ SentOf(spoken) \subseteq SentOf(more)
           /\ \A ch \in Channels : Chance(ch, spoken) \subseteq Chance(ch, more)
           /\ \A w : Harmless(w, spoken) => Harmless(w, more)
<1>1. \A t \in Telemetry : t[1] \in Channels
  BY TelemetryIsKnown
<1>2. SentOf(spoken) \subseteq SentOf(more)
  BY <1>1 DEF SentOf
<1>3. Torn(spoken) \subseteq Torn(more)
  BY <1>2, TornHas
<1>4. ASSUME NEW ch \in Channels, NEW x \in Chance(ch, spoken)
      PROVE  x \in Chance(ch, more)
  BY <1>3, ChanceHas
<1> QED
  BY <1>2, <1>4 DEF Harmless

LEMMA HarmlessSaysWhatWasSaid ==
    ASSUME NEW s, NEW spoken, AllHarmless(s, spoken), NEW ch \in Channels
    PROVE  SaidIn(s, ch) \subseteq spoken[ch] \cup Chance(ch, spoken)
  BY DEF AllHarmless, Harmless, SaidIn, About

LEMMA StreamIsBytes == IInv => Stream \in Seq(Byte) /\ kept \in Seq(Byte) /\ wire \in Seq(Byte)
<1> SUFFICES ASSUME IInv PROVE Stream \in Seq(Byte) /\ kept \in Seq(Byte) /\ wire \in Seq(Byte)
  OBVIOUS
<1>1. kept \in Seq(Byte) /\ wire \in Seq(Byte)
  BY DEF IInv, LinkTypes
<1> QED
  BY <1>1, ConcatProperties DEF Stream

(* The driver goes on sending behind the fault.                            *)
LEMMA SendAppends ==
    ASSUME IInv, Send
    PROVE  \E q \in SentOf(said') :
             /\ q \in [1..4 -> Byte] /\ Stream' = Stream \o q
             /\ \A ch \in Channels : said[ch] \subseteq said'[ch]
             /\ UNCHANGED <<slipped, sample, faults>>
<1>1. PICK p \in Intact : DriverSays(p)
  BY DEF Send
<1>2. PICK t \in Telemetry : p = [of |-> t, bytes |-> PacketFor(t)]
  BY <1>1 DEF Intact
<1>3. p.of = t /\ p.bytes = PacketFor(t)
  BY <1>2
<1>4. t[1] \in Channels /\ t[2] \in Word /\ PacketFor(t) \in [1..4 -> Byte]
  BY PacketForIsWhole
<1>5. said \in [Channels -> SUBSET Word]
  BY DEF IInv, LinkTypes
<1>6. said' = [said EXCEPT ![t[1]] = @ \cup {t[2]}] /\ wire' = wire \o PacketFor(t)
      /\ UNCHANGED <<slipped, sample, faults, kept>>
  BY <1>1, <1>3 DEF DriverSays, servoVars, Send
<1>7. (\A ch \in Channels : said[ch] \subseteq said'[ch]) /\ t[2] \in said'[t[1]]
  BY <1>4, <1>5, <1>6
<1>8. PacketFor(t) \in SentOf(said')
  BY <1>7 DEF SentOf
<1>9. Stream' = Stream \o PacketFor(t)
  <2>1. Stream' = kept \o (wire \o PacketFor(t))
    BY <1>6 DEF Stream
  <2>2. PacketFor(t) \in Seq(Byte)
    BY <1>4, PacketIsASeq
  <2>3. (kept \o wire) \o PacketFor(t) = kept \o (wire \o PacketFor(t))
    BY <2>2, StreamIsBytes, BytesInARow
  <2> QED
    BY <2>1, <2>3 DEF Stream
<1> QED
  BY <1>4, <1>6, <1>7, <1>8, <1>9

LEMMA SendFraming ==
    ASSUME IInv, Framing, Send
    PROVE  Framing' /\ (Quiet => Quiet')
<1>1. PICK q \in SentOf(said') :
        /\ q \in [1..4 -> Byte] /\ Stream' = Stream \o q
        /\ \A ch \in Channels : said[ch] \subseteq said'[ch]
        /\ UNCHANGED <<slipped, sample, faults>>
  BY SendAppends
<1> DEFINE s == Stream  t == Stream'  n == Len(s) \div 4  r == Len(s) % 4
<1>2. s \in Seq(Byte)
  BY StreamIsBytes
<1>3. /\ t \in Seq(Byte) /\ Len(t) \div 4 = n + 1 /\ Len(t) % 4 = r
      /\ \A k \in 1..n : Quads(t)[k] = Quads(s)[k]
      /\ \A j \in 1..4 : Quads(t)[n + 1][j] = IF j <= r THEN Rest(s)[j] ELSE q[j - r]
      /\ \A j \in 1..r : Rest(t)[j] = q[4 - r + j]
  <2> HIDE DEF s
  <2>1. LET u == s \o q
        IN  /\ u \in Seq(Byte) /\ Len(u) \div 4 = n + 1 /\ Len(u) % 4 = r
            /\ \A k \in 1..n : Quads(u)[k] = Quads(s)[k]
            /\ \A j \in 1..4 : Quads(u)[n + 1][j] = IF j <= r THEN Rest(s)[j] ELSE q[j - r]
            /\ \A j \in 1..r : Rest(u)[j] = q[4 - r + j]
    BY <1>1, <1>2, OneMorePacket
  <2> QED
    BY <1>1, <2>1 DEF s
<1>4. /\ n \in Nat /\ r \in 0..3
      /\ DOMAIN Quads(s) = 1..n /\ DOMAIN Quads(t) = 1..(n + 1)
      /\ Quads(t)[n + 1] \in [1..4 -> Byte]
  <2>1. n \in Nat /\ Len(s) \in Nat /\ DOMAIN Quads(s) = 1..n
    BY <1>2, QuadsShape
  <2>2. DOMAIN Quads(t) = 1..(n + 1) /\ \A k \in 1..(n + 1) : Quads(t)[k] \in [1..4 -> Byte]
    BY <1>3, QuadsShape
  <2>3. n + 1 \in 1..(n + 1) /\ r \in 0..3
    BY <2>1
  <2> QED
    BY <2>1, <2>2, <2>3
<1>5. /\ SentOf(said) \subseteq SentOf(said') /\ \A w : Harmless(w, said) => Harmless(w, said')
      /\ \A ch \in Channels : Chance(ch, said) \subseteq Chance(ch, said')
  BY <1>1, HarmlessStays
<1> HIDE DEF s, t, n, r
<1>6. \A k \in 1..(n + 1) : k \in 1..n \/ k = n + 1
  BY <1>4
<1>7. ASSUME faults = 0, r = 0, \A k \in DOMAIN Quads(s) : Quads(s)[k] \in SentOf(said)
      PROVE  \A k \in DOMAIN Quads(t) : Quads(t)[k] \in SentOf(said')
  <2>1. \A j \in 1..4 : Quads(t)[n + 1][j] = q[j]
    BY <1>3, <1>7
  <2>2. Quads(t)[n + 1] = q
    BY <1>1, <1>4, <2>1, SameQuad
  <2> QED
    BY <1>1, <1>3, <1>4, <1>5, <1>6, <1>7, <2>2
<1>8. ASSUME TornEnd(s, said)
      PROVE  TornEnd(t, said')
  <2>1. CASE r = 3
    <3>1. \A j \in 1..3 : Rest(t)[j] = q[j + 1]
      BY <1>3, <2>1
    <3>2. \A j \in 1..3 : Losing(q, q, 1)[j] = q[j + 1]
      BY DEF Losing
    <3> QED
      BY <1>3, <2>1, <3>1, <3>2 DEF TornEnd, r
  <2>2. CASE r = 1
    <3>1. Rest(t)[1] = q[4]
      BY <1>3, <2>2
    <3> QED
      BY <1>3, <2>2, <3>1 DEF TornEnd, r
  <2> QED
    BY <1>8, <2>1, <2>2 DEF TornEnd, r
<1>9. ASSUME TornEnd(s, said), AllHarmless(s, said)
      PROVE  AllHarmless(t, said')
  <2> DEFINE w == Quads(t)[n + 1]
  <2>0. \A j \in 1..4 : w[j] = IF j <= r THEN Rest(s)[j] ELSE q[j - r]
    BY <1>3
  <2>w. w \in [1..4 -> Byte]
    BY <1>4
  <2> HIDE DEF w
  <2>1. ASSUME r = 3, NEW p \in SentOf(said), NEW i \in 1..4,
               \A j \in 1..3 : Rest(s)[j] = Losing(p, p, i)[j]
        PROVE  Harmless(w, said')
    <3>1. \A j \in 1..4 : w[j] = IF j < i THEN p[j] ELSE IF j < 4 THEN p[j + 1] ELSE q[1]
      <4>1. \A j \in 1..3 : w[j] = Losing(p, p, i)[j]
        BY <2>0, <2>1
      <4>2. \A j \in 1..3 : Losing(p, p, i)[j] = IF j < i THEN p[j] ELSE p[j + 1]
        BY DEF Losing
      <4>3. w[4] = q[1]
        BY <2>0, <2>1
      <4>4. \A j \in 1..4 : j \in 1..3 \/ (j = 4 /\ ~(j < i))
        OBVIOUS
      <4> QED
        BY <4>1, <4>2, <4>3, <4>4
    <3>2. w = Losing(p, q, i)
      BY <2>w, <3>1 DEF Losing
    <3>3. w \in OutOfStep(p, q)
      BY <3>2 DEF OutOfStep
    <3> QED
      BY <1>5, <1>9, <3>3, OutOfStepIsHarmless
  <2>2. ASSUME r = 1, NEW c, Rest(s)[1] = c, c \in StrayBytes \/ \E p \in SentOf(said) : c = p[4]
        PROVE  Harmless(w, said')
    <3>1. \A j \in 1..4 : w[j] = IF j < 1 THEN q[j] ELSE IF j = 1 THEN c ELSE q[j - 1]
      BY <2>0, <2>2
    <3>2. w = Gaining(q, c, 1)
      BY <2>w, <3>1 DEF Gaining
    <3>3. \E p \in SentOf(said') : w \in OutOfStep(p, q)
      BY <1>5, <2>2, <3>2 DEF OutOfStep
    <3> QED
      BY <1>9, <3>3, OutOfStepIsHarmless
  <2>3. Harmless(w, said')
    BY <1>9, <2>1, <2>2 DEF TornEnd, r
  <2> QED
    BY <1>3, <1>4, <1>5, <1>6, <1>9, <2>3 DEF AllHarmless, w
<1>10. Framing'
  <2>1. faults' = 0 => ~slipped' /\ \A k \in DOMAIN Quads(t) : Quads(t)[k] \in SentOf(said')
    <3>1. faults = 0 => r = 0
      BY DEF Framing, IInv, InStep, r, s
    <3> QED
      BY <1>1, <1>7, <3>1 DEF Framing, s
  <2>2. slipped' /\ faults' <= 1 => TornEnd(t, said')
    BY <1>1, <1>8 DEF Framing, s
  <2> QED
    BY <1>1, <2>1, <2>2 DEF Framing, t
<1>11. ASSUME Quiet PROVE Quiet'
  <2>1. slipped' /\ faults' <= 1 => AllHarmless(t, said')
    BY <1>1, <1>9, <1>11 DEF Framing, Quiet, s
  <2>2. slipped' /\ faults' <= 1
          => \A ch \in Channels : sample'[ch] \in said'[ch] \cup Chance(ch, said') \cup {Unset}
    BY <1>1, <1>5, <1>11 DEF Quiet
  <2> QED
    BY <2>1, <2>2 DEF Quiet, t
<1> QED
  BY <1>10, <1>11

(* Damage to a packet is a fault of its own.                               *)
LEMMA DamagedFraming ==
    ASSUME IInv, Framing, SendDamaged
    PROVE  Framing' /\ (Quiet => Quiet')
<1>1. faults' = faults + 1 /\ UNCHANGED slipped
  BY DEF SendDamaged, Fault, DriverSays
<1>2. faults \in Nat /\ (faults = 0 => ~slipped)
  BY DEF Framing
<1>3. faults' \in Nat /\ faults' # 0 /\ ~(slipped' /\ faults' <= 1)
  BY <1>1, <1>2
<1> QED
  BY <1>3 DEF Framing, Quiet

LEMMA SlipIsOneByte ==
    ASSUME IInv, Slip
    PROVE  \/ \E n \in 1..Len(Stream) : Without(Stream', Stream, n)
           \/ \E n \in 1..(Len(Stream) + 1), b \in StrayBytes : With(Stream', Stream, n, b)
<1>1. /\ Stream \in Seq(Byte) /\ kept \in Seq(Byte) /\ wire \in Seq(Byte)
      /\ Len(kept) \in Nat /\ Len(wire) \in Nat
  BY StreamIsBytes, LenProperties
<1>2. UNCHANGED kept /\ Stream' = kept \o wire' /\ Stream = kept \o wire
  BY DEF Slip, servoVars, Stream
<1> HIDE DEF Stream
<1>3. Len(Stream) = Len(kept) + Len(wire)
  BY <1>1, <1>2, ConcatProperties
<1>4. ASSUME NEW i \in 1..Len(wire), wire' = RemoveAt(wire, i)
      PROVE  Without(Stream', Stream, Len(kept) + i) /\ Len(kept) + i \in 1..Len(Stream)
  <2>1. Without(wire', wire, i)
    BY <1>1, <1>4, RemovedAt
  <2>2. Len(kept) + i \in 1..Len(Stream)
    BY <1>1, <1>3
  <2> QED
    BY <1>1, <1>2, <2>1, <2>2, WithoutBehind
<1>5. ASSUME NEW i \in 1..(Len(wire) + 1), NEW b \in StrayBytes, wire' = InsertAt(wire, i, b)
      PROVE  With(Stream', Stream, Len(kept) + i, b) /\ Len(kept) + i \in 1..(Len(Stream) + 1)
  <2>1. With(wire', wire, i, b)
    BY <1>1, <1>5, InsertedAt, StrayBytesAreBytes
  <2>2. Len(kept) + i \in 1..(Len(Stream) + 1)
    BY <1>1, <1>3
  <2> QED
    BY <1>1, <1>2, <2>1, <2>2, WithBehind
<1>6. CASE \E i \in DOMAIN wire : wire' = RemoveAt(wire, i)
  <2>1. DOMAIN wire = 1..Len(wire)
    BY <1>1
  <2> QED
    BY <1>4, <1>6, <2>1
<1>7. CASE \E i \in 1..(Len(wire) + 1) : \E b \in StrayBytes : wire' = InsertAt(wire, i, b)
  BY <1>5, <1>7
<1> QED
  BY <1>6, <1>7 DEF Slip

LEMMA SlipFraming ==
    ASSUME IInv, Framing, Slip
    PROVE  Framing' /\ Quiet'
<1> DEFINE s == Stream  t == Stream'  m == Len(s) \div 4
<1>1. /\ faults' = faults + 1 /\ slipped' /\ UNCHANGED <<said, sample>>
      /\ faults' \in Nat /\ faults' # 0 /\ (faults' <= 1 => faults = 0)
  <2>1. faults' = faults + 1 /\ slipped' /\ UNCHANGED <<said, sample>>
    BY DEF Slip, Fault, servoVars
  <2>2. faults \in Nat
    BY DEF Framing
  <2> QED
    BY <2>1, <2>2
<1>2. s \in Seq(Byte) /\ StrayBytes \subseteq Byte
  BY StreamIsBytes, StrayBytesAreBytes
<1> SUFFICES ASSUME faults = 0
             PROVE  /\ TornEnd(t, said)
                    /\ AllHarmless(t, said)
                    /\ \A ch \in Channels : sample[ch] \in said[ch] \cup {Unset}
  BY <1>1 DEF Framing, Quiet
<1>3. /\ Len(s) % 4 = 0 /\ \A k \in DOMAIN Quads(s) : Quads(s)[k] \in SentOf(said)
      /\ \A ch \in Channels : sample[ch] \in said[ch] \cup {Unset}
  BY DEF Framing, IInv, InStep, InOrder
<1>4. \/ \E n \in 1..Len(s) : Without(t, s, n)
      \/ \E n \in 1..(Len(s) + 1), b \in StrayBytes : With(t, s, n, b)
  BY SlipIsOneByte
<1>5. DOMAIN Quads(s) = 1..m /\ DOMAIN Quads(t) = 1..(Len(t) \div 4)
  BY QuadsCount
<1> HIDE DEF s, t, m
<1>6. ASSUME NEW n \in 1..Len(s), Without(t, s, n)
      PROVE  TornEnd(t, said) /\ AllHarmless(t, said)
  <2>1. /\ m \in Nat \ {0} /\ Len(t) \div 4 = m - 1 /\ Len(t) % 4 = 3
        /\ \A k \in 1..(m - 1) :
             \/ Quads(t)[k] = Quads(s)[k]
             \/ \E i \in 1..4 : Quads(t)[k] = Losing(Quads(s)[k], Quads(s)[k + 1], i)
        /\ \E i \in 1..4 : \A j \in 1..3 : Rest(t)[j] = Losing(Quads(s)[m], Quads(s)[m], i)[j]
    BY <1>2, <1>3, <1>6, OneByteLess DEF m
  <2>2. m \in 1..m /\ \A k \in 1..(m - 1) : k \in 1..m /\ k + 1 \in 1..m
    BY <2>1
  <2>3. TornEnd(t, said)
    BY <1>3, <1>5, <2>1, <2>2 DEF TornEnd
  <2>4. ASSUME NEW k \in 1..(m - 1) PROVE Harmless(Quads(t)[k], said)
    <3> DEFINE q == Quads(s)[k]  p == Quads(s)[k + 1]
    <3>1. q \in SentOf(said) /\ p \in SentOf(said)
      BY <1>3, <1>5, <2>2
    <3>2. Quads(t)[k] = q \/ \E i \in 1..4 : Quads(t)[k] = Losing(q, p, i)
      BY <2>1
    <3> HIDE DEF q, p
    <3>3. Quads(t)[k] = q \/ Quads(t)[k] \in OutOfStep(q, p)
      BY <3>2 DEF OutOfStep
    <3> QED
      BY <2>4, <3>1, <3>3, SentIsHarmless, OutOfStepIsHarmless
  <2> QED
    BY <1>5, <2>1, <2>3, <2>4 DEF AllHarmless
<1>7. ASSUME NEW n \in 1..(Len(s) + 1), NEW b \in StrayBytes, With(t, s, n, b)
      PROVE  TornEnd(t, said) /\ AllHarmless(t, said)
  <2>1. /\ m \in Nat /\ Len(t) \div 4 = m /\ Len(t) % 4 = 1
        /\ \A k \in 1..m :
             \/ Quads(t)[k] = Quads(s)[k]
             \/ \E i \in 1..4 : Quads(t)[k] = Gaining(Quads(s)[k], b, i)
             \/ /\ k - 1 \in 1..m
                /\ Quads(t)[k] = Gaining(Quads(s)[k], Quads(s)[k - 1][4], 1)
        /\ Rest(t)[1] = b \/ (m \in 1..m /\ Rest(t)[1] = Quads(s)[m][4])
    <3>1. b \in Byte
      BY <1>2
    <3> QED
      BY <1>2, <1>3, <1>7, <3>1, OneByteMore DEF m
  <2>2. TornEnd(t, said)
    BY <1>3, <1>5, <2>1 DEF TornEnd
  <2>3. ASSUME NEW k \in 1..m PROVE Harmless(Quads(t)[k], said)
    <3> DEFINE q == Quads(s)[k]  p == Quads(s)[k - 1]  w == Quads(t)[k]
    <3>1. q \in SentOf(said) /\ (k - 1 \in 1..m => p \in SentOf(said))
      BY <1>3, <1>5
    <3>2. \/ w = q
          \/ \E i \in 1..4 : w = Gaining(q, b, i)
          \/ k - 1 \in 1..m /\ w = Gaining(q, p[4], 1)
      BY <2>1
    <3> HIDE DEF q, p, w
    <3>3. CASE w = q
      BY <3>1, <3>3, SentIsHarmless DEF w
    <3>4. CASE \E i \in 1..4 : w = Gaining(q, b, i)
      <4>1. w \in OutOfStep(q, q)
        BY <3>4 DEF OutOfStep
      <4> QED
        BY <2>3, <3>1, <4>1, OutOfStepIsHarmless DEF w
    <3>5. CASE k - 1 \in 1..m /\ w = Gaining(q, p[4], 1)
      <4>1. w \in OutOfStep(p, q)
        BY <3>5 DEF OutOfStep
      <4> QED
        BY <2>3, <3>1, <3>5, <4>1, OutOfStepIsHarmless DEF w
    <3> QED
      BY <3>2, <3>3, <3>4, <3>5
  <2> QED
    BY <1>5, <2>1, <2>2, <2>3 DEF AllHarmless
<1> QED
  BY <1>3, <1>4, <1>6, <1>7

(* A feed takes whole packets from the front of the stream.                *)
LEMMA FeedTakesPackets ==
    ASSUME IInv, FeedDriverBytes
    PROVE  /\ UNCHANGED <<said, slipped, faults>>
           /\ Stream' \in Seq(Byte)
           /\ PacketsCut(Stream, Stream', sample, sample')
<1>1. PICK n \in 1..Len(wire) :
        /\ wire' = SubSeq(wire, n + 1, Len(wire))
        /\ kept' = Feed(kept, SubSeq(wire, 1, n), sample).kept
        /\ sample' = Feed(kept, SubSeq(wire, 1, n), sample).sample
        /\ UNCHANGED <<said, slipped, faults>>
  BY DEF FeedDriverBytes
<1> DEFINE bytes == SubSeq(wire, 1, n)
           rest == SubSeq(wire, n + 1, Len(wire))
<1>2. wire \in Seq(Byte) /\ kept \in Seq(Byte) /\ Len(wire) \in Nat
  BY LenProperties DEF IInv, LinkTypes
<1>3. bytes \in Seq(Byte) /\ rest \in Seq(Byte) /\ Stream = (kept \o bytes) \o rest
  BY WireInTwo
<1>5. Stream' = kept' \o rest
  BY <1>1 DEF Stream
<1>6. kept' = Feed(kept, bytes, sample).kept /\ sample' = Feed(kept, bytes, sample).sample
  BY <1>1
<1> HIDE DEF bytes, rest, Stream
<1> DEFINE fed == Feed(kept, bytes, sample)
<1>7. /\ fed.kept \o rest \in Seq(Byte)
      /\ PacketsCut((kept \o bytes) \o rest, fed.kept \o rest, sample, fed.sample)
  BY <1>2, <1>3, FeedCutsPackets
<1> HIDE DEF fed
<1> QED
  BY <1>1, <1>3, <1>5, <1>6, <1>7 DEF fed

LEMMA FeedFraming ==
    ASSUME IInv, Framing, FeedDriverBytes
    PROVE  Framing' /\ (Quiet => Quiet')
<1>1. UNCHANGED <<said, slipped, faults>> /\ Stream' \in Seq(Byte)
  BY FeedTakesPackets
<1>2. PICK s \in Seq(Byte) :
        /\ Len(s) % 4 = 0 /\ Stream = s \o Stream'
        /\ \A ch \in Channels : sample'[ch] = Latest(Quads(s), ch, sample[ch])
  BY FeedTakesPackets DEF PacketsCut
<1> DEFINE st == Stream  t == Stream'  m == Len(s) \div 4  n == Len(t) \div 4
<1>3. /\ m \in Nat /\ n \in Nat /\ Len(st) \div 4 = m + n
      /\ \A k \in 1..m : Quads(st)[k] = Quads(s)[k]
      /\ \A k \in 1..n : Quads(st)[m + k] = Quads(t)[k]
  <2> HIDE DEF Stream
  <2>1. LET u == s \o t
        IN  /\ m \in Nat /\ n \in Nat /\ Len(u) \div 4 = m + n
            /\ \A k \in 1..m : Quads(u)[k] = Quads(s)[k]
            /\ \A k \in 1..n : Quads(u)[m + k] = Quads(t)[k]
    BY <1>1, <1>2, QuadsOfConcat
  <2> QED
    BY <1>2, <2>1
<1>4. Rest(st) = Rest(t) /\ Len(st) % 4 = Len(t) % 4
  <2>1. Rest(st) = Rest(t)
    BY <1>1, <1>2, RestOfConcat
  <2>2. st \in Seq(Byte)
    BY StreamIsBytes
  <2>3. Len(Rest(st)) = Len(st) % 4 /\ Len(Rest(t)) = Len(t) % 4
    BY <1>1, <2>2, WholeAndRest
  <2> QED
    BY <2>1, <2>3
<1>5. DOMAIN Quads(st) = 1..(m + n) /\ DOMAIN Quads(s) = 1..m /\ DOMAIN Quads(t) = 1..n
  BY <1>3, QuadsCount
<1> HIDE DEF st, t, m, n
<1>6. (\A k \in 1..m : k \in 1..(m + n)) /\ \A k \in 1..n : m + k \in 1..(m + n)
  BY <1>3
<1>7. faults = 0 => \A k \in DOMAIN Quads(t) : Quads(t)[k] \in SentOf(said)
  BY <1>3, <1>5, <1>6 DEF Framing, st
<1>8. TornEnd(st, said) => TornEnd(t, said)
  BY <1>4 DEF TornEnd
<1>9. AllHarmless(st, said) => AllHarmless(s, said) /\ AllHarmless(t, said)
  BY <1>3, <1>5, <1>6 DEF AllHarmless
<1>10. Framing'
  BY <1>1, <1>7, <1>8 DEF Framing, st, t
<1>11. ASSUME Quiet PROVE Quiet'
  <2> SUFFICES ASSUME slipped, faults <= 1
               PROVE  AllHarmless(t, said)
                      /\ \A ch \in Channels :
                           sample'[ch] \in said[ch] \cup Chance(ch, said) \cup {Unset}
    BY <1>1 DEF Quiet, t
  <2>1. /\ AllHarmless(st, said)
        /\ \A ch \in Channels : sample[ch] \in said[ch] \cup Chance(ch, said) \cup {Unset}
    BY <1>11 DEF Quiet, st
  <2>2. ASSUME NEW ch \in Channels PROVE sample'[ch] \in said[ch] \cup Chance(ch, said) \cup {Unset}
    <3>1. sample'[ch] = Latest(Quads(s), ch, sample[ch])
      BY <1>2
    <3>2. Latest(Quads(s), ch, sample[ch]) \in SaidIn(s, ch) \cup {sample[ch]}
      BY SaidInType
    <3>3. SaidIn(s, ch) \subseteq said[ch] \cup Chance(ch, said)
      BY <1>9, <2>1, HarmlessSaysWhatWasSaid
    <3> QED
      BY <2>1, <3>1, <3>2, <3>3
  <2> QED
    BY <1>9, <2>1, <2>2
<1> QED
  BY <1>10, <1>11

(* Every step that counts no fault leaves their number, and every other    *)
(* one adds one.                                                           *)
LEMMA FaultsCounted == [Next]_vars => UNCHANGED faults \/ Fault
<1> SUFFICES ASSUME [Next]_vars PROVE UNCHANGED faults \/ Fault
  OBVIOUS
<1>1. CASE Send \/ SendDamaged \/ Slip \/ FeedDriverBytes
  BY <1>1 DEF Send, SendDamaged, Slip, FeedDriverBytes
<1>2. CASE (\E e \in BOOLEAN : SetAutopilotEnabled(e)) \/ ServoPoll
  BY <1>2 DEF SetAutopilotEnabled, ServoPoll
<1>3. CASE RudderPoll \/ UpdateRudder \/ Calibrate \/ AssignAngle
  BY <1>3 DEF RudderPoll, UpdateRudder, Calibrate, AssignAngle
<1>4. CASE Hear
  BY <1>4 DEF Hear
<1>5. CASE UNCHANGED vars
  BY <1>5 DEF vars
<1> QED
  BY <1>1, <1>2, <1>3, <1>4, <1>5 DEF Next

LEMMA StreamAloneFraming ==
    ASSUME Framing, UNCHANGED <<link, kept, sample>>, UNCHANGED faults \/ Fault
    PROVE  Framing' /\ (Quiet => Quiet')
<1>1. UNCHANGED <<wire, said, slipped, kept, sample>>
  BY DEF link
<1>2. Stream' = Stream
  BY <1>1 DEF Stream
<1>3. /\ faults' \in Nat /\ (faults' = 0 => faults = 0) /\ (faults' <= 1 => faults <= 1)
  BY DEF Framing, Fault
<1> HIDE DEF Stream
<1> QED
  BY <1>1, <1>2, <1>3 DEF Framing, Quiet

LEMMA NextFraming ==
    ASSUME IInv, Framing, [Next]_vars
    PROVE  Framing' /\ (Quiet => Quiet')
<1>1. CASE Send
  BY <1>1, SendFraming
<1>2. CASE SendDamaged
  BY <1>2, DamagedFraming
<1>3. CASE Slip
  BY <1>3, SlipFraming
<1>4. CASE FeedDriverBytes
  BY <1>4, FeedFraming
<1>5. CASE UNCHANGED <<link, kept, sample>>
  BY <1>5, FaultsCounted, StreamAloneFraming
<1>6. ASSUME Next, ~(Send \/ SendDamaged \/ Slip \/ FeedDriverBytes)
      PROVE  UNCHANGED <<link, kept, sample>>
  <2>1. CASE (\E e \in BOOLEAN : SetAutopilotEnabled(e)) \/ ServoPoll
    BY <2>1 DEF SetAutopilotEnabled, ServoPoll
  <2>2. CASE RudderPoll \/ UpdateRudder \/ Calibrate \/ AssignAngle
    BY <2>2 DEF RudderPoll, UpdateRudder, Calibrate, AssignAngle, servoVars
  <2>3. CASE Hear
    BY <2>3 DEF Hear, FeedLine, servoVars
  <2> QED
    BY <1>6, <2>1, <2>2, <2>3 DEF Next
<1>7. UNCHANGED vars => UNCHANGED <<link, kept, sample>>
  BY DEF vars, servoVars
<1> QED
  BY <1>1, <1>2, <1>3, <1>4, <1>5, <1>6, <1>7

LEMMA InitFraming == Init => Framing /\ Quiet
<1> SUFFICES ASSUME Init PROVE Framing /\ Quiet
  OBVIOUS
<1>1. Stream = <<>> \o <<>> /\ ~slipped /\ faults = 0
  BY DEF Init, Stream
<1>2. <<>> \o <<>> = <<>>
  BY EmptySeq, ConcatEmptySeq
<1> HIDE DEF Stream
<1>3. Len(Stream) = 0
  BY <1>1, <1>2, EmptySeq
<1>4. DOMAIN Quads(Stream) = {}
  <2>1. Len(Stream) \div 4 = 0 /\ 1..0 = {}
    BY <1>3
  <2> QED
    BY <2>1, QuadsCount
<1> QED
  BY <1>1, <1>4 DEF Framing, Quiet

(* What the stream is made of with no fault, and behind the first.         *)
THEOREM StaysFramed == Spec => []Framing
<1>1. Init => Framing
  BY InitFraming
<1>2. IInv /\ Framing /\ [Next]_vars => Framing'
  BY NextFraming
<1> QED
  BY <1>1, <1>2, Invariant, PTL DEF Spec

(* And what is in it.                                                      *)
THEOREM StaysQuiet == Spec => []Quiet
<1>1. Init => Quiet
  BY InitFraming
<1>2. IInv /\ Framing /\ Quiet /\ [Next]_vars => Quiet'
  BY NextFraming
<1> QED
  BY <1>1, <1>2, Invariant, StaysFramed, PTL DEF Spec

-----------------------------------------------------------------------------
(* The checksum of sentences.                                              *)

(* Characters have codes of their own.                                     *)
LEMMA AsciiIsACode ==
    ASSUME NEW c \in Alphabet
    PROVE  Ascii(c) \in 36..102 /\ IsCode(Ascii(c), c)
<1>1. \E n \in 36..102 : IsCode(n, c)
  <2>1. CASE c = "$"
    BY <2>1 DEF IsCode
  <2>2. ASSUME NEW i \in 1..5, c = Signs[i]
        PROVE  IsCode(i + 41, c)
    BY <2>2 DEF IsCode
  <2>3. ASSUME NEW i \in 1..10, c = Digits[i]
        PROVE  IsCode(i + 47, c)
    BY <2>3 DEF IsCode
  <2>4. ASSUME NEW i \in 1..26, c = Upper[i]
        PROVE  IsCode(i + 64, c)
    BY <2>4 DEF IsCode
  <2>5. ASSUME NEW i \in 1..6, c = Lower[i]
        PROVE  IsCode(i + 96, c)
    BY <2>5 DEF IsCode
  <2>6. \A i \in 1..26 : i + 64 \in 36..102 /\ (i \in 1..5 => i + 41 \in 36..102)
          /\ (i \in 1..10 => i + 47 \in 36..102) /\ (i \in 1..6 => i + 96 \in 36..102)
    OBVIOUS
  <2>7. 1..5 \subseteq 1..26 /\ 1..10 \subseteq 1..26 /\ 1..6 \subseteq 1..26
    OBVIOUS
  <2> QED
    BY <2>1, <2>2, <2>3, <2>4, <2>5, <2>6, <2>7 DEF Alphabet
<1> QED
  BY <1>1 DEF Ascii

LEMMA SameCharacter ==
    ASSUME NEW c \in Alphabet, NEW d \in Alphabet, Bits(Ascii(c)) = Bits(Ascii(d))
    PROVE  c = d
<1>1. Ascii(c) \in Byte /\ Ascii(d) \in Byte
  BY AsciiIsACode DEF Byte
<1>2. Ascii(c) = Ascii(d)
  BY <1>1, SameBits
<1>3. \A n \in 36..102 : IsCode(n, c) /\ IsCode(n, d) => c = d
  BY DEF IsCode
<1> QED
  BY <1>2, <1>3, AsciiIsACode

(* One character more or less that has a bit changes the sum's.            *)
LEMMA ParityOfOne ==
    ASSUME NEW S, NEW T, NEW i, IsFiniteSet(S), T = S \cup {i}, i \notin S
    PROVE  /\ Cardinality(S) % 2 \in Bit /\ Cardinality(T) % 2 \in Bit
           /\ Cardinality(S) % 2 # Cardinality(T) % 2
<1>1. Cardinality(S) \in Nat /\ Cardinality(T) = Cardinality(S) + 1
  BY FS_AddElement, FS_CardinalityType
<1> QED
  BY <1>1 DEF Bit

LEMMA HavingIsFinite ==
    ASSUME NEW body \in Seq(Alphabet), NEW k \in 1..8
    PROVE  IsFiniteSet(Having(body, k)) /\ Cardinality(Having(body, k)) % 2 \in Bit
<1>1. Having(body, k) \subseteq 1..Len(body) /\ Len(body) \in Nat
  BY DEF Having
<1>2. IsFiniteSet(1..Len(body))
  BY <1>1, FS_Interval
<1>3. IsFiniteSet(Having(body, k))
  BY <1>1, <1>2, FS_Subset
<1>4. Cardinality(Having(body, k)) \in Nat
  BY <1>3, FS_CardinalityType
<1> QED
  BY <1>3, <1>4 DEF Bit

LEMMA ChecksumBits ==
    ASSUME NEW body \in Seq(Alphabet)
    PROVE  \A k \in 1..8 : Bits(ChecksumBody(body))[k] = Cardinality(Having(body, k)) % 2
<1> DEFINE s == [k \in 1..8 |-> Cardinality(Having(body, k)) % 2]
<1>1. s \in [1..8 -> Bit]
  BY HavingIsFinite
<1>2. ChecksumBody(body) = FromBits(s)
  BY DEF ChecksumBody
<1>3. \A k \in 1..8 : s[k] = Cardinality(Having(body, k)) % 2
  OBVIOUS
<1> HIDE DEF s
<1> QED
  BY <1>1, <1>2, <1>3, BitsOfFromBits

(* No two bodies that differ in one character have one checksum.           *)
THEOREM OneCharacterIsCaught ==
    ASSUME NEW body \in Seq(Alphabet), NEW i \in DOMAIN body, NEW c \in Alphabet, c # body[i]
    PROVE  ChecksumBody([body EXCEPT ![i] = c]) # ChecksumBody(body)
<1> DEFINE came == [body EXCEPT ![i] = c]
<1>1. /\ came \in Seq(Alphabet) /\ DOMAIN came = DOMAIN body /\ came[i] = c
      /\ \A j \in DOMAIN body \ {i} : came[j] = body[j]
  BY ExceptSeq
<1>0. body[i] \in Alphabet
  OBVIOUS
<1>2. Bits(Ascii(c)) \in [1..8 -> Bit] /\ Bits(Ascii(body[i])) \in [1..8 -> Bit]
  <2>1. Ascii(c) \in Byte /\ Ascii(body[i]) \in Byte
    BY <1>0, AsciiIsACode DEF Byte
  <2> QED
    BY <2>1, BitsAreBits
<1>3. Bits(Ascii(c)) # Bits(Ascii(body[i]))
  BY <1>0, SameCharacter
<1>4. PICK k \in 1..8 : Bits(Ascii(c))[k] # Bits(Ascii(body[i]))[k]
  BY <1>2, <1>3
<1> HIDE DEF came
<1> DEFINE x == Having(body, k)
           y == Having(came, k)
<1>6. \A j \in DOMAIN body \ {i} : j \in x <=> j \in y
  BY <1>1 DEF Having
<1>7. i \in x <=> i \notin y
  BY <1>1, <1>2, <1>4 DEF Having, Bit
<1>8. x \subseteq DOMAIN body /\ y \subseteq DOMAIN body
  BY <1>1 DEF Having
<1>9. IsFiniteSet(x) /\ IsFiniteSet(y)
  BY <1>1, HavingIsFinite
<1>10. Cardinality(x) % 2 # Cardinality(y) % 2
  <2> HIDE DEF x, y
  <2>1. CASE i \in x
    <3>1. x = y \cup {i} /\ i \notin y
      BY <1>6, <1>7, <1>8, <2>1
    <3> QED
      BY <1>9, <3>1, ParityOfOne
  <2>2. CASE i \notin x
    <3>1. y = x \cup {i}
      BY <1>6, <1>7, <1>8, <2>2
    <3> QED
      BY <1>9, <2>2, <3>1, ParityOfOne
  <2> QED
    BY <2>1, <2>2
<1>11. ChecksumBody(came) # ChecksumBody(body)
  BY <1>1, <1>10, ChecksumBits
<1> QED
  BY <1>11 DEF came

LEMMA StarIs ==
    ASSUME NEW l \in Seq(Alphabet), NEW n \in DOMAIN l, l[n] = "*",
           \A j \in DOMAIN l : l[j] = "*" => n <= j
    PROVE  StarOf(l) = n
<1> DEFINE stars == {i \in DOMAIN l : l[i] = "*"}
<1>1. n \in stars /\ \A j \in stars : n <= j
  OBVIOUS
<1>2. \A i \in stars : (\A j \in stars : i <= j) => i = n
  BY <1>1
<1>3. StarOf(l) = CHOOSE i \in stars : \A j \in stars : i <= j
  BY <1>1 DEF StarOf
<1> HIDE DEF stars
<1> QED
  BY <1>1, <1>2, <1>3

LEMMA NoStar ==
    ASSUME NEW l \in Seq(Alphabet), \A j \in DOMAIN l : l[j] # "*"
    PROVE  ~ChecksumOk(l)
  BY DEF ChecksumOk, StarOf

LEMMA MeaningOfBody ==
    ASSUME NEW l, NEW s, l[1] = s[1], l # <<>>, s # <<>>, BodyOf(l) = BodyOf(s)
    PROVE  Meaning(l) = Meaning(s)
<1>1. /\ ParseLine(l).ok = ParseLine(s).ok /\ ParseLine(l).type = ParseLine(s).type
      /\ ParseLine(l).talker = ParseLine(s).talker /\ ParseLine(l).fields = ParseLine(s).fields
  BY DEF ParseLine
<1> QED
  BY <1>1 DEF Meaning

SaysNothing(m) == \A k \in DOMAIN m : m[k] = Unset

LEMMA NoDollarSaysNothing ==
    ASSUME NEW l, l[1] # "$"
    PROVE  SaysNothing(Meaning(l))
<1>1. ~ParseLine(l).ok
  BY DEF ParseLine
<1> QED
  BY <1>1 DEF SaysNothing, Meaning

(* A sentence with one character damaged that has a good checksum all the  *)
(* same says what was sent, or nothing, or has a star in front of its own. *)
THEOREM GoodOrNothing ==
    ASSUME NEW s, Conforming(s), NEW i \in DOMAIN s, NEW c \in Alphabet, c # s[i],
           ChecksumOk([s EXCEPT ![i] = c])
    PROVE  LET l == [s EXCEPT ![i] = c]
           IN  \/ Meaning(l) = Meaning(s) \/ SaysNothing(Meaning(l))
               \/ \E k \in DOMAIN l : l[k] = "*" /\ k < StarOf(s)
<1> DEFINE l == [s EXCEPT ![i] = c]
           n == Len(s) - 2
<1>1. /\ s \in Seq(Alphabet) /\ n \in Nat /\ n > 1 /\ Len(s) = n + 2 /\ s[1] = "$"
      /\ \A j \in DOMAIN s : s[j] = "*" <=> j = n
      /\ ChecksumOk(s) /\ DOMAIN s = 1..(n + 2)
  BY DEF Conforming
<1>2. /\ l \in Seq(Alphabet) /\ Len(l) = n + 2 /\ DOMAIN l = 1..(n + 2) /\ l[i] = c
      /\ \A j \in DOMAIN s \ {i} : l[j] = s[j]
  BY <1>1, ExceptSeq
<1>3. ChecksumOk(l) /\ l = [s EXCEPT ![i] = c]
  OBVIOUS
<1>g. SUFFICES \/ Meaning(l) = Meaning(s) \/ SaysNothing(Meaning(l))
               \/ \E k \in DOMAIN l : l[k] = "*" /\ k < StarOf(s)
  OBVIOUS
<1> HIDE DEF l, n
<1>s. StarOf(s) = n
  <2>1. n \in DOMAIN s /\ s[n] = "*" /\ \A j \in DOMAIN s : s[j] = "*" => n <= j
    BY <1>1
  <2> QED
    BY <1>1, <2>1, StarIs
<1>4. CASE i = 1
  BY <1>1, <1>2, <1>4, NoDollarSaysNothing
<1>5. CASE i \in 2..(n - 1) /\ c = "*"
  <2>1. i \in DOMAIN l /\ l[i] = "*" /\ i < StarOf(s)
    BY <1>1, <1>2, <1>5, <1>s
  <2> QED
    BY <2>1
<1>6. CASE i \in 2..(n - 1) /\ c # "*"
  <2>1. StarOf(l) = n
    <3>1. n \in DOMAIN l /\ l[n] = "*" /\ \A j \in DOMAIN l : l[j] = "*" => n <= j
      BY <1>1, <1>2, <1>6
    <3> QED
      BY <1>2, <3>1, StarIs
  <2>2. BodyOf(l) = [BodyOf(s) EXCEPT ![i - 1] = c]
    <3>1. BodyOf(l) = SubSeq(l, 2, n - 1) /\ BodyOf(s) = SubSeq(s, 2, n - 1)
      BY <1>1, <1>s, <2>1 DEF BodyOf
    <3>2. SubSeq(l, 2, n - 1) = [j \in 1..(n - 2) |-> l[j + 1]]
          /\ SubSeq(s, 2, n - 1) = [j \in 1..(n - 2) |-> s[j + 1]]
      BY <1>1, <1>2
    <3>3. \A j \in 1..(n - 2) : l[j + 1] = IF j = i - 1 THEN c ELSE s[j + 1]
      BY <1>1, <1>2, <1>6
    <3>4. DOMAIN BodyOf(s) = 1..(n - 2)
          /\ \A j \in 1..(n - 2) : BodyOf(s)[j] = s[j + 1] /\ BodyOf(l)[j] = l[j + 1]
      BY <3>1, <3>2
    <3>5. \A j \in 1..(n - 2) : BodyOf(l)[j] = IF j = i - 1 THEN c ELSE BodyOf(s)[j]
      BY <3>3, <3>4
    <3>6. /\ BodyOf(l) \in Seq(Alphabet) /\ BodyOf(s) \in Seq(Alphabet)
          /\ DOMAIN BodyOf(l) = 1..(n - 2)
      BY <1>1, <1>2, <3>1, <3>2
    <3>7. [BodyOf(s) EXCEPT ![i - 1] = c] = [j \in 1..(n - 2) |-> IF j = i - 1 THEN c ELSE BodyOf(s)[j]]
      BY <3>4
    <3>8. BodyOf(l) = [j \in 1..(n - 2) |-> BodyOf(l)[j]]
      BY <3>6
    <3> QED
      BY <3>5, <3>7, <3>8
  <2>3. BodyOf(s) \in Seq(Alphabet) /\ i - 1 \in DOMAIN BodyOf(s) /\ BodyOf(s)[i - 1] = s[i]
    BY <1>1, <1>6, <1>s DEF BodyOf
  <2>4. ChecksumBody(BodyOf(l)) # ChecksumBody(BodyOf(s))
    BY <2>2, <2>3, OneCharacterIsCaught
  <2>5. l[n + 1] = s[n + 1] /\ l[n + 2] = s[n + 2]
    BY <1>1, <1>2, <1>6
  <2> QED
    BY <1>1, <1>3, <1>s, <2>1, <2>4, <2>5 DEF ChecksumOk
<1>7. CASE i = n
  <2>1. \A j \in DOMAIN l : l[j] # "*"
    BY <1>1, <1>2, <1>7
  <2> QED
    BY <1>2, <1>3, <2>1, NoStar
<1>8. CASE i > n
  <2>1. StarOf(l) = n
    <3>1. n \in DOMAIN l /\ l[n] = "*" /\ \A j \in DOMAIN l : l[j] = "*" => n <= j
      BY <1>1, <1>2, <1>8
    <3> QED
      BY <1>2, <3>1, StarIs
  <2>2. BodyOf(l) = BodyOf(s)
    <3>1. BodyOf(l) = SubSeq(l, 2, n - 1) /\ BodyOf(s) = SubSeq(s, 2, n - 1)
      BY <1>1, <1>s, <2>1 DEF BodyOf
    <3>2. SubSeq(l, 2, n - 1) = [j \in 1..(n - 2) |-> l[j + 1]]
          /\ SubSeq(s, 2, n - 1) = [j \in 1..(n - 2) |-> s[j + 1]]
      BY <1>1, <1>2
    <3>3. \A j \in 1..(n - 2) : l[j + 1] = s[j + 1]
      BY <1>1, <1>2, <1>8
    <3> QED
      BY <3>1, <3>2, <3>3
  <2>3. l[1] = s[1] /\ l # <<>> /\ s # <<>>
    BY <1>1, <1>2, <1>8
  <2> QED
    BY <2>2, <2>3, MeaningOfBody
<1> QED
  BY <1>1, <1>4, <1>5, <1>6, <1>7, <1>8

-----------------------------------------------------------------------------
(* The properties.                                                         *)

(* The types, the order of the rudder's limits whatever the calibration,   *)
(* and less than a packet left with the parser.                            *)
THEOREM TypeCorrect == Spec => []TypeOK
<1>1. IInv => TypeOK
  BY DEF IInv, LinkTypes, ServoInv, RudderOk, TypeOK
<1> QED
  BY <1>1, Invariant, PTL

(* The shown telemetry is what the driver said last, however the bytes are *)
(* cut into feeds and whatever short damage hits packets on the way.       *)
THEOREM ShownIsLast == Spec => []ShownIsLastSaid
<1>1. ASSUME IInv, wire = <<>>, ~slipped
      PROVE  sample = last /\ \A ch \in Shown : servo[ch] = last[ch]
  <2>1. kept \in Seq(Byte) /\ Len(kept) < 4 /\ Len(kept) \in Nat
    BY <1>1, LenProperties DEF IInv, LinkTypes
  <2>2. Stream = kept
    BY <1>1, <2>1, ConcatEmptySeq DEF Stream
  <2>3. Len(kept) % 4 = 0 /\ \A ch \in Channels : last[ch] = Latest(Quads(kept), ch, sample[ch])
    BY <1>1, <2>2 DEF IInv, InStep, InOrder
  <2>4. Len(kept) \div 4 = 0
    BY <2>1
  <2>5. DOMAIN Quads(kept) = {}
    BY <2>1, <2>4, QuadsShape
  <2>6. \A ch \in Channels : last[ch] = sample[ch]
    BY <2>3, <2>5 DEF About, Latest
  <2>7. sample = last
    BY <1>1, <2>6 DEF IInv, LinkTypes
  <2> QED
    BY <1>1, <2>7 DEF IInv, ServoInv
<1>2. IInv => ShownIsLastSaid
  BY <1>1 DEF ShownIsLastSaid, Shown
<1> QED
  BY <1>2, Invariant, PTL

(* As long as no byte is lost or added, nothing is taken for telemetry     *)
(* that the driver did not say, whatever number of packets is damaged.     *)
THEOREM NothingForgedInStep ==
    Spec => [](~slipped => \A ch \in Channels : sample[ch] \in said[ch] \cup {Unset})
<1>1. IInv => (~slipped => \A ch \in Channels : sample[ch] \in said[ch] \cup {Unset})
  BY DEF IInv, InStep, InOrder
<1> QED
  BY <1>1, Invariant, PTL

(* The parser never gets back into step by itself: once a byte is lost or  *)
(* added, what is on its way is never whole packets again, however much    *)
(* the driver sends and however it is cut into feeds.                      *)
THEOREM NeverBackInStep == Spec => [](slipped /\ faults <= 1 => Len(Stream) % 4 # 0)
<1>1. Framing => (slipped /\ faults <= 1 => Len(Stream) % 4 # 0)
  BY DEF Framing, TornEnd
<1> QED
  BY <1>1, StaysFramed, PTL

(* And all the same nothing is taken for telemetry but what the driver     *)
(* said and what the ends of two of its packets say by chance, for all     *)
(* values that it sends.                                                   *)
THEOREM NothingForgedByOneFault == Spec => [](faults <= 1 => NothingForged)
<1>1. IInv /\ Quiet => (faults <= 1 => NothingForged)
  BY DEF IInv, InStep, InOrder, Quiet, NothingForged
<1> QED
  BY <1>1, Invariant, StaysQuiet, PTL

(* In particular on a line with one fault.                                 *)
THEOREM NeverForged ==
    ASSUME MaxFaults \in {0, 1}
    PROVE  Spec => []NothingForged
<1>1. Init => faults \in 0..1
  BY DEF Init
<1>2. faults \in 0..1 /\ [Next]_vars => (faults \in 0..1)'
  BY FaultsCounted DEF Fault
<1>3. faults \in 0..1 /\ (faults <= 1 => NothingForged) => NothingForged
  OBVIOUS
<1> QED
  BY <1>1, <1>2, <1>3, NothingForgedByOneFault, PTL DEF Spec

(* The servo is never shown engaged without a cause.                       *)
THEOREM EngagedHasACause == Spec => []EngagedIsExplained
<1>1. IInv => EngagedIsExplained
  BY DEF IInv
<1> QED
  BY <1>1, Invariant, PTL

(* An angle of Rudder's own does not outlive its sample.                   *)
THEOREM AngleHasASample == Spec => ServoAngleHasASample
<1>1. IInv /\ [Next]_vars => [Orphan(rudder') => Orphan(rudder) \/ AssignAngle]_vars
  BY NoNewOrphans
<1> QED
  BY <1>1, Invariant, PTL DEF Spec, ServoAngleHasASample

(* A poll never drops the sample that is there.                            *)
THEOREM PollKeeps == Spec => PollKeepsTheSample
<1> DEFINE Kept == RudderPoll /\ rudder.raw_valid
                     => /\ rudder'.valid /\ rudder'.raw_valid
                        /\ rudder'.angle = AngleOf(rudder.raw, rudder.offset)
<1>1. IInv => Kept
  BY PollOk DEF IInv, RudderPoll
<1>2. IInv /\ [Next]_vars => [Kept]_vars
  BY <1>1
<1> QED
  BY <1>2, Invariant, PTL DEF Spec, PollKeepsTheSample

(* Whoever looks at checksum_ok can rely on it, except where damage made a *)
(* star of a character of the body.                                        *)
THEOREM GoodChecksumsAreGenuine ==
    ASSUME \A s \in Sentences : Conforming(s), DamageChars \subseteq Alphabet
    PROVE  Spec => GoodChecksumIsGenuine
<1>1. ASSUME NEW h \in Trusted
      PROVE  h.came = h.sent \/ h.cut
  <2> DEFINE Heard(s, l) ==
        [sent |-> Meaning(s), came |-> Meaning(l), intact |-> l = s,
         cut |-> \E i \in DOMAIN l : l[i] = "*" /\ i < StarOf(s),
         checksum_ok |-> ParseLine(l).checksum_ok]
  <2>1. PICK s \in Sentences : \E l \in Damaged(s) \cup {s} : h = Heard(s, l)
    BY DEF Trusted, Hearings
  <2>2. PICK l \in Damaged(s) \cup {s} : h = Heard(s, l)
    BY <2>1
  <2>3. l # s /\ ParseLine(l).checksum_ok /\ ~SaysNothing(Meaning(l))
    BY <2>2 DEF Trusted, SaysNothing
  <2>4. PICK i \in DOMAIN s, c \in DamageChars : l = [s EXCEPT ![i] = c]
    BY <2>2, <2>3 DEF Damaged
  <2>5. ChecksumOk(l) /\ Conforming(s) /\ c \in Alphabet
    BY <2>3 DEF ParseLine
  <2>6. c # s[i]
    BY <2>3, <2>4, <2>5 DEF Conforming
  <2>7. \/ Meaning(l) = Meaning(s)
        \/ \E k \in DOMAIN l : l[k] = "*" /\ k < StarOf(s)
    BY <2>3, <2>4, <2>5, <2>6, GoodOrNothing
  <2> QED
    BY <2>2, <2>7
<1>2. [\A h \in Trusted : FeedLine(h.came) => ApplySentence(h.sent) \/ h.cut]_vars
  BY <1>1 DEF FeedLine
<1> QED
  BY <1>2, PTL DEF GoodChecksumIsGenuine
=============================================================================
