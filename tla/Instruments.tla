---------------------------- MODULE Instruments ----------------------------
(***************************************************************************)
(* What comes in from outside and ends up in PypilotState: telemetry of    *)
(* the motor driver through Servo::feed_driver_bytes, samples and polls of *)
(* Rudder, NMEA sentences through Nmea::feed_line; and the control loop's  *)
(* calls of Servo that overwrite what the telemetry said.                  *)
(*                                                                         *)
(* The driver and the serial line to it are external: the line loses,      *)
(* gains and damages bytes, and hands them over in pieces of any size.     *)
(* Timestamps are left out: each sample is stamped with the time it is     *)
(* applied at, and nothing in the code reads a stamp.                      *)
(***************************************************************************)
EXTENDS ServoProtocol, Nmea0183

CONSTANTS
    Telemetry,   \* packets the driver sends: set of <<channel, value>>
    Bursts,      \* damage to a packet: four bytes to exclusive-or it with
    StrayBytes,  \* bytes the line makes up
    Sentences,   \* NMEA lines sent
    DamageChars, \* characters that damage puts into a line
    RawSamples,  \* rudder samples handed to Rudder::update, on the wire's scale
    Devices,     \* and the devices they come from
    Offsets, Ranges,  \* values of rudder.offset and rudder.range, in degrees
    Angles,      \* values assigned to rudder.angle, in hundredths of a degree
    NaN,         \* the sample that is not a number
    NoDevice,    \* the empty name of a device
    MaxInputs,   \* bound: packets, sentences, samples and calibrations
    MaxFaults    \* bound: faults of the line

ASSUME TelemetryIsKnown == Telemetry \subseteq (Channels \X Word)
ASSUME NoDeviceIsNone == NoDevice \notin Devices \cup {"servo"}
ASSUME NaNIsNone == NaN \notin RawSamples \cup Word
ASSUME BurstsAreShort == \A e \in Bursts : IsBurst(e)
ASSUME StrayBytesAreBytes == StrayBytes \subseteq Byte
ASSUME AnglesAreNumbers == Offsets \cup Ranges \subseteq Int
ASSUME RudderDefaults == 0 \in Offsets /\ 45 \in Ranges

VARIABLES
    wire,        \* bytes between the driver and the pilot
    kept,        \* what the parser keeps of the last feed
    sample,      \* Servo::sample_
    servo,       \* state.servo: [voltage, current, flags, engaged]
    ap_enabled,  \* Servo::ap_enabled_
    rudder,      \* state.rudder
    heading,     \* state.imu.heading, or Unset while it is not valid
    wind,        \* apparent direction and speed, or Unset
    apb,         \* sender of the last APB sentence, or Unset
    said,        \* history: values the driver sent on each channel
    last,        \* history: the last of them that was not damaged
    slipped,     \* history: a byte was lost or made up
    inputs, faults

nmea == <<heading, wind, apb>>
link == <<wire, said, last, slipped>>
servoVars == <<kept, sample, servo, ap_enabled>>
vars == <<link, servoVars, rudder, nmea, inputs, faults>>

Input == inputs < MaxInputs /\ inputs' = inputs + 1
Fault == faults < MaxFaults /\ faults' = faults + 1

-----------------------------------------------------------------------------
(***************************************************************************)
(* The rudder.  scale is 100 and nonlinearity 0: nothing writes them.  The *)
(* angle is in hundredths of a degree, the limits are in hundredths of the *)
(* raw travel of -0.5 to 0.5.  Halves are rounded away from zero.          *)
(***************************************************************************)
Clamp(x) == IF x < -50 THEN -50 ELSE IF x > 50 THEN 50 ELSE x

UpdateMinMaxUnsorted(r) ==
    [r EXCEPT !.min_raw = Clamp(-r.range - r.offset), !.max_raw = Clamp(r.range - r.offset)]

UpdateMinMax(r) ==
    LET a == Clamp(-r.range - r.offset)
        b == Clamp(r.range - r.offset)
    IN  [r EXCEPT !.min_raw = IF a > b THEN b ELSE a, !.max_raw = IF a > b THEN a ELSE b]

AngleOf(raw, offset) ==
    LET exact == 10000 * raw + (100 * offset - 5000) * 65472   \* times 65472
    IN  IF exact >= 0 THEN (2 * exact + 65472) \div (2 * 65472)
        ELSE -((65472 - 2 * exact) \div (2 * 65472))

ResetKeepsAngle(r) == [r EXCEPT !.raw_valid = FALSE]

Reset(r) == [r EXCEPT !.valid = FALSE, !.raw_valid = FALSE]

Update(r, raw, device) ==
    IF device # r.last_device THEN [Reset(r) EXCEPT !.last_device = device]
    ELSE IF raw = NaN THEN Reset(r)
    ELSE [UpdateMinMax(r) EXCEPT !.raw = raw, !.raw_valid = TRUE, !.angle = AngleOf(raw, r.offset),
                                 !.source = "servo", !.valid = TRUE]

Poll(r) ==
    LET limited == UpdateMinMax(r)
    IN  IF ~r.raw_valid THEN limited
        ELSE Update(limited, r.raw, IF r.last_device = NoDevice THEN "servo" ELSE r.last_device)

RudderInit ==
    UpdateMinMax([angle |-> 0, source |-> "none", valid |-> FALSE, raw |-> 0, raw_valid |-> FALSE,
                  last_device |-> NoDevice, offset |-> 0, range |-> 45, min_raw |-> 0, max_raw |-> 0])

Init ==
    /\ wire = <<>> /\ kept = <<>> /\ sample = NoSample
    /\ servo = [voltage |-> Unset, current |-> Unset, flags |-> Unset, engaged |-> FALSE]
    /\ ap_enabled = FALSE
    /\ rudder = RudderInit
    /\ heading = Unset /\ wind = Unset /\ apb = Unset
    /\ said = [ch \in Channels |-> {}] /\ last = [ch \in Channels |-> Unset]
    /\ slipped = FALSE
    /\ inputs = 0 /\ faults = 0

-----------------------------------------------------------------------------
(* The driver and the line to the pilot.                                   *)

(* Everything the driver may send, and what the line may make of it.       *)
PacketFor(t) == Encode(CodeOf[t[1]], t[2])

Intact == {[of |-> t, bytes |-> PacketFor(t)] : t \in Telemetry}

Spoiled == UNION {{[of |-> p.of, bytes |-> CrossedWith(p.bytes, burst)] : burst \in Bursts} :
                    p \in Intact}

DriverSays(p) ==
    /\ Input
    /\ wire' = wire \o p.bytes
    /\ said' = [said EXCEPT ![p.of[1]] = @ \cup {p.of[2]}]
    /\ UNCHANGED <<slipped, servoVars, rudder, nmea>>

Send ==
    \E p \in Intact :
      /\ DriverSays(p)
      /\ last' = [last EXCEPT ![p.of[1]] = p.of[2]]
      /\ UNCHANGED faults

SendDamaged ==
    /\ \E p \in Spoiled : DriverSays(p)
    /\ Fault
    /\ UNCHANGED last

Slip ==
    /\ Fault
    /\ slipped' = TRUE
    /\ \/ \E i \in DOMAIN wire : wire' = RemoveAt(wire, i)
       \/ \E i \in 1..(Len(wire) + 1) : \E b \in StrayBytes : wire' = InsertAt(wire, i, b)
    /\ UNCHANGED <<said, last, servoVars, rudder, nmea, inputs>>

(* feed_driver_bytes, and apply_driver_sample for the channels it saw.     *)
ApplyRudderNoDevice(r, fed) ==
    IF "rudder" \in fed.mask
    THEN [r EXCEPT !.raw = fed.sample["rudder"], !.raw_valid = TRUE] ELSE r

ApplyRudder(r, fed) ==
    IF "rudder" \in fed.mask
    THEN [r EXCEPT !.raw = fed.sample["rudder"], !.raw_valid = TRUE, !.last_device = "servo"] ELSE r

ApplyServo(s, fed) ==
    LET shown(ch) == IF ch \in fed.mask THEN fed.sample[ch] ELSE s[ch]
    IN  [voltage |-> shown("voltage"), current |-> shown("current"), flags |-> shown("flags"),
         engaged |-> IF "flags" \in fed.mask THEN SaysEngaged(fed.sample["flags"]) ELSE s.engaged]

FeedDriverBytes ==
    \E n \in 1..Len(wire) :
      LET fed == Feed(kept, SubSeq(wire, 1, n), sample)
      IN  /\ wire' = SubSeq(wire, n + 1, Len(wire))
          /\ kept' = fed.kept
          /\ sample' = fed.sample
          /\ servo' = ApplyServo(servo, fed)
          /\ rudder' = ApplyRudder(rudder, fed)
          /\ UNCHANGED <<said, last, slipped, ap_enabled, nmea, inputs, faults>>

-----------------------------------------------------------------------------
(* The control loop's part, the clients', and that of the application that *)
(* owns the registry.                                                      *)

SetAutopilotEnabledSticky(e) ==
    /\ ap_enabled' = e
    /\ servo' = [servo EXCEPT !.engaged = @ \/ e]
    /\ UNCHANGED <<link, kept, sample, rudder, nmea, inputs, faults>>

SetAutopilotEnabled(e) ==
    /\ ap_enabled' = e
    /\ servo' = [servo EXCEPT !.engaged = e]
    /\ UNCHANGED <<link, kept, sample, rudder, nmea, inputs, faults>>

ServoPoll ==
    /\ servo' = IF ap_enabled THEN servo ELSE [servo EXCEPT !.engaged = FALSE]
    /\ UNCHANGED <<link, kept, sample, ap_enabled, rudder, nmea, inputs, faults>>

RudderPoll ==
    /\ rudder' = Poll(rudder)
    /\ UNCHANGED <<link, servoVars, nmea, inputs, faults>>

UpdateRudder ==
    /\ Input
    /\ \E raw \in RawSamples \cup {NaN} : \E d \in Devices : rudder' = Update(rudder, raw, d)
    /\ UNCHANGED <<link, servoVars, nmea, faults>>

Calibrate ==
    /\ Input
    /\ \/ \E o \in Offsets : rudder' = [rudder EXCEPT !.offset = o]
       \/ \E g \in Ranges : rudder' = [rudder EXCEPT !.range = g]
    /\ UNCHANGED <<link, servoVars, nmea, faults>>

(* set_real of rudder.angle.  The field is not writable for clients; the   *)
(* call leaves the source and the sample as they are.                      *)
AssignAngle ==
    /\ Input
    /\ \E a \in Angles : rudder' = [rudder EXCEPT !.angle = a, !.valid = TRUE]
    /\ UNCHANGED <<link, servoVars, nmea, faults>>

-----------------------------------------------------------------------------
(* NMEA sentences.                                                         *)

Damaged(s) == {[s EXCEPT ![i] = c] : i \in DOMAIN s, c \in DamageChars} \ {s}

(* What apply_sentence would write, field by field; Unset where nothing.   *)
Meaning(l) ==
    LET p == ParseLine(l)
        Is(types, n) == p.ok /\ p.type \in types /\ Len(p.fields) >= n
        field(k) == ParseReal(p.fields[k])
    IN  [heading |-> IF Is({<<"H", "D", "T">>, <<"H", "D", "M">>}, 1) /\ field(1).ok
                     THEN field(1).value ELSE Unset,
         wind |-> IF Is({<<"M", "W", "V">>}, 4) /\ field(1).ok /\ field(3).ok
                  THEN <<field(1).value, field(3).value>> ELSE Unset,
         rudder |-> IF Is({<<"R", "S", "A">>}, 1) /\ field(1).ok THEN -field(1).value ELSE Unset,
         apb |-> IF Is({<<"A", "P", "B">>}, 0) THEN p.talker ELSE Unset]

Hearings ==  \* what was sent, and what came; cut by a star in front of its own
    UNION {{[sent |-> Meaning(s), came |-> Meaning(l), intact |-> l = s,
             cut |-> \E i \in DOMAIN l : l[i] = "*" /\ i < StarOf(s),
             checksum_ok |-> ParseLine(l).checksum_ok] : l \in Damaged(s) \cup {s}} :
             s \in Sentences}

Or(new, old) == IF new = Unset THEN old ELSE new

ApplySentence(m) ==
    /\ heading' = Or(m.heading, heading)
    /\ wind' = Or(m.wind, wind)
    /\ apb' = Or(m.apb, apb)
    /\ rudder' = IF m.rudder = Unset THEN rudder
                 ELSE [rudder EXCEPT !.angle = m.rudder, !.source = "serial", !.valid = TRUE]

FeedLine(m) ==
    /\ Input
    /\ ApplySentence(m)
    /\ UNCHANGED <<link, servoVars>>

Hear ==
    \E h \in Hearings :
      /\ FeedLine(h.came)
      /\ IF h.intact THEN UNCHANGED faults ELSE Fault

Next ==
    \/ Send \/ SendDamaged \/ Slip
    \/ FeedDriverBytes
    \/ \E e \in BOOLEAN : SetAutopilotEnabled(e)
    \/ ServoPoll
    \/ RudderPoll \/ UpdateRudder \/ Calibrate \/ AssignAngle
    \/ Hear

Spec == Init /\ [][Next]_vars

-----------------------------------------------------------------------------
(***************************************************************************)
(* Properties                                                              *)
(***************************************************************************)

(* Every variable keeps its type, the rudder's limits their order and the  *)
(* parser less than a packet.                                              *)
TypeOK ==
    /\ wire \in Seq(Byte)
    /\ kept \in Seq(Byte) /\ Len(kept) < 4
    /\ DOMAIN sample = Channels
    /\ servo.engaged \in BOOLEAN /\ ap_enabled \in BOOLEAN
    /\ rudder.valid \in BOOLEAN /\ rudder.raw_valid \in BOOLEAN
    /\ rudder.last_device \in Devices \cup {"servo", NoDevice}
    /\ -50 <= rudder.min_raw /\ rudder.min_raw <= rudder.max_raw /\ rudder.max_raw <= 50

(* However the bytes are cut into feeds, and whatever damage hits packets  *)
(* on the way, what is shown once all bytes are in is what the driver last *)
(* said intact, channel by channel - unless a byte was lost or added.      *)
ShownIsLastSaid ==
    wire = <<>> /\ ~slipped
      => /\ sample = last
         /\ \A ch \in {"voltage", "current", "flags"} : servo[ch] = last[ch]

(* Four bytes that the parser takes for a packet once a byte was lost, the *)
(* i-th of packet q before packet p, or a byte b was added in front of the *)
(* i-th of p; behind that place they begin with the end of one packet.     *)
Losing(q, p, i) == [j \in 1..4 |-> IF j < i THEN q[j] ELSE IF j < 4 THEN q[j + 1] ELSE p[1]]

Gaining(p, b, i) == [j \in 1..4 |-> IF j < i THEN p[j] ELSE IF j = i THEN b ELSE p[j - 1]]

OutOfStep(q, p) ==
    {Losing(q, p, i) : i \in 1..4} \cup {Gaining(p, q[4], 1)}
    \cup {Gaining(p, b, i) : b \in StrayBytes, i \in 1..4}

(* Of those that two of the packets sent can give, some bear a telemetry   *)
(* code and happen to have a right checksum, which is one byte: what they  *)
(* say about a channel.                                                    *)
SentOf(spoken) == {PacketFor(t) : t \in {u \in Telemetry : u[2] \in spoken[u[1]]}}

Chance(ch, spoken) ==
    {PacketOf(w).value :
       w \in {v \in UNION {OutOfStep(q, p) : q \in SentOf(spoken), p \in SentOf(spoken)} :
                Crc8(v) = v[4] /\ v[1] = CodeOf[ch]}}

(* No damaged packet is taken for something the driver did not say, and    *)
(* no four bytes out of step after a lost or added byte, except where two  *)
(* packets that were sent give four with the right checksum by chance; and *)
(* then it is what those four say.  (On a line with one fault: after more, *)
(* bytes may be out of step and damaged besides.)                          *)
NothingForged ==
    \A ch \in Channels :
      \/ sample[ch] \in said[ch] \cup {Unset}
      \/ slipped /\ sample[ch] \in Chance(ch, said)

(* The servo is shown engaged only while the switch is on or on the word   *)
(* of the driver's last flags.                                             *)
EngagedIsExplained == servo.engaged => ap_enabled \/ SaysEngaged(servo.flags)

(* An angle that Rudder computed does not outlive the sample it is of: an  *)
(* angle shown as the servo's without a sample comes about only where the  *)
(* application assigns one.                                                *)
Orphan(r) == r.valid /\ r.source = "servo" /\ ~r.raw_valid

ServoAngleHasASample == [][Orphan(rudder') => Orphan(rudder) \/ AssignAngle]_vars

(* A poll never mistakes the sample that is there for one of another       *)
(* device and drops it: it shows its angle, under the offset of now,       *)
(* whoever wrote raw, last_device and the angle since.                     *)
PollKeepsTheSample ==
    [][RudderPoll /\ rudder.raw_valid
         => /\ rudder'.valid /\ rudder'.raw_valid
            /\ rudder'.angle = AngleOf(rudder.raw, rudder.offset)]_vars

(* A sentence as conforming devices send it.                               *)
Conforming(s) ==
    /\ s \in Seq(Alphabet) /\ Len(s) > 3 /\ s[1] = "$"
    /\ \A i \in DOMAIN s : s[i] = "*" <=> i = Len(s) - 2
    /\ ChecksumOk(s)

(* A line that is applied although a character of it was damaged, and      *)
(* whose checksum_ok is set, does what the sentence that was sent would    *)
(* have done, unless the damage made a star of a character of the body:    *)
(* then the checksum is looked for behind that star, and a beginning of    *)
(* the sentence may pass.  (Nothing in the code reads checksum_ok; this is *)
(* what a reader of it could rely on.)                                     *)
Trusted ==
    {h \in Hearings : ~h.intact /\ h.checksum_ok /\ \E k \in DOMAIN h.came : h.came[k] # Unset}

GoodChecksumIsGenuine ==
    [][\A h \in Trusted : FeedLine(h.came) => ApplySentence(h.sent) \/ h.cut]_vars
=============================================================================
