-------------------------- MODULE AutopilotProofs --------------------------
(* Type correctness and the safety properties of the control loop, for     *)
(* every set of headings and commands.                                     *)
EXTENDS Autopilot, TLAPS

(* resolv lands in [-180, 180) and on the same bearing.                    *)
LEMMA ResolvRange ==
    ASSUME NEW a \in Int
    PROVE  Resolv(a) \in -180..179 /\ (Resolv(a) - a) % 360 = 0
BY DEF Resolv

LEMMA ClampRange ==
    ASSUME NEW c \in Int
    PROVE  Clamp(c) \in -Full..Full
BY DEF Clamp, Full

(* The loop's fields have their types in every reachable state.            *)
THEOREM TypeCorrect == Spec => []TypeOK
<1>1. Init => TypeOK
  <2>1. Command(0) \in Packets
    BY DEF Command, Packets, Clamp, Full
  <2>2. 0 \in -Full..Full /\ 0 \in -180..179
    BY DEF Full
  <2>3. QED
    BY <2>1, <2>2, Zenon DEF Init, TypeOK
<1>2. TypeOK /\ [Next]_vars => TypeOK'
  <2> SUFFICES ASSUME TypeOK, [Next]_vars PROVE TypeOK'
    OBVIOUS
  <2> USE InputsAreDegrees DEF TypeOK
  <2>1. CASE Iteration
    <3>1. headingError' \in -180..179 /\ heading' = imuHeading
      BY <2>1, ResolvRange DEF Iteration, Steer
    <3>2. /\ apCommand' \in -Full..Full
          /\ servoCommand' \in ServoCommands \cup -Full..Full
      BY <2>1, <3>1, ClampRange DEF Iteration, Steer, Full
    <3>3. ASSUME NEW on \in BOOLEAN, NEW c \in Int, ServoPoll(on, c)
          PROVE  rawCommand' \in -Full..Full /\ packet' \in Packets
      BY <3>3, ClampRange DEF ServoPoll, Command, Packets, Full
    <3>4. rawCommand' \in -Full..Full /\ packet' \in Packets
      <4>1. servoCommand \in Int /\ servoCommand' \in Int
        BY <3>2 DEF Full
      <4>2. \E on \in BOOLEAN, c \in Int : ServoPoll(on, c)
        BY <2>1, <4>1 DEF Iteration, DriveServo
      <4>3. QED
        BY <4>2, <3>3
    <3>5. QED
      BY <2>1, <3>1, <3>2, <3>4 DEF Iteration, DriveServo
  <2>2. ASSUME NEW on \in BOOLEAN, SetEnabled(on) PROVE TypeOK'
    BY <2>2 DEF SetEnabled
  <2>3. ASSUME NEW c \in HeadingCommands, SetHeadingCommand(c) PROVE TypeOK'
    BY <2>3 DEF SetHeadingCommand
  <2>4. ASSUME NEW c \in ServoCommands, SetServoCommand(c) PROVE TypeOK'
    BY <2>4 DEF SetServoCommand
  <2>5. ASSUME NEW h \in Headings, NmeaHeading(h) PROVE TypeOK'
    BY <2>5 DEF NmeaHeading
  <2>6. ASSUME NEW on \in BOOLEAN, ApplyDriverFlags(on) PROVE TypeOK'
    BY <2>6 DEF ApplyDriverFlags
  <2>7. ASSUME NEW on \in BOOLEAN, SetTack(on) PROVE TypeOK'
    BY <2>7 DEF SetTack
  <2>8. CASE UNCHANGED vars
    BY <2>8 DEF vars
  <2>9. QED
    BY <2>1, <2>2, <2>3, <2>4, <2>5, <2>6, <2>7, <2>8 DEF Next
<1>3. QED
  BY <1>1, <1>2, PTL DEF Spec

(* Everything but an iteration leaves the driver, what is shown of its     *)
(* command, and the servo's copy of the switch alone.                      *)
LEMMA OnlyIterationsDrive ==
    ASSUME [Next]_vars, ~Iteration
    PROVE  UNCHANGED <<packet, rawCommand, servoApEnabled, sawOn>>
BY DEF Next, vars, SetEnabled, SetHeadingCommand, SetServoCommand, NmeaHeading,
   ApplyDriverFlags, SetTack

(* Servo::ap_enabled_ is the switch as the last iteration saw it.  Of      *)
(* servo.engaged this is not so: telemetry overwrites it.                  *)
CopyIsWhatWasSeen == servoApEnabled = sawOn

LEMMA CopyIsAlwaysWhatWasSeen == Spec => []CopyIsWhatWasSeen
<1>1. Init => CopyIsWhatWasSeen
  BY DEF Init, CopyIsWhatWasSeen
<1>2. ASSUME CopyIsWhatWasSeen, [Next]_vars PROVE CopyIsWhatWasSeen'
  <2>1. CASE Iteration
    BY <2>1, Zenon DEF CopyIsWhatWasSeen, Iteration, DriveServo
  <2>2. CASE UNCHANGED <<servoApEnabled, sawOn>>
    BY <1>2, <2>2, Zenon DEF CopyIsWhatWasSeen
  <2>3. QED
    BY <1>2, <2>1, <2>2, OnlyIterationsDrive
<1>3. QED
  BY <1>1, <1>2, PTL DEF Spec

(* While the driver is not released, its last packet is the command shown  *)
(* as servo.raw_command, and it is not released before an iteration has    *)
(* seen the switch off.                                                    *)
THEOREM ShownIsAlwaysSent == Spec => []ShownIsSent
<1>1. Init => ShownIsSent
  BY DEF Init, ShownIsSent
<1>2. ASSUME TypeOK, TypeOK', ShownIsSent, [Next]_vars
      PROVE  ShownIsSent'
  <2>1. CASE Iteration
    <3>1. ASSUME NEW on \in BOOLEAN, NEW c \in Int, ServoPoll(on, c)
          PROVE  /\ packet' # Disengaged => packet' = Command(rawCommand')
                 /\ on => packet' # Disengaged
      <4>1. Clamp(Clamp(c)) = Clamp(c)
        BY DEF Clamp, Full
      <4>2. Command(c) # Disengaged
        BY DEF Command, Disengaged
      <4>3. QED
        BY <3>1, <4>1, <4>2 DEF ServoPoll, Command
    <3>2. servoCommand \in Int /\ servoCommand' \in Int
      BY <1>2, InputsAreDegrees DEF TypeOK, Full
    <3>3. CASE apEnabled
      <4>1. ServoPoll(TRUE, servoCommand')
        BY <2>1, <3>3 DEF Iteration, DriveServo
      <4>2. QED
        BY <3>1, <3>2, <4>1 DEF ShownIsSent
    <3>4. CASE ~apEnabled
      <4>1. ServoPoll(servoApEnabled, servoCommand) /\ ~sawOn'
        BY <2>1, <3>4 DEF Iteration, DriveServo
      <4>2. servoApEnabled \in BOOLEAN
        BY <1>2, Zenon DEF TypeOK
      <4>3. QED
        BY <3>1, <3>2, <4>1, <4>2 DEF ShownIsSent
    <3>5. QED
      BY <3>3, <3>4
  <2>2. CASE UNCHANGED <<packet, rawCommand, sawOn>>
    BY <1>2, <2>2 DEF ShownIsSent
  <2>3. QED
    BY <1>2, <2>1, <2>2, OnlyIterationsDrive
<1>3. QED
  BY <1>1, <1>2, TypeCorrect, PTL DEF Spec

(* An enabled iteration commands the short turn to the commanded heading.  *)
THEOREM AlwaysSteersShortestWay == Spec => SteersShortestWay
<1>1. ASSUME TypeOK, Iteration, apEnabled, ~tack
      PROVE  \E t \in ShortTurns(imuHeading, headingCommand) : packet' = Command(t)
  <2> DEFINE turn == Resolv(headingCommand - imuHeading)
  <2>1. imuHeading \in Int /\ headingCommand \in Int
    BY <1>1, InputsAreDegrees DEF TypeOK
  <2>2. turn \in -180..179 /\ (turn - (headingCommand - imuHeading)) % 360 = 0
    BY <2>1, ResolvRange
  <2>3. turn \in ShortTurns(imuHeading, headingCommand)
    <3> HIDE DEF turn
    <3>1. turn - (headingCommand - imuHeading) = imuHeading + turn - headingCommand
      BY <2>1, <2>2
    <3>2. QED
      BY <2>2, <3>1 DEF ShortTurns
  <2>4. servoCommand' = Clamp(turn)
    BY <1>1 DEF Iteration, Steer
  <2>5. packet' = Command(servoCommand')
    BY <1>1 DEF Iteration, DriveServo, ServoPoll
  <2>6. Clamp(Clamp(turn)) = Clamp(turn)
    <3> HIDE DEF turn
    <3>1. QED
      BY <2>2 DEF Clamp, Full
  <2>7. packet' = Command(turn)
    BY <2>4, <2>5, <2>6 DEF Command
  <2>8. QED
    BY <2>3, <2>7
<1>2. TypeOK /\ [Next]_vars
        => [Iteration /\ apEnabled /\ ~tack
              => \E t \in ShortTurns(imuHeading, headingCommand) : packet' = Command(t)]_vars
  BY <1>1
<1>3. QED
  BY <1>2, TypeCorrect, PTL DEF Spec, SteersShortestWay

(* Of two iterations in a row that see the switch off the second releases  *)
(* the driver: its poll decides on a copy that the first has cleared.      *)
THEOREM OffAlwaysReleases == Spec => OffIsReleased
<1>1. CopyIsWhatWasSeen /\ [Next]_vars
        => [Iteration /\ ~apEnabled /\ ~sawOn
              => packet' = Disengaged /\ ~engaged']_vars
  BY DEF CopyIsWhatWasSeen, Iteration, DriveServo, ServoPoll
<1>2. QED
  BY <1>1, CopyIsAlwaysWhatWasSeen, PTL DEF Spec, OffIsReleased

-----------------------------------------------------------------------------
(***************************************************************************)
(* The drive follows the switch.                                           *)
(***************************************************************************)

(* Everything an iteration would write is already there.                   *)
Unmoved ==
    /\ heading = imuHeading
    /\ headingError = Resolv(headingCommand - imuHeading)
    /\ ~tack => apCommand = Clamp(headingError) /\ servoCommand = apCommand
    /\ engaged = apEnabled /\ servoApEnabled = apEnabled /\ sawOn = apEnabled
    /\ apEnabled => rawCommand = Clamp(servoCommand) /\ packet = Command(servoCommand)
    /\ ~apEnabled => packet = Disengaged

(* An iteration changes nothing exactly where everything is already there: *)
(* elsewhere every iteration is a step weak fairness speaks of.            *)
LEMMA UnmovedIsStill ==
    ASSUME TypeOK
    PROVE  Iteration => (Unmoved <=> UNCHANGED vars)
<1> SUFFICES ASSUME Iteration PROVE Unmoved <=> UNCHANGED vars
  OBVIOUS
<1>1. ASSUME Unmoved PROVE UNCHANGED vars
  <2>1. /\ heading' = heading /\ headingError' = headingError
        /\ apCommand' = apCommand /\ servoCommand' = servoCommand
    BY <1>1 DEF Unmoved, Iteration, Steer
  <2>2. UNCHANGED <<apEnabled, imuHeading, headingCommand, tack>>
    BY DEF Iteration
  <2>3. UNCHANGED <<engaged, servoApEnabled, rawCommand, packet, sawOn>>
    <3>1. engaged' = engaged /\ servoApEnabled' = servoApEnabled /\ sawOn' = sawOn
      BY <1>1, Zenon DEF Unmoved, Iteration, DriveServo
    <3>2. IF apEnabled THEN ServoPoll(TRUE, servoCommand')
          ELSE ServoPoll(servoApEnabled, servoCommand)
      BY DEF Iteration, DriveServo
    <3>3. CASE apEnabled
      BY <1>1, <2>1, <3>1, <3>2, <3>3 DEF Unmoved, ServoPoll
    <3>4. CASE ~apEnabled
      <4>1. ~servoApEnabled
        BY <1>1, <3>4, Zenon DEF Unmoved
      <4> QED
        BY <1>1, <3>1, <3>2, <3>4, <4>1 DEF Unmoved, ServoPoll
    <3> QED
      BY <3>1, <3>3, <3>4
  <2> QED
    BY <2>1, <2>2, <2>3 DEF vars
<1>2. ASSUME UNCHANGED vars PROVE Unmoved
  <2>1. UNCHANGED <<heading, headingError, apCommand, servoCommand, engaged,
                    servoApEnabled, rawCommand, packet, sawOn>>
    BY <1>2 DEF vars
  <2>2. heading = imuHeading /\ headingError = Resolv(headingCommand - imuHeading)
        /\ (~tack => apCommand = Clamp(headingError) /\ servoCommand = apCommand)
    BY <2>1 DEF Iteration, Steer
  <2>3. engaged = apEnabled /\ servoApEnabled = apEnabled /\ sawOn = apEnabled
    BY <2>1, Zenon DEF Iteration, DriveServo
  <2>4. IF apEnabled THEN ServoPoll(TRUE, servoCommand)
          ELSE ServoPoll(servoApEnabled, servoCommand)
    BY <2>1 DEF Iteration, DriveServo
  <2>5. CASE apEnabled
    BY <2>1, <2>2, <2>3, <2>4, <2>5 DEF Unmoved, ServoPoll
  <2>6. CASE ~apEnabled
    <3>1. ~servoApEnabled
      BY <2>3, <2>6, Zenon
    <3> QED
      BY <2>1, <2>2, <2>3, <2>4, <2>6, <3>1 DEF Unmoved, ServoPoll
  <2> QED
    BY <2>5, <2>6
<1> QED
  BY <1>1, <1>2

(* If the loop comes round again and again, each time either changing      *)
(* something or finding everything there, the drive follows the switch.    *)
(* An iteration that finds the switch on commands the driver and shows it  *)
(* engaged; one that finds it off clears servo.engaged, and the second of  *)
(* two releases the driver, because the servo's copy of the switch is one  *)
(* iteration late.  Telemetry undoes what is shown, never what is sent.    *)
LEMMA DriveFollowsIterations ==
    Spec /\ ([]<>Unmoved \/ []<><<Iteration>>_vars) => DriveFollowsSwitch
<1> DEFINE On == packet.code = "COMMAND"
           Off == ~sawOn /\ packet = Disengaged
<1>1. apEnabled /\ Unmoved => On /\ engaged
  BY DEF Unmoved, Command
<1>2. apEnabled /\ <<Iteration>>_vars => On' /\ engaged'
  BY DEF Iteration, DriveServo, ServoPoll, Command
<1>3. On /\ apEnabled /\ [Next]_vars => On'
  <2> SUFFICES ASSUME On, apEnabled, [Next]_vars PROVE On'
    OBVIOUS
  <2>1. CASE Iteration
    BY <2>1 DEF Iteration, DriveServo, ServoPoll, Command
  <2>2. CASE UNCHANGED packet
    BY <2>2
  <2> QED
    BY <2>1, <2>2, OnlyIterationsDrive
<1>4. ~apEnabled /\ Unmoved => Off /\ ~engaged
  BY DEF Unmoved
<1>5. ~apEnabled /\ <<Iteration>>_vars => ~sawOn' /\ ~engaged'
  BY DEF Iteration, DriveServo
<1>6. CopyIsWhatWasSeen /\ ~sawOn /\ ~apEnabled /\ <<Iteration>>_vars => Off'
  BY DEF CopyIsWhatWasSeen, Iteration, DriveServo, ServoPoll
<1>7. ~sawOn /\ ~apEnabled /\ [Next]_vars => ~sawOn'
  <2> SUFFICES ASSUME ~sawOn, ~apEnabled, [Next]_vars PROVE ~sawOn'
    OBVIOUS
  <2>1. CASE Iteration
    BY <2>1 DEF Iteration
  <2> QED
    BY <2>1, OnlyIterationsDrive
<1>8. CopyIsWhatWasSeen /\ Off /\ ~apEnabled /\ [Next]_vars => Off'
  <2> SUFFICES ASSUME CopyIsWhatWasSeen, Off, ~apEnabled, [Next]_vars PROVE Off'
    OBVIOUS
  <2>1. CASE Iteration
    BY <2>1 DEF CopyIsWhatWasSeen, Iteration, DriveServo, ServoPoll
  <2>2. CASE UNCHANGED <<sawOn, packet>>
    BY <2>2
  <2> QED
    BY <2>1, <2>2, OnlyIterationsDrive
<1>9. Off => packet = Disengaged
  OBVIOUS
<1> HIDE DEF On, Off
<1>10. Spec /\ ([]<>Unmoved \/ []<><<Iteration>>_vars)
         => (<>[]apEnabled => <>[]On /\ []<>engaged)
  BY <1>1, <1>2, <1>3, PTL DEF Spec
<1>11. Spec /\ ([]<>Unmoved \/ []<><<Iteration>>_vars)
         => (<>[]~apEnabled => <>[](packet = Disengaged) /\ []<>~engaged)
  BY <1>4, <1>5, <1>6, <1>7, <1>8, <1>9, CopyIsAlwaysWhatWasSeen, PTL DEF Spec
<1> QED
  BY <1>10, <1>11 DEF DriveFollowsSwitch, On

(* Left on, the switch has the driver commanded for good, and left off,    *)
(* released for good, and what is shown of it is put right again and again.*)
(* Iteration has no guard, so by UnmovedIsStill it is enabled as a changing*)
(* step wherever something is not yet there; that one fact about ENABLED   *)
(* is a hypothesis, because the provers do not expand ENABLED.             *)
THEOREM DriveFollows ==
    FairSpec /\ [](Unmoved \/ ENABLED <<Iteration>>_vars) => DriveFollowsSwitch
<1>1. WF_vars(Iteration) /\ [](Unmoved \/ ENABLED <<Iteration>>_vars)
        => []<>Unmoved \/ []<><<Iteration>>_vars
  BY PTL
<1> QED
  BY <1>1, DriveFollowsIterations, PTL DEF FairSpec
=============================================================================
