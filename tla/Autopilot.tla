----------------------------- MODULE Autopilot -----------------------------
(***************************************************************************)
(* The control loop: Autopilot::iteration and what it runs (BoatIMU::read, *)
(* resolv, BasicPilot::process, Tacking::process, Servo), against the      *)
(* client that flips ap.enabled and writes commands between iterations,    *)
(* the NMEA input that supplies the heading, and the motor driver, whose   *)
(* telemetry overwrites servo.engaged.                                     *)
(*                                                                         *)
(* Angles are whole degrees.  Commands are counted in thirtieths: the      *)
(* pilot divides the heading error by 30 and clamps to [-1, 1], so a       *)
(* command of one unit is one degree of error and the clamp is             *)
(* -Full..Full with Full = 30.                                             *)
(*                                                                         *)
(* An iteration is atomic: everything runs on one thread, and sleep_us     *)
(* runs no callback.                                                       *)
(***************************************************************************)
EXTENDS Integers

CONSTANTS
    Headings,         \* headings an HDT/HDM sentence reports (not range checked)
    HeadingCommands,  \* values a client assigns to ap.heading_command (likewise)
    ServoCommands     \* values a client assigns to servo.command (likewise)

ASSUME InputsAreDegrees ==
    /\ Headings \subseteq Int
    /\ HeadingCommands \subseteq Int
    /\ ServoCommands \subseteq Int

Full == 30  \* a command of 1.0

VARIABLES
    apEnabled,       \* ap.enabled, the switch the client operates
    imuHeading,      \* imu.heading
    heading,         \* ap.heading
    headingCommand,  \* ap.heading_command
    headingError,    \* ap.heading_error
    apCommand,       \* ap.command
    tack,            \* ap.tack.state
    servoCommand,    \* servo.command
    rawCommand,      \* servo.raw_command
    engaged,         \* servo.engaged
    servoApEnabled,  \* Servo::ap_enabled_, the servo's own copy of the switch
    packet,          \* the last packet queued for the motor driver
    sawOn            \* history: the last iteration saw the switch on

vars == <<apEnabled, imuHeading, heading, headingCommand, headingError,
          apCommand, tack, servoCommand, rawCommand, engaged,
          servoApEnabled, packet, sawOn>>

(***************************************************************************)
(* The loops of resolv in closed form: the representative of the angle in  *)
(* [-180, 180).                                                            *)
(***************************************************************************)
ResolvNoWrap(angle) == angle
Resolv(angle) == ((angle + 180) % 360) - 180

Clamp(c) == IF c < -Full THEN -Full ELSE IF c > Full THEN Full ELSE c

Command(c) == [code |-> "COMMAND", value |-> Clamp(c)]
Disengaged == [code |-> "DISENGAGE", value |-> 0]

Packets == [code : {"COMMAND"}, value : -Full..Full] \cup {Disengaged}

-----------------------------------------------------------------------------
(***************************************************************************)
(* Servo::poll, with the value ap_enabled_ and servo.command have when it  *)
(* is called.  disengage also clears servo.engaged; in an iteration        *)
(* set_autopilot_enabled overwrites that, so Iteration gives engaged'.     *)
(***************************************************************************)
ServoPollReversed(on, command) ==
    IF on
    THEN /\ rawCommand' = Clamp(command)
         /\ packet' = Command(-command)
    ELSE /\ packet' = Disengaged
         /\ UNCHANGED rawCommand

ServoPollSticky(on, command) ==
    /\ rawCommand' = Clamp(command)
    /\ packet' = Command(command)

ServoPoll(on, command) ==
    IF on
    THEN /\ rawCommand' = Clamp(command)
         /\ packet' = Command(command)
    ELSE /\ packet' = Disengaged
         /\ UNCHANGED rawCommand

Init ==
    /\ apEnabled = FALSE
    /\ imuHeading = 0
    /\ heading = 0
    /\ headingCommand = 0
    /\ headingError = 0
    /\ apCommand = 0
    /\ tack = FALSE
    /\ servoCommand = 0
    /\ rawCommand = 0
    /\ engaged = FALSE
    /\ servoApEnabled = FALSE
    /\ packet = Command(0)        \* Servo's constructor queues raw_command(0)
    /\ sawOn = FALSE

(***************************************************************************)
(* Autopilot::iteration.  With the switch off the servo is polled first,   *)
(* on the copy of the switch and the command the previous iteration left;  *)
(* with the switch on it is polled last, on this iteration's.              *)
(***************************************************************************)
Steer ==
    /\ heading' = imuHeading
    /\ headingError' = Resolv(headingCommand - heading')
    /\ apCommand' = IF tack THEN apCommand ELSE Clamp(headingError')
    /\ servoCommand' = IF tack THEN servoCommand ELSE apCommand'

DriveServoPollFirst ==
    /\ servoApEnabled' = apEnabled
    /\ engaged' = apEnabled
    /\ ServoPoll(servoApEnabled, servoCommand)

DriveServoPollBeforeSwitch ==
    /\ servoApEnabled' = apEnabled
    /\ engaged' = apEnabled
    /\ ServoPoll(servoApEnabled, servoCommand')

DriveServoForgetsSwitch ==
    /\ servoApEnabled' = (servoApEnabled \/ apEnabled)
    /\ engaged' = apEnabled
    /\ IF apEnabled
       THEN ServoPoll(TRUE, servoCommand')
       ELSE ServoPoll(servoApEnabled, servoCommand)

DriveServo ==
    /\ servoApEnabled' = apEnabled
    /\ engaged' = apEnabled
    /\ IF apEnabled
       THEN ServoPoll(TRUE, servoCommand')
       ELSE ServoPoll(servoApEnabled, servoCommand)

Iteration ==
    /\ Steer
    /\ DriveServo
    /\ sawOn' = apEnabled
    /\ UNCHANGED <<apEnabled, imuHeading, headingCommand, tack>>

-----------------------------------------------------------------------------
(* A client's assignment reaches the state through ValueRegistry.          *)

SetEnabled(on) ==
    /\ apEnabled' = on
    /\ UNCHANGED <<imuHeading, heading, headingCommand, headingError, apCommand,
                   tack, servoCommand, rawCommand, engaged, servoApEnabled, packet,
                   sawOn>>

SetHeadingCommand(c) ==
    /\ headingCommand' = c
    /\ UNCHANGED <<apEnabled, imuHeading, heading, headingError, apCommand,
                   tack, servoCommand, rawCommand, engaged, servoApEnabled, packet,
                   sawOn>>

SetServoCommand(c) ==
    /\ servoCommand' = c
    /\ UNCHANGED <<apEnabled, imuHeading, heading, headingCommand, headingError,
                   apCommand, tack, rawCommand, engaged, servoApEnabled, packet,
                   sawOn>>

(* Nmea::feed_line on an HDT or HDM sentence.                              *)
NmeaHeading(h) ==
    /\ imuHeading' = h
    /\ UNCHANGED <<apEnabled, heading, headingCommand, headingError, apCommand,
                   tack, servoCommand, rawCommand, engaged, servoApEnabled, packet,
                   sawOn>>

(* Servo::apply_driver_sample on a FLAGS packet: the driver's word on      *)
(* whether it is engaged overwrites servo.engaged and nothing else the     *)
(* control loop reads or writes (Instruments has the packets).             *)
ApplyDriverFlags(on) ==
    /\ engaged' = on
    /\ UNCHANGED <<apEnabled, imuHeading, heading, headingCommand, headingError,
                   apCommand, tack, servoCommand, rawCommand, servoApEnabled, packet,
                   sawOn>>

(* The application that owns PypilotState starts or ends a tack: nothing   *)
(* in src/ writes ap.tack.state, iteration only reads it.                  *)
SetTack(on) ==
    /\ tack' = on
    /\ UNCHANGED <<apEnabled, imuHeading, heading, headingCommand, headingError,
                   apCommand, servoCommand, rawCommand, engaged, servoApEnabled, packet,
                   sawOn>>

Next ==
    \/ Iteration
    \/ \E on \in BOOLEAN : SetEnabled(on)
    \/ \E c \in HeadingCommands : SetHeadingCommand(c)
    \/ \E c \in ServoCommands : SetServoCommand(c)
    \/ \E h \in Headings : NmeaHeading(h)
    \/ \E on \in BOOLEAN : ApplyDriverFlags(on)
    \/ \E on \in BOOLEAN : SetTack(on)

(* main calls iteration in a loop, whatever clients and driver do.         *)
Spec == Init /\ [][Next]_vars

FairSpec == Spec /\ WF_vars(Iteration)

-----------------------------------------------------------------------------
(***************************************************************************)
(* Properties                                                              *)
(***************************************************************************)

(* Every field keeps its type; in particular the error lies in             *)
(* [-180, 180) and what reaches the driver in [-1, 1] although neither the *)
(* headings nor the clients' commands are range checked.                   *)
TypeOK ==
    /\ apEnabled \in BOOLEAN
    /\ imuHeading \in Headings \cup {0}
    /\ heading \in Headings \cup {0}
    /\ headingCommand \in HeadingCommands \cup {0}
    /\ headingError \in -180..179
    /\ apCommand \in -Full..Full
    /\ tack \in BOOLEAN
    /\ servoCommand \in ServoCommands \cup -Full..Full
    /\ rawCommand \in -Full..Full
    /\ engaged \in BOOLEAN
    /\ servoApEnabled \in BOOLEAN
    /\ packet \in Packets
    /\ sawOn \in BOOLEAN

(* What clients are shown agrees with what the driver was told: a packet   *)
(* that is not a release carries servo.raw_command, which is what is shown,*)
(* and from an iteration that saw the switch on until one that did not the *)
(* driver is not released, whatever the flags of its telemetry say.  (With *)
(* servo.engaged in place of the switch this fails: a FLAGS packet may set *)
(* it after a release.)                                                    *)
ShownIsSent ==
    /\ packet # Disengaged => packet = Command(rawCommand)
    /\ sawOn => packet # Disengaged

(* With the switch on and no tack, the packet of an iteration turns the    *)
(* boat the short way round from the sensor's heading to the commanded     *)
(* one, with effort in proportion to the turn, whatever a client wrote     *)
(* into servo.command and whatever the previous iteration computed.        *)
ShortTurns(from, to) == {t \in -180..179 : (from + t - to) % 360 = 0}

SteersShortestWay ==
    [][Iteration /\ apEnabled /\ ~tack
         => \E t \in ShortTurns(imuHeading, headingCommand) : packet' = Command(t)]_vars

(* Of two iterations in a row that see the switch off the second releases  *)
(* the driver and shows it released, whatever clients flipped and the      *)
(* driver reported between and before them.                                *)
OffIsReleased ==
    [][Iteration /\ ~apEnabled /\ ~sawOn
         => packet' = Disengaged /\ ~engaged']_vars

(* The drive follows the switch: left on, the driver is eventually         *)
(* commanded and never released again; left off, it is eventually released *)
(* for good.  What is shown of it, servo.engaged, is put right again and   *)
(* again, however often telemetry overwrites it.                           *)
DriveFollowsSwitch ==
    /\ <>[]apEnabled => <>[](packet.code = "COMMAND") /\ []<>engaged
    /\ <>[]~apEnabled => <>[](packet = Disengaged) /\ []<>~engaged

(* ARCHITECTURE.md:3 makes PypilotState the only runtime state store, so a *)
(* servo polled with ap.enabled false in it would not be commanded.  The   *)
(* first iteration after the switch goes off polls on Servo::ap_enabled_,  *)
(* which is still true, and repeats servo.command to the driver.           *)
OffIsNotDriven == [][Iteration /\ ~apEnabled => packet' = Disengaged]_vars
=============================================================================
