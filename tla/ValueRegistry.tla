--------------------------- MODULE ValueRegistry ---------------------------
(***************************************************************************)
(* ValueRegistry: the typed fields of PypilotState under their protocol    *)
(* names, the table of watches clients have asked for, and the lines that  *)
(* report values to the client.                                            *)
(*                                                                         *)
(* Values are told apart by equality only: 0, FALSE and DefaultText stand  *)
(* for what a field holds at start, and two values are different when      *)
(* their four printed decimals are.  Time is counted in microseconds and a *)
(* watch period in half microseconds, so that there is a positive period   *)
(* that period_us truncates to zero.                                       *)
(*                                                                         *)
(* Output is the byte stream to the client.  Of it the model keeps whether *)
(* it stands in the middle of a line, and the last value of each field     *)
(* that arrived in a line of its own.                                      *)
(***************************************************************************)
EXTENDS Integers, Sequences, FiniteSets

CONSTANTS
    Fields,       \* the fields under study, out of AllFields
    MaxWatches,   \* slots of the watch table (64 in the code, for 17 fields)
    Reals,        \* values of a real field
    Texts,        \* values of a string field
    DefaultText,  \* its value at start
    MaxTime,      \* bound: the clock stops here
    None,         \* no line of the field has arrived yet
    Free          \* an inactive slot of the watch table

(* The descriptor table, in FieldId order.                                 *)
AllFields ==
    <<"server.running", "server.port", "ap.enabled", "ap.mode", "ap.pilot",
      "ap.heading", "ap.heading_command", "ap.heading_error", "ap.command",
      "rudder.angle", "rudder.offset", "rudder.range", "servo.command",
      "servo.current", "servo.voltage", "servo.engaged", "servo.fault">>

BooleanFields == {"server.running", "ap.enabled", "servo.engaged", "servo.fault"}
StringFields == {"ap.mode", "ap.pilot"}
WritableFields ==
    {"ap.enabled", "ap.mode", "ap.pilot", "ap.heading_command",
     "rudder.offset", "rudder.range", "servo.command"}

(* Fields the control objects write in PypilotState, past the registry:    *)
(* BoatIMU::read, compute_heading_error, BasicPilot::process, Servo,       *)
(* Rudder and the NMEA sentences.                                          *)
ControlFields ==
    {"ap.heading", "ap.heading_error", "ap.command", "rudder.angle",
     "servo.command", "servo.current", "servo.voltage", "servo.engaged"}

Slots == 1..MaxWatches

Watches == [id : Fields, period : Int, due : Int]

ASSUME FieldsAreKnown == Fields \subseteq {AllFields[i] : i \in 1..Len(AllFields)}
ASSUME EverySlotCounts == MaxWatches \in Nat /\ MaxWatches >= Cardinality(Fields)
ASSUME RealsAreNumbers == Reals \subseteq Int /\ 0 \in Reals
ASSUME TextIsText == DefaultText \in Texts
ASSUME ClockIsBounded == MaxTime \in Nat
ASSUME FreeIsNoWatch == Free \notin Watches \cup [period : Int, due : Int]

VARIABLES
    value,       \* the field of PypilotState behind each name
    angleValid,  \* rudder.angle.valid: the only field that may be unreadable
    watches,     \* watches_: slot -> Free or [id, period, due]
    dirty,       \* dirty_: fields set since the last emit_changed_watches
    now,         \* EventLoop::now_us
    midLine,     \* the stream to the client ends in an unterminated line
    reported     \* history: the last value of each field the client was sent

registryVars == <<value, angleValid, watches, dirty, now, midLine, reported>>

Domain(f) ==
    IF f \in BooleanFields THEN BOOLEAN
    ELSE IF f \in StringFields THEN Texts
    ELSE Reals

Default(f) ==
    IF f \in BooleanFields THEN f = "server.running"
    ELSE IF f \in StringFields THEN DefaultText
    ELSE 0

RegistryInit ==
    /\ value = [f \in Fields |-> Default(f)]
    /\ angleValid = FALSE
    /\ watches = [i \in Slots |-> Free]
    /\ dirty = Fields \cap {"server.running", "server.port"}  \* the server's constructor
    /\ now = 0
    /\ midLine = FALSE
    /\ reported = [f \in Fields |-> None]

-----------------------------------------------------------------------------
(***************************************************************************)
(* Writing lines.  write_value_line writes the name and '=' before it      *)
(* finds the value unreadable, and then stops without the newline, so that *)
(* the next line ends up in the unterminated one and is swallowed.  A      *)
(* batch is a set of lines <<position, field>>.                            *)
(***************************************************************************)
Readable(f) == f = "rudder.angle" => angleValid

Swallowed(batch, line) ==
    \/ midLine /\ \A l \in batch : l[1] >= line[1]
    \/ \E l \in batch :
         /\ ~Readable(l[2]) /\ l[1] < line[1]
         /\ \A k \in batch : k[1] <= l[1] \/ k[1] >= line[1]

Arrives(batch, f) == \E line \in batch :
    line[2] = f /\ Readable(f) /\ ~Swallowed(batch, line)

WriteLines(batch) ==
    /\ reported' = [f \in Fields |-> IF Arrives(batch, f) THEN value[f] ELSE reported[f]]
    /\ midLine' = IF batch = {} THEN midLine
                  ELSE \E line \in batch :
                         ~Readable(line[2]) /\ \A l \in batch : l[1] <= line[1]

(* A line that is not a value: error=... or values=...                     *)
WriteReply == midLine' = FALSE /\ UNCHANGED reported

-----------------------------------------------------------------------------
(* set_real, set_bool and set_string: the field, its valid flag, its mark. *)
SetFieldMarksNext(f, v) ==
    /\ value' = [value EXCEPT ![f] = v]
    /\ angleValid' = (angleValid \/ f = "rudder.angle")
    /\ dirty' = dirty \cup {AllFields[k + 1] : k \in {n \in 1..(Len(AllFields) - 1) : AllFields[n] = f}}
    /\ UNCHANGED <<watches, now, midLine, reported>>

SetFieldQuietly(f, v) ==
    /\ value' = [value EXCEPT ![f] = v]
    /\ angleValid' = (angleValid \/ f = "rudder.angle")
    /\ dirty' = IF value[f] = v THEN dirty \ {f} ELSE dirty \cup {f}
    /\ UNCHANGED <<watches, now, midLine, reported>>

SetField(f, v) ==
    /\ value' = [value EXCEPT ![f] = v]
    /\ angleValid' = (angleValid \/ f = "rudder.angle")
    /\ dirty' = dirty \cup {f}
    /\ UNCHANGED <<watches, now, midLine, reported>>

-----------------------------------------------------------------------------
(* The watch table.                                                        *)

PeriodUs(p) == IF p <= 0 THEN 0 ELSE p \div 2

SlotsOf(f) == {i \in Slots : watches[i] # Free /\ watches[i].id = f}
FreeSlots == {i \in Slots : watches[i] = Free}
IsFirst(i, S) == i \in S /\ \A j \in S : i <= j

(* The slot watch writes: the field's own, or else the first free one.     *)
IsTargetAnyFree(i, f) == IsFirst(i, FreeSlots \cup SlotsOf(f))
IsTarget(i, f) ==
    IF SlotsOf(f) # {} THEN IsFirst(i, SlotsOf(f)) ELSE IsFirst(i, FreeSlots)

(* watch: the current value goes out first, then the slot is written.  A   *)
(* full table leaves the table alone (and the caller answers an error).    *)
WatchNoInitialLine(f, p) ==
    /\ watches' = [i \in Slots |->
                     IF IsTarget(i, f)
                     THEN [id |-> f, period |-> p, due |-> now + PeriodUs(p)]
                     ELSE watches[i]]
    /\ UNCHANGED <<value, angleValid, dirty, now, midLine, reported>>

WatchKeepsDeadline(f, p) ==
    /\ WriteLines({<<1, f>>})
    /\ watches' = [i \in Slots |->
                     IF ~IsTarget(i, f) THEN watches[i]
                     ELSE IF watches[i] # Free THEN [watches[i] EXCEPT !.period = p]
                     ELSE [id |-> f, period |-> p, due |-> now + PeriodUs(p)]]
    /\ UNCHANGED <<value, angleValid, dirty, now>>

Watch(f, p) ==
    /\ WriteLines({<<1, f>>})
    /\ watches' = [i \in Slots |->
                     IF IsTarget(i, f)
                     THEN [id |-> f, period |-> p, due |-> now + PeriodUs(p)]
                     ELSE watches[i]]
    /\ UNCHANGED <<value, angleValid, dirty, now>>

WatchRefused(f) == SlotsOf(f) = {} /\ FreeSlots = {}

Unwatch(f) ==
    /\ watches' = [i \in Slots |-> IF i \in SlotsOf(f) THEN Free ELSE watches[i]]
    /\ UNCHANGED <<value, angleValid, dirty, now, midLine, reported>>

-----------------------------------------------------------------------------
(***************************************************************************)
(* emit_changed_watches followed by emit_due_watches, as the server's poll *)
(* calls them: changed fields in FieldId order, then due watches in slot   *)
(* order.                                                                  *)
(***************************************************************************)
Immediate(f) == \E i \in SlotsOf(f) : watches[i].period = 0

DueSlots == {i \in Slots : /\ watches[i] # Free
                           /\ watches[i].period > 0
                           /\ now >= watches[i].due}

ChangedLines ==
    {<<n, AllFields[n]>> : n \in {k \in 1..Len(AllFields) :
                                    AllFields[k] \in dirty /\ Immediate(AllFields[k])}}

DueLines == {<<Len(AllFields) + i, watches[i].id>> : i \in DueSlots}

(* The do-while that advances next_due_us until it lies ahead; a period    *)
(* truncated to zero leaves it where it is.                                *)
NextDueOnce(w) == w.due + PeriodUs(w.period)
NextDueFromNow(w) == now + PeriodUs(w.period)
NextDue(w) ==
    LET step == PeriodUs(w.period)
    IN  IF step = 0 THEN w.due ELSE w.due + step * ((now - w.due) \div step + 1)

EmitWatches ==
    /\ WriteLines(ChangedLines \cup DueLines)
    /\ dirty' = {}
    /\ watches' = [i \in Slots |->
                     IF i \in DueSlots
                     THEN [watches[i] EXCEPT !.due = NextDue(watches[i])]
                     ELSE watches[i]]
    /\ UNCHANGED <<value, angleValid, now>>

-----------------------------------------------------------------------------
(* The control objects, writing PypilotState directly.                     *)
ControlWrite(f, v) ==
    /\ value' = [value EXCEPT ![f] = v]
    /\ angleValid' = (angleValid \/ f = "rudder.angle")
    /\ UNCHANGED <<watches, dirty, now, midLine, reported>>

(* Rudder::reset                                                           *)
RudderReset ==
    /\ angleValid' = FALSE
    /\ UNCHANGED <<value, watches, dirty, now, midLine, reported>>

Tick ==
    /\ now < MaxTime
    /\ now' = now + 1
    /\ UNCHANGED <<value, angleValid, watches, dirty, midLine, reported>>
=============================================================================
