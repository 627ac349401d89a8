------------------------ MODULE PypilotServerProofs ------------------------
(* The server's properties for every set of fields, every size of the      *)
(* watch table that has a slot per field, and every request.               *)
EXTENDS PypilotServer, FiniteSetTheorems, TLAPS

LEMMA PeriodUsIsNat ==
    ASSUME NEW p \in Int
    PROVE  PeriodUs(p) \in Nat
BY DEF PeriodUs

(* The do-while of emit_due_watches: the next deadline is on the beat,     *)
(* ahead of the clock and at most a period away from it.                   *)
LEMMA NextDueIsAhead ==
    ASSUME NEW w \in Watches, NEW t \in Int, t = now, w.due <= t,
           PeriodUs(w.period) > 0
    PROVE  /\ NextDue(w) \in Int
           /\ t < NextDue(w)
           /\ NextDue(w) <= t + PeriodUs(w.period)
           /\ (NextDue(w) - w.due) % PeriodUs(w.period) = 0
<1> DEFINE step == PeriodUs(w.period)
           beats == (t - w.due) \div step
<1>1. step \in Nat /\ step > 0 /\ w.due \in Int
  BY PeriodUsIsNat DEF Watches
<1>2. NextDue(w) = w.due + step * (beats + 1)
  BY <1>1 DEF NextDue
<1>3. beats \in Int /\ step * beats <= t - w.due /\ t - w.due < step * beats + step
  <2> HIDE DEF step
  <2>1. t - w.due \in Nat
    BY <1>1
  <2>2. QED
    BY <1>1, <2>1, Z3
<1> HIDE DEF beats, step
<1>4. step * (beats + 1) = step * beats + step /\ step * beats \in Int
  BY <1>1, <1>3, Z3
<1>5. (step * (beats + 1)) % step = 0
  BY <1>1, <1>3, Z3
<1>6. QED
  BY <1>1, <1>2, <1>3, <1>4, <1>5 DEF step

-----------------------------------------------------------------------------
LEMMA WriteLinesType ==
    ASSUME NEW batch, WriteLines(batch), midLine \in BOOLEAN
    PROVE  midLine' \in BOOLEAN
BY Zenon DEF WriteLines

(* Every variable keeps its type, whatever is requested and written.       *)
THEOREM TypeCorrect == Spec => []TypeOK
<1>1. Init => TypeOK
  <2> SUFFICES ASSUME Init PROVE TypeOK
    OBVIOUS
  <2>1. \A f \in Fields : Default(f) \in Domain(f)
    BY RealsAreNumbers, TextIsText DEF Default, Domain
  <2>2. DOMAIN value = Fields /\ \A f \in Fields : value[f] \in Domain(f)
    BY <2>1 DEF Init, RegistryInit
  <2>3. now \in 0..MaxTime /\ request \in Seq(Entries)
    BY ClockIsBounded DEF Init, RegistryInit
  <2>4. QED
    BY <2>2, <2>3 DEF Init, RegistryInit, TypeOK
<1>2. ASSUME TypeOK, [Next]_vars PROVE TypeOK'
  <2> USE <1>2 DEF TypeOK
  <2>1. ASSUME NEW f \in Fields, NEW v \in Domain(f), SetField(f, v), UNCHANGED request
        PROVE  TypeOK'
    BY <2>1 DEF SetField, Domain
  <2>2. ASSUME Refuse PROVE TypeOK'
    BY <2>2 DEF Refuse, WriteReply
  <2>3. ASSUME NEW r \in WatchRequests, BeginWatch(r) PROVE TypeOK'
    BY <2>3, RequestsAreEntries DEF BeginWatch, registryVars
  <2>4. ASSUME HandleEntry PROVE TypeOK'
    <3>1. request # <<>> /\ Head(request) \in Entries /\ Tail(request) \in Seq(Entries)
      BY <2>4 DEF HandleEntry, Idle, FailEntry, ListValues, UnwatchEntry, WatchEntry
    <3>2. CASE FailEntry
      <4>1. request' \in Seq(Entries)
        BY <3>2 DEF FailEntry
      <4>2. midLine' = FALSE /\ UNCHANGED <<value, angleValid, watches, dirty, now>>
        BY <3>2 DEF FailEntry
      <4>3. QED
        BY <4>1, <4>2
    <3>3. CASE ListValues
      BY <3>1, <3>3 DEF ListValues, WriteReply
    <3>4. CASE UnwatchEntry
      <4>1. ASSUME NEW f, Unwatch(f) PROVE watches' \in [Slots -> Watches \cup {Free}]
        BY <4>1 DEF Unwatch
      <4>2. \/ UNCHANGED registryVars
            \/ \E f : Unwatch(f)
        BY <3>4 DEF UnwatchEntry
      <4>3. QED
        BY <3>1, <3>4, <4>1, <4>2 DEF UnwatchEntry, Unwatch, registryVars
    <3>5. CASE WatchEntry
      <4> DEFINE e == Head(request)
      <4>1. /\ e.key \in Fields /\ e.period \in Int
            /\ Watch(e.key, e.period) /\ request' = Tail(request)
        BY <3>1, <3>5 DEF WatchEntry, EntryFails, Entries
      <4>2. now + PeriodUs(e.period) \in Int
        <5>1. now \in Int
          BY ClockIsBounded
        <5>2. PeriodUs(e.period) \in Nat
          BY <4>1, PeriodUsIsNat
        <5> HIDE DEF e
        <5>3. QED
          BY <5>1, <5>2
      <4> DEFINE w == [id |-> e.key, period |-> e.period, due |-> now + PeriodUs(e.period)]
      <4>3. watches' \in [Slots -> Watches \cup {Free}]
        <5>1. w \in Watches
          BY <4>1, <4>2 DEF Watches
        <5>2. watches' = [i \in Slots |-> IF IsTarget(i, e.key) THEN w ELSE watches[i]]
          BY <4>1 DEF Watch
        <5> HIDE DEF w
        <5>3. QED
          BY <5>1, <5>2
      <4>4. midLine' \in BOOLEAN
        BY <4>1, WriteLinesType DEF Watch
      <4>5. QED
        BY <3>1, <4>1, <4>3, <4>4 DEF Watch
    <3>6. QED
      BY <2>4, <3>2, <3>3, <3>4, <3>5 DEF HandleEntry
  <2>5. ASSUME Poll PROVE TypeOK'
    <3>1. midLine' \in BOOLEAN
      BY <2>5, WriteLinesType DEF Poll, EmitWatches
    <3>2. ASSUME NEW i \in DueSlots PROVE NextDue(watches[i]) \in Int
      <4>1. watches[i] \in Watches /\ watches[i].due <= now
        BY DEF DueSlots, Watches
      <4>2. CASE PeriodUs(watches[i].period) = 0
        BY <4>1, <4>2 DEF NextDue, Watches
      <4>3. CASE PeriodUs(watches[i].period) > 0
        BY <4>1, <4>3, NextDueIsAhead
      <4>4. PeriodUs(watches[i].period) \in Nat
        BY <4>1, PeriodUsIsNat DEF Watches
      <4>5. QED
        BY <4>2, <4>3, <4>4
    <3>3. watches' \in [Slots -> Watches \cup {Free}]
      <4> SUFFICES ASSUME NEW i \in Slots, i \in DueSlots
                   PROVE  [watches[i] EXCEPT !.due = NextDue(watches[i])] \in Watches
        BY <2>5 DEF Poll, EmitWatches
      <4>1. watches[i] \in Watches /\ NextDue(watches[i]) \in Int
        BY <3>2 DEF DueSlots
      <4>2. QED
        BY <4>1 DEF Watches
    <3>4. QED
      BY <2>5, <3>1, <3>3 DEF Poll, EmitWatches
  <2>6. ASSUME Control PROVE TypeOK'
    <3>1. ASSUME NEW f \in Fields, NEW v \in Domain(f), ControlWrite(f, v), UNCHANGED request
          PROVE  TypeOK'
      BY <3>1 DEF ControlWrite, Domain
    <3>2. ASSUME RudderReset, UNCHANGED request PROVE TypeOK'
      BY <3>2 DEF RudderReset
    <3>3. QED
      BY <2>6, <3>1, <3>2 DEF Control
  <2>7. ASSUME Clock PROVE TypeOK'
    BY <2>7, ClockIsBounded DEF Clock, Tick
  <2>8. CASE UNCHANGED vars
    BY <2>8 DEF vars
  <2>9. QED
    BY <2>1, <2>2, <2>3, <2>4, <2>5, <2>6, <2>7, <2>8 DEF Next, Assign, SetValue
<1>3. QED
  BY <1>1, <1>2, PTL DEF Spec

-----------------------------------------------------------------------------
(* Whatever the step, the watch table changes in one of these ways.        *)
TableStep ==
    \/ UNCHANGED <<watches, now>>
    \/ \E f \in Fields, p \in Int :
         Watch(f, p) /\ request # <<>> /\ p = Head(request).period
    \/ \E f \in Fields : Unwatch(f)
    \/ EmitWatches
    \/ Tick

LEMMA StepsOfTheTable ==
    ASSUME TypeOK, [Next]_vars
    PROVE  TableStep
<1>1. CASE HandleEntry
  <2>1. request # <<>> /\ Head(request) \in Entries
    BY <1>1 DEF TypeOK, HandleEntry, Idle, FailEntry, ListValues, UnwatchEntry, WatchEntry
  <2>2. CASE FailEntry \/ ListValues
    BY <2>2 DEF TableStep, FailEntry, ListValues
  <2>3. CASE UnwatchEntry
    BY <2>1, <2>3 DEF TableStep, UnwatchEntry, Entries, registryVars
  <2>4. CASE WatchEntry
    BY <2>1, <2>4 DEF TableStep, WatchEntry, EntryFails, Entries
  <2>5. QED
    BY <1>1, <2>2, <2>3, <2>4 DEF HandleEntry
<1>2. CASE ~HandleEntry
  BY <1>2 DEF Next, vars, TableStep, Assign, SetValue, SetField, Refuse, BeginWatch,
     registryVars, Poll, Control, ControlWrite, RudderReset, Clock
<1>3. QED
  BY <1>1, <1>2

(* The slot watch writes belongs to the field or is free, and it is the    *)
(* field's own whenever there is one.                                      *)
LEMMA TargetIsOwn ==
    ASSUME OneSlotPerField, NEW f, NEW i \in Slots, IsTarget(i, f),
           NEW j \in Slots, watches[j] # Free, watches[j].id = f
    PROVE  i = j
BY DEF OneSlotPerField, IsTarget, IsFirst, SlotsOf

LEMMA OneSlotStep ==
    ASSUME TypeOK, OneSlotPerField, [Next]_vars
    PROVE  OneSlotPerField'
<1> SUFFICES ASSUME NEW i \in Slots, NEW j \in Slots,
                    watches'[i] # Free, watches'[j] # Free,
                    watches'[i].id = watches'[j].id
             PROVE  i = j
  BY DEF OneSlotPerField
<1>1. TableStep
  BY StepsOfTheTable
<1>2. CASE UNCHANGED <<watches, now>>
  BY <1>2 DEF OneSlotPerField
<1>3. ASSUME NEW f \in Fields, NEW p \in Int, Watch(f, p) PROVE i = j
  <2>1. \A k \in Slots : IF IsTarget(k, f) THEN watches'[k].id = f
                         ELSE watches'[k] = watches[k]
    BY <1>3 DEF Watch
  <2>2. CASE IsTarget(i, f) /\ IsTarget(j, f)
    BY <2>2 DEF IsTarget, IsFirst, Slots, SlotsOf, FreeSlots
  <2>3. CASE IsTarget(i, f) /\ ~IsTarget(j, f)
    BY <2>1, <2>3, TargetIsOwn
  <2>4. CASE ~IsTarget(i, f) /\ IsTarget(j, f)
    BY <2>1, <2>4, TargetIsOwn
  <2>5. CASE ~IsTarget(i, f) /\ ~IsTarget(j, f)
    BY <2>1, <2>5 DEF OneSlotPerField
  <2>6. QED
    BY <2>2, <2>3, <2>4, <2>5
<1>4. ASSUME NEW f \in Fields, Unwatch(f) PROVE i = j
  BY <1>4 DEF Unwatch, OneSlotPerField
<1>5. CASE EmitWatches
  <2>1. \A k \in Slots : watches'[k] # Free
                           => watches[k] # Free /\ watches'[k].id = watches[k].id
    <3> SUFFICES ASSUME NEW k \in Slots, watches'[k] # Free
                 PROVE  watches[k] # Free /\ watches'[k].id = watches[k].id
      OBVIOUS
    <3>1. CASE k \in DueSlots
      <4>1. watches[k] \in Watches /\ watches[k] # Free
        BY <3>1 DEF TypeOK, DueSlots
      <4>2. watches'[k] = [watches[k] EXCEPT !.due = NextDue(watches[k])]
        BY <1>5, <3>1 DEF EmitWatches
      <4>3. QED
        BY <4>1, <4>2 DEF Watches
    <3>2. CASE k \notin DueSlots
      BY <1>5, <3>2 DEF EmitWatches
    <3>3. QED
      BY <3>1, <3>2
  <2>2. QED
    BY <2>1 DEF OneSlotPerField
<1>6. CASE Tick
  BY <1>6 DEF Tick, OneSlotPerField
<1>7. QED
  BY <1>1, <1>2, <1>3, <1>4, <1>5, <1>6 DEF TableStep

(* No field ever has two active slots.                                     *)
THEOREM AlwaysOneSlotPerField == Spec => []OneSlotPerField
<1>1. Init => OneSlotPerField
  BY DEF Init, RegistryInit, OneSlotPerField
<1>2. TypeOK /\ OneSlotPerField /\ [Next]_vars => OneSlotPerField'
  BY OneSlotStep
<1>3. QED
  BY <1>1, <1>2, TypeCorrect, PTL DEF Spec

-----------------------------------------------------------------------------
LEMMA FieldsAreFinite == IsFiniteSet(Fields)
<1> DEFINE Names == {AllFields[i] : i \in 1..Len(AllFields)}
           name == [i \in 1..Len(AllFields) |-> AllFields[i]]
<1>1. Len(AllFields) \in Int
  BY DEF AllFields
<1> HIDE DEF name
<1>2. IsFiniteSet(1..Len(AllFields))
  BY <1>1, FS_Interval
<1>3. name \in Surjection(1..Len(AllFields), Names)
  BY DEF Surjection, name
<1>4. IsFiniteSet(Names)
  BY <1>2, <1>3, FS_Surjection
<1>5. QED
  BY <1>4, FieldsAreKnown, FS_Subset

(* With a slot for every field, a table in which no field has two slots    *)
(* has room for any field it does not hold: otherwise MaxWatches slots     *)
(* would be taken by fewer than MaxWatches fields.                         *)
LEMMA RoomForAll ==
    ASSUME TypeOK, OneSlotPerField
    PROVE  WatchNeverRefused
<1> SUFFICES ASSUME NEW f \in Fields, SlotsOf(f) = {}, FreeSlots = {}
             PROVE  FALSE
  BY DEF WatchNeverRefused, WatchRefused
<1> DEFINE others == Fields \ {f}
           holder == [i \in Slots |-> watches[i].id]
<1>1. \A i \in Slots : watches[i] # Free /\ watches[i] \in Watches /\ watches[i].id # f
  BY DEF SlotsOf, FreeSlots, TypeOK
<1>2. holder \in [Slots -> others]
  BY <1>1 DEF Watches
<1>3. IsFiniteSet(others) /\ Cardinality(others) = Cardinality(Fields) - 1
  BY FieldsAreFinite, FS_RemoveElement
<1>4. IsFiniteSet(Slots) /\ Cardinality(Slots) = MaxWatches
  BY EverySlotCounts, FS_Interval DEF Slots
<1>5. Cardinality(Fields) \in Nat
  BY FieldsAreFinite, FS_CardinalityType
<1>6. Cardinality(others) < Cardinality(Slots)
  BY <1>3, <1>4, <1>5, EverySlotCounts
<1> HIDE DEF others, holder
<1>7. \E i, j \in Slots : i # j /\ holder[i] = holder[j]
  BY <1>2, <1>3, <1>4, <1>6, FS_PigeonHole
<1>8. QED
  BY <1>1, <1>7 DEF OneSlotPerField, holder

(* No valid watch is ever refused for want of a slot.                      *)
THEOREM WatchIsNeverRefused == Spec => []WatchNeverRefused
<1>1. TypeOK /\ OneSlotPerField => WatchNeverRefused
  BY RoomForAll
<1>2. QED
  BY <1>1, TypeCorrect, AlwaysOneSlotPerField, PTL

-----------------------------------------------------------------------------
(* Every poll, however late, puts the served watches back on their beat.   *)
THEOREM AlwaysOnTheBeat == Spec => OnTheBeat
<1>1. ASSUME TypeOK, Poll
      PROVE  \A i \in DueSlots :
               LET step == PeriodUs(watches[i].period)
               IN  step > 0 => /\ now < watches'[i].due
                               /\ watches'[i].due <= now + step
                               /\ (watches'[i].due - watches[i].due) % step = 0
  <2> SUFFICES ASSUME NEW i \in DueSlots, PeriodUs(watches[i].period) > 0
               PROVE  /\ now < watches'[i].due
                      /\ watches'[i].due <= now + PeriodUs(watches[i].period)
                      /\ (watches'[i].due - watches[i].due)
                            % PeriodUs(watches[i].period) = 0
    OBVIOUS
  <2>1. watches[i] \in Watches /\ watches[i].due <= now /\ now \in Int /\ i \in Slots
    BY <1>1, ClockIsBounded DEF TypeOK, DueSlots, Watches
  <2>2. watches'[i] = [watches[i] EXCEPT !.due = NextDue(watches[i])]
    BY <1>1, <2>1 DEF Poll, EmitWatches
  <2>3. watches'[i].due = NextDue(watches[i])
    BY <2>1, <2>2 DEF Watches
  <2>4. QED
    BY <2>1, <2>3, NextDueIsAhead
<1>2. TypeOK /\ [Next]_vars
        => [Poll => \A i \in DueSlots :
              LET step == PeriodUs(watches[i].period)
              IN  step > 0 => /\ now < watches'[i].due
                              /\ watches'[i].due <= now + step
                              /\ (watches'[i].due - watches[i].due) % step = 0]_vars
  BY <1>1
<1>3. QED
  BY <1>2, TypeCorrect, PTL DEF Spec, OnTheBeat

-----------------------------------------------------------------------------
(* A batch of lines that are all readable, written at the start of a line, *)
(* arrives whole.                                                          *)
LEMMA ReadableBatchArrives ==
    ASSUME NEW batch, NEW line \in batch, ~midLine,
           \A l \in batch : Readable(l[2])
    PROVE  Arrives(batch, line[2])
BY DEF Arrives, Swallowed

(* What NoLostUpdate rests on: without the one field that can be           *)
(* unreadable, the stream is always at the start of a line.                *)
NothingLost == NoLostUpdate /\ ~midLine

LEMMA WrittenLines ==
    ASSUME NEW batch, WriteLines(batch), ~midLine, "rudder.angle" \notin Fields,
           \A l \in batch : l[2] \in Fields
    PROVE  /\ ~midLine'
           /\ \A l \in batch : reported'[l[2]] = value[l[2]]
           /\ \A f \in Fields : reported'[f] \in {value[f], reported[f]}
<1>1. \A l \in batch : Readable(l[2])
  BY DEF Readable
<1>2. ~midLine'
  BY <1>1, Zenon DEF WriteLines
<1>3. \A f \in Fields : reported'[f] = IF Arrives(batch, f) THEN value[f] ELSE reported[f]
  BY DEF WriteLines
<1>4. \A l \in batch : Arrives(batch, l[2])
  BY <1>1, ReadableBatchArrives
<1>5. QED
  BY <1>2, <1>3, <1>4

LEMMA NothingLostStep ==
    ASSUME "rudder.angle" \notin Fields, TypeOK, NothingLost, [Next]_vars
    PROVE  NothingLost'
<1> USE DEF NothingLost
<1>1. ASSUME NEW g \in Fields, NEW v, SetField(g, v) PROVE NothingLost'
  BY <1>1 DEF SetField, NoLostUpdate, Immediate, SlotsOf, TypeOK
<1>2. ASSUME UNCHANGED <<value, watches, dirty>>, WriteReply PROVE NothingLost'
  BY <1>2 DEF WriteReply, NoLostUpdate, Immediate, SlotsOf
<1>3. ASSUME UNCHANGED <<value, watches, dirty, midLine, reported>> PROVE NothingLost'
  BY <1>3 DEF NoLostUpdate, Immediate, SlotsOf
<1>4. ASSUME NEW g, Unwatch(g) PROVE NothingLost'
  <2>1. \A f \in Fields : Immediate(f)' => Immediate(f)
    BY <1>4 DEF Unwatch, Immediate, SlotsOf
  <2>2. QED
    BY <1>4, <2>1 DEF Unwatch, NoLostUpdate
<1>5. ASSUME NEW g \in Fields, NEW p \in Int, Watch(g, p) PROVE NothingLost'
  <2>1. /\ ~midLine'
        /\ reported'[g] = value[g]
        /\ \A f \in Fields : reported'[f] \in {value[f], reported[f]}
    <3> DEFINE batch == {<<1, g>>}
    <3>1. WriteLines(batch)
      BY <1>5 DEF Watch
    <3>2. <<1, g>> \in batch /\ \A l \in batch : l[2] \in Fields
      OBVIOUS
    <3> HIDE DEF batch
    <3>3. /\ ~midLine'
          /\ \A l \in batch : reported'[l[2]] = value[l[2]]
          /\ \A f \in Fields : reported'[f] \in {value[f], reported[f]}
      BY <3>1, <3>2, WrittenLines
    <3>4. QED
      BY <3>2, <3>3
  <2>2. \A f \in Fields \ {g} : Immediate(f)' => Immediate(f)
    <3>1. \A i \in Slots : watches'[i] = watches[i] \/ watches'[i].id = g
      BY <1>5 DEF Watch
    <3>2. QED
      BY <3>1 DEF Immediate, SlotsOf
  <2>3. QED
    BY <1>5, <2>1, <2>2 DEF Watch, NoLostUpdate
<1>6. ASSUME EmitWatches PROVE NothingLost'
  <2> DEFINE batch == ChangedLines \cup DueLines
  <2>1. \A l \in batch : l[2] \in Fields
    <3>1. \A l \in ChangedLines : l[2] \in Fields
      BY DEF ChangedLines, TypeOK
    <3>2. \A l \in DueLines : l[2] \in Fields
      BY DEF DueLines, DueSlots, TypeOK, Watches
    <3>3. QED
      BY <3>1, <3>2
  <2>2. /\ ~midLine'
        /\ \A l \in batch : reported'[l[2]] = value[l[2]]
        /\ \A f \in Fields : reported'[f] \in {value[f], reported[f]}
    <3>1. WriteLines(batch)
      BY <1>6 DEF EmitWatches
    <3> HIDE DEF batch
    <3>2. QED
      BY <3>1, <2>1, WrittenLines
  <2>3. \A f \in Fields : Immediate(f)' => Immediate(f)
    <3> SUFFICES ASSUME NEW f \in Fields, NEW i \in Slots, watches'[i] # Free,
                        watches'[i].id = f, watches'[i].period = 0
                 PROVE  watches[i] # Free /\ watches[i].id = f /\ watches[i].period = 0
      BY DEF Immediate, SlotsOf
    <3>1. CASE i \in DueSlots
      <4>1. watches[i] \in Watches /\ watches[i] # Free
        BY <3>1 DEF TypeOK, DueSlots
      <4>2. watches'[i] = [watches[i] EXCEPT !.due = NextDue(watches[i])]
        BY <1>6, <3>1 DEF EmitWatches
      <4>3. QED
        BY <4>1, <4>2 DEF Watches
    <3>2. CASE i \notin DueSlots
      BY <1>6, <3>2 DEF EmitWatches
    <3>3. QED
      BY <3>1, <3>2
  <2>4. \A f \in Fields : f \in dirty /\ Immediate(f) => \E l \in batch : l[2] = f
    <3> SUFFICES ASSUME NEW f \in Fields, f \in dirty, Immediate(f)
                 PROVE  \E l \in ChangedLines : l[2] = f
      OBVIOUS
    <3>1. PICK k \in 1..Len(AllFields) : AllFields[k] = f
      BY FieldsAreKnown
    <3>2. <<k, AllFields[k]>> \in ChangedLines
      BY <3>1 DEF ChangedLines
    <3>3. QED
      BY <3>1, <3>2
  <2> HIDE DEF batch
  <2>5. value' = value
    BY <1>6 DEF EmitWatches
  <2>6. QED
    BY <2>2, <2>3, <2>4, <2>5 DEF NoLostUpdate
<1>7. ASSUME NEW g \in ControlFields, NEW v, ControlWrite(g, v) PROVE NothingLost'
  BY <1>7 DEF ControlWrite, NoLostUpdate, Immediate, SlotsOf, TypeOK
<1>8. CASE HandleEntry
  <2>1. request # <<>> /\ Head(request) \in Entries
    BY <1>8 DEF TypeOK, HandleEntry, Idle, FailEntry, ListValues, UnwatchEntry, WatchEntry
  <2>2. CASE FailEntry
    <3>1. \A f \in Fields : reported'[f] \in {value[f], reported[f]}
      BY <2>2 DEF FailEntry
    <3>2. ~midLine' /\ UNCHANGED <<value, watches, dirty>>
      BY <2>2 DEF FailEntry
    <3> QED
      BY <3>1, <3>2 DEF NoLostUpdate, Immediate, SlotsOf
  <2>3. CASE ListValues
    BY <1>2, <1>3, <2>3 DEF ListValues
  <2>4. CASE UnwatchEntry
    BY <1>3, <1>4, <2>4 DEF UnwatchEntry, registryVars
  <2>5. CASE WatchEntry
    BY <1>5, <2>1, <2>5 DEF WatchEntry, EntryFails, Entries
  <2>6. QED
    BY <1>8, <2>2, <2>3, <2>4, <2>5 DEF HandleEntry
<1>9. CASE ~HandleEntry
  <2>1. CASE Refuse
    BY <1>2, <2>1 DEF Refuse
  <2>2. CASE Poll
    BY <1>6, <2>2 DEF Poll
  <2>3. CASE Control
    BY <1>3, <1>7, <2>3 DEF Control, RudderReset
  <2>4. CASE Clock \/ \E r \in WatchRequests : BeginWatch(r)
    BY <1>3, <2>4 DEF Clock, Tick, BeginWatch, registryVars
  <2>5. CASE UNCHANGED vars
    BY <1>3, <2>5 DEF vars
  <2>6. CASE \E f \in Fields : \E v \in Domain(f) : Assign(f, v) \/ SetValue(f, v)
    BY <1>1, <2>6 DEF Assign, SetValue
  <2>7. QED
    BY <1>9, <2>1, <2>2, <2>3, <2>4, <2>5, <2>6 DEF Next
<1>10. QED
  BY <1>8, <1>9

(* Whenever every watched field can be read, no change the registry makes  *)
(* to a field only it writes is lost on a client that watches the field    *)
(* immediately.                                                            *)
THEOREM UpdatesAreNeverLost ==
    ASSUME "rudder.angle" \notin Fields
    PROVE  Spec => []NoLostUpdate
<1>1. Init => NothingLost
  BY DEF Init, RegistryInit, NothingLost, NoLostUpdate, Immediate, SlotsOf
<1>2. TypeOK /\ NothingLost /\ [Next]_vars => NothingLost'
  BY NothingLostStep
<1>3. NothingLost => NoLostUpdate
  BY DEF NothingLost
<1>4. QED
  BY <1>1, <1>2, <1>3, TypeCorrect, PTL DEF Spec
-----------------------------------------------------------------------------
(* What a poll does to one slot: a due watch moves to its next beat, the   *)
(* others stay.                                                            *)
LEMMA PolledSlot ==
    ASSUME TypeOK, EmitWatches, NEW i \in Slots
    PROVE  IF i \in DueSlots
           THEN /\ watches[i] \in Watches
                /\ watches'[i] \in Watches
                /\ watches'[i].id = watches[i].id
                /\ watches'[i].period = watches[i].period
                /\ watches'[i].due = NextDue(watches[i])
           ELSE watches'[i] = watches[i]
<1>1. CASE i \in DueSlots
  <2>1. watches[i] \in Watches /\ watches[i].due <= now /\ now \in Int
    BY <1>1, ClockIsBounded DEF TypeOK, DueSlots
  <2>2. watches'[i] = [watches[i] EXCEPT !.due = NextDue(watches[i])]
    BY <1>1 DEF EmitWatches
  <2>3. PeriodUs(watches[i].period) \in Nat
    BY <2>1, PeriodUsIsNat DEF Watches
  <2>4. NextDue(watches[i]) \in Int
    <3>1. CASE PeriodUs(watches[i].period) = 0
      BY <2>1, <3>1 DEF NextDue, Watches
    <3>2. CASE PeriodUs(watches[i].period) > 0
      BY <2>1, <3>2, NextDueIsAhead
    <3>3. QED
      BY <2>3, <3>1, <3>2
  <2>5. QED
    BY <1>1, <2>1, <2>2, <2>4 DEF Watches
<1>2. CASE i \notin DueSlots
  BY <1>2 DEF EmitWatches
<1>3. QED
  BY <1>1, <1>2

LEMMA DueWindowStep ==
    ASSUME TypeOK, DueWindow, [Next]_vars
    PROVE  DueWindow'
<1> SUFFICES ASSUME NEW i \in Slots, watches'[i] # Free
             PROVE  watches'[i].due <= now' + PeriodUs(watches'[i].period)
  BY DEF DueWindow
<1>1. now \in Int /\ (watches[i] # Free => watches[i] \in Watches)
  BY ClockIsBounded DEF TypeOK
<1>2. watches[i] # Free
        => watches[i].due <= now + PeriodUs(watches[i].period)
  BY DEF DueWindow
<1>3. watches[i] # Free
        => watches[i].due \in Int /\ PeriodUs(watches[i].period) \in Nat
  BY <1>1, PeriodUsIsNat DEF Watches
<1>4. TableStep
  BY StepsOfTheTable
<1>5. CASE watches'[i] = watches[i] /\ now' \in {now, now + 1}
  BY <1>1, <1>2, <1>3, <1>5
<1>6. ASSUME NEW f \in Fields, NEW p \in Int, Watch(f, p), IsTarget(i, f)
      PROVE  watches'[i].due <= now' + PeriodUs(watches'[i].period)
  <2>1. watches'[i].due = now + PeriodUs(p) /\ watches'[i].period = p /\ now' = now
    BY <1>6 DEF Watch
  <2>2. PeriodUs(p) \in Nat
    BY <1>6, PeriodUsIsNat
  <2>3. QED
    BY <1>1, <2>1, <2>2
<1>7. CASE EmitWatches /\ i \in DueSlots
  <2>1. /\ watches[i] \in Watches /\ watches[i].due <= now /\ watches[i] # Free
        /\ watches'[i].period = watches[i].period
        /\ watches'[i].due = NextDue(watches[i])
        /\ now' = now
    BY <1>7, PolledSlot DEF DueSlots, EmitWatches
  <2>2. CASE PeriodUs(watches[i].period) = 0
    BY <1>1, <1>2, <2>1, <2>2 DEF NextDue
  <2>3. CASE PeriodUs(watches[i].period) > 0
    <3>1. NextDue(watches[i]) <= now + PeriodUs(watches[i].period)
      BY <1>1, <2>1, <2>3, NextDueIsAhead
    <3>2. QED
      BY <2>1, <3>1
  <2>4. QED
    BY <1>3, <2>1, <2>2, <2>3
<1>8. \/ watches'[i] = watches[i] /\ now' \in {now, now + 1}
      \/ \E f \in Fields, p \in Int : Watch(f, p) /\ IsTarget(i, f)
      \/ EmitWatches /\ i \in DueSlots
  <2>1. ASSUME NEW f \in Fields, NEW p \in Int, Watch(f, p), ~IsTarget(i, f)
        PROVE  watches'[i] = watches[i] /\ now' = now
    BY <2>1 DEF Watch
  <2>2. ASSUME NEW f \in Fields, Unwatch(f)
        PROVE  watches'[i] = watches[i] /\ now' = now
    BY <2>2 DEF Unwatch
  <2>3. CASE EmitWatches /\ i \notin DueSlots
    BY <2>3 DEF EmitWatches
  <2>4. CASE Tick
    BY <2>4 DEF Tick
  <2>5. QED
    BY <1>4, <2>1, <2>2, <2>3, <2>4 DEF TableStep
<1>9. QED
  BY <1>5, <1>6, <1>7, <1>8

(* No watch is ever scheduled further ahead than its period, whatever      *)
(* periods it had before and however polls and requests interleave.        *)
THEOREM AlwaysWithinAPeriod == Spec => []DueWindow
<1>1. Init => DueWindow
  BY DEF Init, RegistryInit, DueWindow
<1>2. TypeOK /\ DueWindow /\ [Next]_vars => DueWindow'
  BY DueWindowStep
<1>3. QED
  BY <1>1, <1>2, TypeCorrect, PTL DEF Spec
-----------------------------------------------------------------------------
(***************************************************************************)
(* The table of slots implements the book of watches.  A slot written by   *)
(* watch was free or the field's own, so that the entries of other fields  *)
(* stay; what a client can ask for is what is left of a request it sent.   *)
(***************************************************************************)
AsksArePeriods == \A k \in 1..Len(request) : request[k].period \in Periods

LEMMA AsksStep ==
    ASSUME TypeOK, AsksArePeriods, [Next]_vars
    PROVE  AsksArePeriods'
<1>1. CASE UNCHANGED request
  BY <1>1 DEF AsksArePeriods
<1>2. ASSUME NEW r \in WatchRequests, BeginWatch(r) PROVE AsksArePeriods'
  BY <1>2 DEF BeginWatch, AsksArePeriods, Periods
<1>3. CASE HandleEntry
  <2>1. request # <<>> /\ request \in Seq(Entries)
    BY <1>3 DEF TypeOK, HandleEntry, Idle, FailEntry, ListValues, UnwatchEntry, WatchEntry
  <2>2. request' \in {<<>>, Tail(request)}
    BY <1>3 DEF HandleEntry, FailEntry, ListValues, UnwatchEntry, WatchEntry
  <2>3. \A k \in 1..Len(Tail(request)) :
           k + 1 \in 1..Len(request) /\ Tail(request)[k] = request[k + 1]
    BY <2>1
  <2>4. CASE request' = <<>>
    BY <2>4 DEF AsksArePeriods
  <2>5. CASE request' = Tail(request)
    BY <2>3, <2>5 DEF AsksArePeriods
  <2>6. QED
    BY <2>2, <2>4, <2>5
<1>4. QED
  BY <1>1, <1>2, <1>3 DEF Next, vars, Assign, SetValue, Refuse, Poll, Control, Clock

LEMMA BookEntry ==
    ASSUME OneSlotPerField, NEW f, NEW i \in Slots, watches[i] # Free, watches[i].id = f
    PROVE  BookOf(f) = [period |-> watches[i].period, due |-> watches[i].due]
<1>1. SlotsOf(f) = {i}
  BY DEF OneSlotPerField, SlotsOf
<1>2. QED
  BY <1>1 DEF BookOf

LEMMA BookEntryAfter ==
    ASSUME OneSlotPerField', NEW f, NEW i \in Slots, watches'[i] # Free, watches'[i].id = f
    PROVE  BookOf(f)' = [period |-> watches'[i].period, due |-> watches'[i].due]
<1>1. SlotsOf(f)' = {i}
  BY DEF OneSlotPerField, SlotsOf
<1>2. QED
  BY <1>1 DEF BookOf

(* An entry depends on the slots of its field only.                        *)
LEMMA SameSlotsSameEntry ==
    ASSUME NEW f, SlotsOf(f)' = SlotsOf(f), \A i \in SlotsOf(f) : watches'[i] = watches[i],
           OneSlotPerField, OneSlotPerField'
    PROVE  BookOf(f)' = BookOf(f)
<1>1. CASE SlotsOf(f) = {}
  BY <1>1 DEF BookOf
<1>2. ASSUME NEW i \in SlotsOf(f) PROVE BookOf(f)' = BookOf(f)
  <2>1. /\ i \in Slots /\ watches[i] # Free /\ watches[i].id = f
        /\ watches'[i] = watches[i]
    BY <1>2 DEF SlotsOf
  <2>2. QED
    BY <2>1, BookEntry, BookEntryAfter
<1>3. QED
  BY <1>1, <1>2

LEMMA WatchIsAsk ==
    ASSUME TypeOK, OneSlotPerField, OneSlotPerField',
           NEW f \in Fields, NEW p \in Periods, p \in Int, Watch(f, p)
    PROVE  Book!Ask(f, p) \/ UNCHANGED <<watches, now>>
<1>1. CASE \A i \in Slots : ~IsTarget(i, f)
  <2>1. watches' = [i \in Slots |-> watches[i]] /\ now' = now
    BY <1>1 DEF Watch
  <2>2. QED
    BY <2>1 DEF TypeOK
<1>2. ASSUME NEW i \in Slots, IsTarget(i, f) PROVE Book!Ask(f, p)
  <2> DEFINE w == [id |-> f, period |-> p, due |-> now + PeriodUs(p)]
  <2>1. watches'[i] = w /\ now' = now
    BY <1>2 DEF Watch
  <2>2. w \in Watches /\ w # Free
    <3>1. now + PeriodUs(p) \in Int
      BY PeriodUsIsNat, ClockIsBounded DEF TypeOK
    <3>2. QED
      BY <3>1, FreeIsNoWatch DEF Watches
  <2>3. BookOf(f)' = [period |-> p, due |-> now + PeriodUs(p)]
    BY <2>1, <2>2, BookEntryAfter
  <2>4. ASSUME NEW g \in Fields, g # f PROVE BookOf(g)' = BookOf(g)
    <3>1. \A j \in Slots : j # i => watches'[j] = watches[j]
      BY <1>2 DEF Watch, IsTarget, IsFirst, Slots, SlotsOf, FreeSlots
    <3>2. i \notin SlotsOf(g)
      BY <1>2, <2>4 DEF IsTarget, IsFirst, SlotsOf, FreeSlots
    <3>3. i \notin SlotsOf(g)'
      BY <2>1, <2>4 DEF SlotsOf
    <3>4. SlotsOf(g)' = SlotsOf(g)
      BY <3>1, <3>2, <3>3 DEF SlotsOf
    <3>5. \A j \in SlotsOf(g) : watches'[j] = watches[j]
      BY <3>1, <3>2 DEF SlotsOf
    <3>6. QED
      BY <3>4, <3>5, SameSlotsSameEntry
  <2>5. PeriodUs(p) = Book!Step(p)
    BY DEF PeriodUs, Book!Step
  <2>6. QED
    BY <2>1, <2>3, <2>4, <2>5 DEF Book!Ask
<1>3. QED
  BY <1>1, <1>2

LEMMA UnwatchIsForget ==
    ASSUME OneSlotPerField, OneSlotPerField', NEW f \in Fields, Unwatch(f)
    PROVE  Book!Forget(f)
<1>1. SlotsOf(f)' = {}
  BY DEF Unwatch, SlotsOf
<1>2. BookOf(f)' = Free
  BY <1>1 DEF BookOf
<1>3. ASSUME NEW g \in Fields, g # f PROVE BookOf(g)' = BookOf(g)
  <2>1. SlotsOf(g)' = SlotsOf(g) /\ \A j \in SlotsOf(g) : watches'[j] = watches[j]
    BY <1>3 DEF Unwatch, SlotsOf
  <2>2. QED
    BY <2>1, SameSlotsSameEntry
<1>4. QED
  BY <1>2, <1>3 DEF Book!Forget, Unwatch
(* A poll keeps every entry but the due ones, and those keep their beat.   *)
LEMMA EmitIsServe ==
    ASSUME TypeOK, OneSlotPerField, OneSlotPerField', EmitWatches
    PROVE  Book!Serve
<1>1. \A f \in Fields : SlotsOf(f)' = SlotsOf(f)
  <2>1. ASSUME NEW i \in Slots
        PROVE  /\ watches'[i] # Free <=> watches[i] # Free
               /\ watches[i] # Free => watches'[i].id = watches[i].id
    <3>1. CASE i \in DueSlots
      BY <3>1, PolledSlot, FreeIsNoWatch DEF DueSlots
    <3>2. CASE i \notin DueSlots
      BY <3>2, PolledSlot
    <3>3. QED
      BY <3>1, <3>2
  <2>2. QED
    BY <2>1 DEF SlotsOf
<1>2. ASSUME NEW f \in Fields, SlotsOf(f) = {}
      PROVE  BookOf(f) = Free /\ BookOf(f)' = Free
  BY <1>1, <1>2 DEF BookOf
<1>3. ASSUME NEW f \in Fields, NEW i \in SlotsOf(f)
      PROVE  LET b == BookOf(f)
             IN  IF b # Free /\ b.period > 0 /\ b.due <= now
                 THEN BookOf(f)'.period = b.period /\ Book!NextBeat(b, BookOf(f)'.due)
                 ELSE BookOf(f)' = b
  <2>1. /\ i \in Slots /\ watches[i] # Free /\ watches[i].id = f
        /\ watches'[i] # Free /\ watches'[i].id = f
        /\ watches[i] \in Watches /\ now \in Int
    BY <1>1, <1>3, ClockIsBounded DEF SlotsOf, TypeOK
  <2>2. BookOf(f) = [period |-> watches[i].period, due |-> watches[i].due]
    BY <2>1, BookEntry
  <2>3. BookOf(f)' = [period |-> watches'[i].period, due |-> watches'[i].due]
    BY <2>1, BookEntryAfter
  <2>4. BookOf(f) \in [period : Int, due : Int]
    BY <2>1, <2>2 DEF Watches
  <2>5. BookOf(f) # Free
    BY <2>4, FreeIsNoWatch
  <2>6. CASE i \notin DueSlots
    <3>1. watches'[i] = watches[i]
      BY <2>1, <2>6, PolledSlot
    <3>2. ~(watches[i].period > 0 /\ watches[i].due <= now)
      BY <2>1, <2>6 DEF DueSlots, Watches
    <3>3. QED
      BY <2>2, <2>3, <3>1, <3>2
  <2>7. CASE i \in DueSlots
    <3>1. /\ watches'[i].period = watches[i].period
          /\ watches'[i].due = NextDue(watches[i])
          /\ watches[i].due <= now
      BY <2>1, <2>7, PolledSlot DEF DueSlots, Watches
    <3>2. Book!NextBeat(watches[i], NextDue(watches[i]))
      <4>1. Book!Step(watches[i].period) = PeriodUs(watches[i].period)
        BY DEF Book!Step, PeriodUs
      <4>2. PeriodUs(watches[i].period) \in Nat
        BY <2>1, PeriodUsIsNat DEF Watches
      <4>3. CASE PeriodUs(watches[i].period) = 0
        BY <4>1, <4>3 DEF Book!NextBeat, NextDue
      <4>4. CASE PeriodUs(watches[i].period) > 0
        BY <2>1, <3>1, <4>1, <4>4, NextDueIsAhead DEF Book!NextBeat
      <4>5. QED
        BY <4>2, <4>3, <4>4
    <3>3. Book!NextBeat(BookOf(f), NextDue(watches[i]))
      BY <2>2, <3>2 DEF Book!NextBeat
    <3>4. QED
      BY <2>2, <2>3, <2>5, <2>7, <3>1, <3>3 DEF DueSlots
  <2>8. QED
    BY <2>6, <2>7
<1>4. \A f \in Fields :
         IF Book!IsDue(f)
         THEN BookOf(f)'.period = BookOf(f).period /\ Book!NextBeat(BookOf(f), BookOf(f)'.due)
         ELSE BookOf(f)' = BookOf(f)
  BY <1>2, <1>3 DEF Book!IsDue
<1>5. now' = now
  BY DEF EmitWatches
<1>6. QED
  BY <1>4, <1>5 DEF Book!Serve

LEMMA TableImplementsBook ==
    ASSUME TypeOK, OneSlotPerField, OneSlotPerField', AsksArePeriods, [Next]_vars
    PROVE  [Book!Change]_<<[f \in Fields |-> BookOf(f)], now>>
<1>1. TableStep
  BY StepsOfTheTable
<1>2. CASE UNCHANGED <<watches, now>>
  BY <1>2 DEF BookOf, SlotsOf
<1>3. ASSUME NEW f \in Fields, NEW p \in Int, Watch(f, p),
             request # <<>>, p = Head(request).period
      PROVE  Book!Change \/ UNCHANGED <<watches, now>>
  <2>1. p \in Periods
    BY <1>3 DEF AsksArePeriods, TypeOK
  <2>2. QED
    BY <1>3, <2>1, WatchIsAsk DEF Book!Change
<1>4. ASSUME NEW f \in Fields, Unwatch(f) PROVE Book!Change
  BY <1>4, UnwatchIsForget DEF Book!Change
<1>5. CASE EmitWatches
  BY <1>5, EmitIsServe DEF Book!Change
<1>6. CASE Tick
  BY <1>6 DEF Tick, Book!Change, Book!Pass, BookOf, SlotsOf
<1>7. QED
  BY <1>1, <1>2, <1>3, <1>4, <1>5, <1>6 DEF TableStep

(* Whatever clients request and however late polls come, the slots behave  *)
(* as one watch per field, decided by the last request, served once when   *)
(* due and kept on its beat.                                               *)
THEOREM ImplementsTheBook == Spec => KeepsTheBook
<1>1. Init => Book!Start
  BY DEF Init, RegistryInit, Book!Start, BookOf, SlotsOf
<1>2. Init => AsksArePeriods
  BY DEF Init, AsksArePeriods
<1>3. TypeOK /\ AsksArePeriods /\ [Next]_vars => AsksArePeriods'
  BY AsksStep
<1>4. /\ TypeOK /\ OneSlotPerField /\ OneSlotPerField' /\ AsksArePeriods
      /\ [Next]_vars
      => [Book!Change]_<<[f \in Fields |-> BookOf(f)], now>>
  BY TableImplementsBook
<1>5. QED
  BY <1>1, <1>2, <1>3, <1>4, TypeCorrect, AlwaysOneSlotPerField, PTL
     DEF Spec, KeepsTheBook, Book!Promise
-----------------------------------------------------------------------------
(* A poll leaves no mark.                                                  *)
LEMMA PollCleans ==
    ASSUME Poll
    PROVE  dirty' = {}
BY DEF Poll, EmitWatches

(* Where nothing is marked, nothing is lost: what is watched immediately   *)
(* is shown.                                                               *)
LEMMA CleanIsShown ==
    ASSUME NoLostUpdate, dirty = {}, NEW f \in Fields \ ControlFields, Immediate(f)
    PROVE  reported[f] = value[f]
BY DEF NoLostUpdate

(* As long as requests come to an end and the main loop keeps coming back  *)
(* to poll, a field watched immediately is shown as it is again and again. *)
(* Two hypotheses stand for what the provers cannot do here: that requests *)
(* end, which is WF_vars(HandleEntry) and an induction on the length of a  *)
(* request, and that a poll that would clear a mark is enabled, which is   *)
(* Poll's one guard, Idle, but speaks of ENABLED.                          *)
THEOREM ChangesAreShownAgain ==
    ASSUME "rudder.angle" \notin Fields
    PROVE  FairSpec /\ []<>Idle /\ [](Idle => dirty = {} \/ ENABLED <<Poll>>_vars)
             => ChangesAreShown
<1>1. FairSpec /\ []<>Idle /\ [](Idle => dirty = {} \/ ENABLED <<Poll>>_vars)
        => []<>(dirty = {})
  <2>1. <<Poll>>_vars => (dirty = {})'
    BY PollCleans
  <2>2. SF_vars(Poll) /\ []<>Idle /\ [](Idle => dirty = {} \/ ENABLED <<Poll>>_vars)
          => []<>(dirty = {})
    BY <2>1, PTL
  <2> QED
    BY <2>2, PTL DEF FairSpec
<1>2. ASSUME NEW f \in Fields \ ControlFields
      PROVE  Spec /\ []<>(dirty = {}) => (<>[]Immediate(f) => []<>(reported[f] = value[f]))
  <2>1. NoLostUpdate /\ dirty = {} /\ Immediate(f) => reported[f] = value[f]
    BY CleanIsShown
  <2>2. Spec => []NoLostUpdate
    BY UpdatesAreNeverLost
  <2> QED
    BY <2>1, <2>2, PTL
<1>3. Spec /\ []<>(dirty = {}) => ChangesAreShown
  BY <1>2 DEF ChangesAreShown
<1> QED
  BY <1>1, <1>3, PTL DEF FairSpec
=============================================================================
