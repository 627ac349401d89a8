--------------------------- MODULE PypilotServer ---------------------------
(***************************************************************************)
(* PypilotServer: the line protocol in front of a ValueRegistry, with a    *)
(* client that assigns and watches, an application that sets values, the   *)
(* control objects that write PypilotState directly, and the main loop     *)
(* that polls for output.                                                  *)
(*                                                                         *)
(* handle_watch loops over the entries of a request, acts on each as it is *)
(* parsed and stops at the first error.  A step of the model is one round  *)
(* of that loop: request holds the entries still to be handled, and no     *)
(* other action is enabled before it is empty, because the loop runs on    *)
(* the only thread and calls nothing that returns to the event loop.       *)
(***************************************************************************)
EXTENDS ValueRegistry

CONSTANTS
    WatchRequests,  \* requests clients send: sequences of entries
    UnknownName     \* a name no descriptor has

(* An entry [key, ask, period]: ask is what the text after the key amounts *)
(* to - "syntax" for an entry that does not parse as far as its colon,     *)
(* "never" for false, "every" for true (period 0) or a number, "garbage"   *)
(* for anything else.                                                      *)
Entries == [key : Fields \cup {UnknownName, "values"},
            ask : {"syntax", "never", "every", "garbage"},
            period : Int]

ASSUME RequestsAreEntries == WatchRequests \subseteq Seq(Entries)
ASSUME UnknownIsUnknown == UnknownName \notin Fields \cup {"values"}

VARIABLE request  \* the entries of the watch request being handled

vars == <<value, angleValid, watches, dirty, now, midLine, reported, request>>

Idle == request = <<>>

Init == RegistryInit /\ request = <<>>

-----------------------------------------------------------------------------
(* handle_line on name=value: a value that parses, of a writable field, or *)
(* else the answer "invalid set".                                          *)
Assign(f, v) ==
    /\ Idle
    /\ f \in WritableFields
    /\ SetField(f, v)
    /\ UNCHANGED request

(* An unknown or read-only name, a value that does not parse as the        *)
(* field's kind, a line without '=', a remote registration, a request      *)
(* without braces: nothing is set and an error line is written.            *)
Refuse ==
    /\ Idle
    /\ WriteReply
    /\ UNCHANGED <<value, angleValid, watches, dirty, now, request>>

-----------------------------------------------------------------------------
(* handle_watch                                                            *)

BeginWatch(r) ==
    /\ Idle
    /\ request' = r
    /\ UNCHANGED registryVars

EntryFails(e) ==
    \/ e.ask = "syntax"
    \/ e.ask = "garbage" /\ e.key # "values"
    \/ e.ask = "every" /\ e.key = UnknownName
    \/ e.ask = "every" /\ e.key \in Fields /\ WatchRefused(e.key)

(* A watch that is refused has written its initial line before the error   *)
(* (with a slot for every field, none is: WatchNeverRefused).              *)
FailEntry ==
    /\ ~Idle
    /\ LET e == Head(request)
           written == IF e.ask = "every" /\ e.key \in Fields THEN {<<1, e.key>>} ELSE {}
       IN  /\ EntryFails(e)
           /\ reported' = [f \in Fields |-> IF Arrives(written, f) THEN value[f] ELSE reported[f]]
    /\ midLine' = FALSE
    /\ request' = <<>>
    /\ UNCHANGED <<value, angleValid, watches, dirty, now>>

ListValues ==
    /\ ~Idle
    /\ LET e == Head(request)
       IN  /\ ~EntryFails(e) /\ e.key = "values"
           /\ IF e.ask = "never" THEN UNCHANGED <<midLine, reported>> ELSE WriteReply
    /\ request' = Tail(request)
    /\ UNCHANGED <<value, angleValid, watches, dirty, now>>

UnwatchEntry ==
    /\ ~Idle
    /\ LET e == Head(request)
       IN  /\ e.ask = "never" /\ e.key # "values"
           /\ IF e.key = UnknownName THEN UNCHANGED registryVars ELSE Unwatch(e.key)
    /\ request' = Tail(request)

WatchEntry ==
    /\ ~Idle
    /\ LET e == Head(request)
       IN  /\ ~EntryFails(e) /\ e.ask = "every" /\ e.key # "values"
           /\ Watch(e.key, e.period)
    /\ request' = Tail(request)

HandleEntry == FailEntry \/ ListValues \/ UnwatchEntry \/ WatchEntry

-----------------------------------------------------------------------------
(* poll, called through collect_output by the main loop.  The callbacks of *)
(* run_once are the other actions.                                         *)
Poll ==
    /\ Idle
    /\ EmitWatches
    /\ UNCHANGED request

(* The application sets a value through the registry.                      *)
SetValue(f, v) == Idle /\ SetField(f, v) /\ UNCHANGED request

(* Steps of the control loop and of time.                                  *)
Control ==
    /\ Idle
    /\ \/ \E f \in Fields \cap ControlFields : \E v \in Domain(f) : ControlWrite(f, v)
       \/ "rudder.angle" \in Fields /\ RudderReset
    /\ UNCHANGED request

Clock == Idle /\ Tick /\ UNCHANGED request

Next ==
    \/ \E f \in Fields : \E v \in Domain(f) : Assign(f, v)
    \/ Refuse
    \/ \E r \in WatchRequests : BeginWatch(r)
    \/ HandleEntry
    \/ Poll
    \/ \E f \in Fields : \E v \in Domain(f) : SetValue(f, v)
    \/ Control
    \/ Clock

Spec == Init /\ [][Next]_vars

(* A request is handled to its end, and the main loop comes back to        *)
(* collect_output after every burst of requests.                           *)
FairSpec == Spec /\ WF_vars(HandleEntry) /\ SF_vars(Poll)

-----------------------------------------------------------------------------
(***************************************************************************)
(* Properties                                                              *)
(***************************************************************************)

(* Every variable keeps its type.                                          *)
TypeOK ==
    /\ DOMAIN value = Fields /\ \A f \in Fields : value[f] \in Domain(f)
    /\ angleValid \in BOOLEAN
    /\ watches \in [Slots -> Watches \cup {Free}]
    /\ dirty \subseteq Fields
    /\ now \in 0..MaxTime
    /\ midLine \in BOOLEAN
    /\ request \in Seq(Entries)

(* A field never has two active slots, whatever sequence of watch, unwatch *)
(* and watch again in other slots went before: the first loop of watch     *)
(* updates one slot only and unwatch is all-or-nothing, so a second slot   *)
(* would go on emitting on the old period.                                 *)
OneSlotPerField == \A i, j \in Slots :
    watches[i] # Free /\ watches[j] # Free /\ watches[i].id = watches[j].id => i = j

(* A valid watch is never answered "invalid unknown value": the table has  *)
(* room for every field that is not in it.                                 *)
WatchNeverRefused == \A f \in Fields : ~WatchRefused(f)

(* A field only the registry writes, watched immediately, either shows the *)
(* client its current value or is marked for the next poll: no order of    *)
(* assignments, polls, unwatching and watching again loses the last value. *)
NoLostUpdate == \A f \in Fields \ ControlFields :
    Immediate(f) /\ reported[f] # value[f] => f \in dirty

(* A periodic watch is never scheduled further ahead than one period, so a *)
(* changed period takes effect at once.                                    *)
DueWindow == \A i \in Slots :
    watches[i] # Free => watches[i].due <= now + PeriodUs(watches[i].period)

(* However late a poll comes, it serves a due watch once and reschedules   *)
(* it on its own beat, strictly ahead and at most a period away.           *)
OnTheBeat ==
    [][Poll => \A i \in DueSlots :
         LET step == PeriodUs(watches[i].period)
         IN  step > 0 => /\ now < watches'[i].due
                         /\ watches'[i].due <= now + step
                         /\ (watches'[i].due - watches[i].due) % step = 0]_vars

(* The table of slots implements the abstract book of watches.             *)
Periods == UNION {{r[k].period : k \in 1..Len(r)} : r \in WatchRequests}

BookOf(f) ==
    IF SlotsOf(f) = {} THEN Free
    ELSE LET i == CHOOSE i \in SlotsOf(f) : TRUE
         IN  [period |-> watches[i].period, due |-> watches[i].due]

Book == INSTANCE WatchBook WITH
    Names <- Fields,
    Periods <- Periods,
    Unwatched <- Free,
    book <- [f \in Fields |-> BookOf(f)],
    clock <- now

KeepsTheBook == Book!Promise

(* While a registry-only field stays watched immediately, the client is    *)
(* shown its current value again and again.                                *)
ChangesAreShown == \A f \in Fields \ ControlFields :
    <>[]Immediate(f) => []<>(reported[f] = value[f])

-----------------------------------------------------------------------------
(* PLAN.md:44 calls the server a line protocol: what a call writes ends    *)
(* with its line.  With rudder.angle watched before the first rudder       *)
(* sample, write_value_line stops after "rudder.angle=".                   *)
OutputEndsWithALine == ~midLine

(* PLAN.md:45 promises "Immediate and periodic watch queues over typed     *)
(* fields": an accepted watch is one or the other.  A negative period is   *)
(* neither, and is accepted.                                               *)
WatchesAreQueued == \A i \in Slots : watches[i] # Free => watches[i].period >= 0

(* PLAN.md:45 again: an immediate watch over a typed field has the changes *)
(* of that field queued.  What a control object writes is not: only the    *)
(* registry's own setters mark a field, so no poll ever reports the change.*)
ControlChangesAreQueued == \A f \in Fields :
    Immediate(f) /\ reported[f] # value[f] => f \in dirty
=============================================================================
