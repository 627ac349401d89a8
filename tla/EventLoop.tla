----------------------------- MODULE EventLoop -----------------------------
(***************************************************************************)
(* The cooperative event loop: a fixed table of timers and polls, and      *)
(* run_once, which visits every slot once with the clock it read on entry  *)
(* and calls back whatever is due.                                         *)
(*                                                                         *)
(* What makes it hard is re-entrancy.  A callback may add and cancel       *)
(* timers - itself, others later in the same pass, into slots already      *)
(* visited or not - and may call run_once again (the client and the server *)
(* both do in poll), so that passes nest, each with its own reading of the *)
(* clock and its own place in the table.  The model keeps the stack of     *)
(* passes and lets time go on between any two steps.                       *)
(***************************************************************************)
EXTENDS Integers, Sequences

CONSTANTS
    MaxCallbacks,  \* slots of the table (64 by default)
    Delays,        \* delays and periods callers ask for, in microseconds
    Free,          \* an inactive slot
    MaxHandles,    \* bound: registrations in a behaviour
    MaxTime,       \* bound: the clock stops here
    MaxDepth       \* bound: nested calls of run_once

Slots == 1..MaxCallbacks
Handles == 1..MaxHandles

(* A slot's poll flag, handle, deadline and period (0 for a one-shot).     *)
Registrations == [poll : BOOLEAN, id : Handles, due : Nat, period : Nat]

(* A call of run_once: the clock it read, the next slot it visits, and the *)
(* handle of the callback it is in, 0 between callbacks.                   *)
Passes == [now : Nat, at : 1..(MaxCallbacks + 1), running : Handles \cup {0}]

ASSUME SizesAreNumbers ==
    /\ MaxCallbacks \in Nat \ {0}
    /\ MaxHandles \in Nat
    /\ MaxTime \in Nat
    /\ MaxDepth \in Nat \ {0}
ASSUME DelaysAreTimes == Delays \subseteq Nat
ASSUME FreeIsNoRegistration == Free \notin Registrations

VARIABLES
    slots,     \* slots_
    nextId,    \* next_id_
    now,       \* now_us()
    passes,    \* the calls of run_once in progress, innermost last
    first,     \* history: handle -> its registration as it was made
    fires,     \* history: handle -> times a timer was called back
    cancelled  \* history: handles whose cancel has returned

vars == <<slots, nextId, now, passes, first, fires, cancelled>>

Init ==
    /\ slots = [s \in Slots |-> Free]
    /\ nextId = 1
    /\ now = 0
    /\ passes = <<>>
    /\ first = [h \in Handles |-> Free]
    /\ fires = [h \in Handles |-> 0]
    /\ cancelled = {}

FreeSlots == {s \in Slots : slots[s] = Free}

(* Application code runs outside run_once and inside a callback.           *)
Top == passes[Len(passes)]
InCallback == passes # <<>> /\ Top.running # 0
CallerRuns == passes = <<>> \/ InCallback

-----------------------------------------------------------------------------
(* add_timer and add_poll: the first free slot, a fresh handle.  A full    *)
(* table returns 0 and changes nothing.                                    *)
RegisterReusesHandle(r) ==
    /\ CallerRuns
    /\ nextId \in Handles
    /\ \E s \in FreeSlots :
         /\ \A t \in FreeSlots : s <= t
         /\ slots' = [slots EXCEPT ![s] = [r EXCEPT !.id = s]]
    /\ first' = [first EXCEPT ![nextId] = r]
    /\ nextId' = nextId + 1
    /\ UNCHANGED <<now, passes, fires, cancelled>>

Register(r) ==
    /\ CallerRuns
    /\ nextId \in Handles
    /\ \E s \in FreeSlots :
         /\ \A t \in FreeSlots : s <= t
         /\ slots' = [slots EXCEPT ![s] = r]
    /\ first' = [first EXCEPT ![nextId] = r]
    /\ nextId' = nextId + 1
    /\ UNCHANGED <<now, passes, fires, cancelled>>

TimerTakesLastHandle(delay, period) ==
    [poll |-> FALSE, id |-> nextId - 1, due |-> now + delay, period |-> period]

Timer(delay, period) == [poll |-> FALSE, id |-> nextId, due |-> now + delay, period |-> period]

AddDelay(delay) == Register(Timer(delay, 0))
AddRepeat(period) == Register(Timer(period, period))
(* A poll's slot keeps the deadline and period of its last tenant, which   *)
(* nothing reads while it is a poll: both are 0 here.                      *)
AddPoll == Register([poll |-> TRUE, id |-> nextId, due |-> 0, period |-> 0])

(* cancel of a handle some earlier call returned, stale or not.            *)
Cancel(h) ==
    /\ CallerRuns
    /\ h < nextId
    /\ slots' = [s \in Slots |->
                   IF slots[s] # Free /\ slots[s].id = h THEN Free ELSE slots[s]]
    /\ cancelled' = cancelled \cup {h}
    /\ UNCHANGED <<nextId, now, passes, first, fires>>

-----------------------------------------------------------------------------
(* run_once                                                                *)

BeginPass ==
    /\ CallerRuns
    /\ Len(passes) < MaxDepth
    /\ passes' = Append(passes, [now |-> now, at |-> 1, running |-> 0])
    /\ UNCHANGED <<slots, nextId, now, first, fires, cancelled>>

Visiting == passes # <<>> /\ Top.running = 0 /\ Top.at <= MaxCallbacks

(* The slot the innermost pass is about to look at is to be called back.   *)
IsDueEarly(s) == slots[s] # Free /\ (slots[s].poll \/ Top.now + 1 >= slots[s].due)
IsDue(s) == slots[s] # Free /\ (slots[s].poll \/ Top.now >= slots[s].due)

(* What the slot becomes before the callback starts: a one-shot is gone,   *)
(* a periodic timer's deadline has moved past the pass's clock.            *)
AfterFiringOnce(r, t) ==
    IF r.poll THEN r
    ELSE IF r.period = 0 THEN Free
    ELSE [r EXCEPT !.due = r.due + r.period]

AfterFiringLate(r, t) ==
    IF r.poll THEN r
    ELSE IF r.period = 0 THEN r
    ELSE [r EXCEPT !.due = r.due + r.period * ((t - r.due) \div r.period + 1)]

AfterFiringFromNow(r, t) ==
    IF r.poll THEN r
    ELSE IF r.period = 0 THEN Free
    ELSE [r EXCEPT !.due = t + r.period]

AfterFiring(r, t) ==
    IF r.poll THEN r
    ELSE IF r.period = 0 THEN Free
    ELSE [r EXCEPT !.due = r.due + r.period * ((t - r.due) \div r.period + 1)]

MoveOn(running) ==
    passes' = [passes EXCEPT ![Len(passes)].at = Top.at + 1,
                             ![Len(passes)].running = running]

SkipSlotEndsPass ==
    /\ Visiting
    /\ ~IsDue(Top.at)
    /\ passes' = [passes EXCEPT ![Len(passes)].at = MaxCallbacks + 1]
    /\ UNCHANGED <<slots, nextId, now, first, fires, cancelled>>

SkipSlot ==
    /\ Visiting
    /\ ~IsDue(Top.at)
    /\ MoveOn(0)
    /\ UNCHANGED <<slots, nextId, now, first, fires, cancelled>>

FireSlot ==
    /\ Visiting
    /\ IsDue(Top.at)
    /\ LET r == slots[Top.at]
       IN  /\ slots' = [slots EXCEPT ![Top.at] = AfterFiring(r, Top.now)]
           /\ MoveOn(r.id)
           /\ fires' = IF r.poll THEN fires ELSE [fires EXCEPT ![r.id] = @ + 1]
    /\ UNCHANGED <<nextId, now, first, cancelled>>

(* The callback returns to the pass that called it.                        *)
CallbackReturns ==
    /\ InCallback
    /\ passes' = [passes EXCEPT ![Len(passes)].running = 0]
    /\ UNCHANGED <<slots, nextId, now, first, fires, cancelled>>

EndPass ==
    /\ passes # <<>> /\ Top.running = 0 /\ Top.at > MaxCallbacks
    /\ passes' = SubSeq(passes, 1, Len(passes) - 1)
    /\ UNCHANGED <<slots, nextId, now, first, fires, cancelled>>

Tick ==
    /\ now < MaxTime
    /\ now' = now + 1
    /\ UNCHANGED <<slots, nextId, passes, first, fires, cancelled>>

RunOnce == BeginPass \/ SkipSlot \/ FireSlot \/ CallbackReturns \/ EndPass

Next ==
    \/ \E d \in Delays : AddDelay(d) \/ AddRepeat(d)
    \/ AddPoll
    \/ \E h \in Handles : Cancel(h)
    \/ RunOnce
    \/ Tick

Spec == Init /\ [][Next]_vars

(* run_forever calls run_once in a loop and every callback returns.        *)
FairSpec ==
    /\ Spec
    /\ WF_vars(passes = <<>> /\ BeginPass)
    /\ WF_vars(SkipSlot \/ FireSlot \/ EndPass)
    /\ SF_vars(CallbackReturns)

-----------------------------------------------------------------------------
(***************************************************************************)
(* Properties                                                              *)
(***************************************************************************)

(* Every variable keeps its type.                                          *)
TypeOK ==
    /\ slots \in [Slots -> Registrations \cup {Free}]
    /\ nextId \in 1..(MaxHandles + 1)
    /\ now \in 0..MaxTime
    /\ passes \in Seq(Passes)
    /\ first \in [Handles -> Registrations \cup {Free}]
    /\ fires \in [Handles -> Nat]
    /\ cancelled \subseteq Handles

(* A handle names one registration for ever: no two active slots share     *)
(* one, and the registration it names is the one add returned it for, so a *)
(* stale handle cannot cancel whatever reuses the slot.                    *)
HandlesAreUnique ==
    \A s, t \in Slots :
        slots[s] # Free =>
            /\ slots[s].id < nextId
            /\ slots[s].period = first[slots[s].id].period
            /\ (slots[t] # Free /\ slots[s].id = slots[t].id => s = t)

(* What is settled stays silent: the callback of a handle that was         *)
(* cancelled, timer or poll, or of a one-shot that fired, never starts     *)
(* again - not later in the pass that cancelled it, not in a nested pass   *)
(* that its own callback runs, not in an outer pass that goes on.          *)
Settled(h) == h \in cancelled \/ (fires[h] > 0 /\ first[h].period = 0)

SettledIsSilent ==
    [][FireSlot => ~Settled(Top'.running)]_vars

(* A timer is called back at most once per beat that has gone by, so never *)
(* early and never twice for a beat, neither by its own pass nor by one    *)
(* its callback runs.                                                      *)
Beats(r, t) ==
    IF t < r.due THEN 0
    ELSE IF r.period = 0 THEN 1
    ELSE (t - r.due) \div r.period + 1

OncePerBeat == \A h \in Handles :
    IF first[h] = Free THEN fires[h] = 0 ELSE fires[h] <= Beats(first[h], now)

(* A loop that was held up does not make up for it in a burst: from the    *)
(* moment its callback starts, a timer is not due by the clock of the pass *)
(* that called it, whatever nested passes do to it meanwhile.              *)
NoBurst == \A k \in 1..Len(passes), s \in Slots :
    slots[s] # Free /\ slots[s].id = passes[k].running /\ ~slots[s].poll
        => passes[k].now < slots[s].due

(* A periodic timer keeps the beat of its registration, however late it is *)
(* served.                                                                 *)
NoDrift == \A s \in Slots :
    slots[s] # Free /\ slots[s].period > 0
        => (slots[s].due - first[slots[s].id].due) % slots[s].period = 0

(* Every timer whose time comes is called back or cancelled.               *)
TimersFire == \A h \in Handles :
    first[h] # Free /\ ~first[h].poll /\ first[h].due <= now
        ~> fires[h] > 0 \/ h \in cancelled
=============================================================================
