-------------------------- MODULE EventLoopProofs --------------------------
(* The loop's properties for every size of the table, any number of        *)
(* registrations and any depth of nested passes.                           *)
EXTENDS EventLoop, SequenceTheorems, TLAPS

(***************************************************************************)
(* The inductive invariant, in parts.                                      *)
(***************************************************************************)

(* A pass's clock was read in the past, and the callback it is in belongs  *)
(* to a handle that was given out.                                         *)
PassesArePast == \A k \in 1..Len(passes) :
    passes[k].now <= now /\ passes[k].running < nextId

(* Handles not given out yet have no history.                              *)
FutureIsBlank == \A h \in Handles :
    h >= nextId => first[h] = Free /\ fires[h] = 0 /\ h \notin cancelled

(* An active slot was never cancelled, and an active one-shot never fired. *)
ActiveIsUnsettled == \A s \in Slots :
    slots[s] # Free => ~Settled(slots[s].id)

(* An active timer stands on a beat of its registration, and has fired at  *)
(* most once for each beat before that one; a poll is not counted.         *)
StandsOn(s, n) ==
    LET r == slots[s]
    IN  /\ r.due = first[r.id].due + r.period * n
        /\ fires[r.id] <= n

ActiveStandsOnBeat == \A s \in Slots :
    slots[s] # Free => \E n \in Nat : StandsOn(s, n)

(* A registration is remembered as it was made.                            *)
FirstIsKept == \A s \in Slots :
    slots[s] # Free => /\ first[slots[s].id] # Free
                       /\ first[slots[s].id].id = slots[s].id
                       /\ first[slots[s].id].poll = slots[s].poll

LoopInv ==
    /\ TypeOK
    /\ HandlesAreUnique
    /\ PassesArePast
    /\ FutureIsBlank
    /\ ActiveIsUnsettled
    /\ ActiveStandsOnBeat
    /\ FirstIsKept
    /\ OncePerBeat
    /\ NoBurst

-----------------------------------------------------------------------------
(* The do-while of run_once moves a deadline by a number of beats, past    *)
(* the pass's clock.                                                       *)
LEMMA DeadlineMovesByBeats ==
    ASSUME NEW r \in Registrations, NEW t \in Nat, r.due <= t, ~r.poll, r.period > 0
    PROVE  /\ AfterFiring(r, t) \in Registrations
           /\ AfterFiring(r, t).id = r.id
           /\ AfterFiring(r, t).period = r.period
           /\ AfterFiring(r, t).poll = r.poll
           /\ AfterFiring(r, t).due > t
           /\ \E k \in Nat : k >= 1 /\ AfterFiring(r, t).due = r.due + r.period * k
<1> DEFINE k == (t - r.due) \div r.period + 1
<1>1. r.due \in Nat /\ r.period \in Nat /\ r.id \in Handles /\ r.poll \in BOOLEAN
  BY DEF Registrations
<1>2. (t - r.due) \in Nat
  BY <1>1
<1>3. k \in Nat /\ k >= 1
  BY <1>1, <1>2, Z3
<1>4. AfterFiring(r, t) = [r EXCEPT !.due = r.due + r.period * k]
  BY DEF AfterFiring
<1>5. r.due + r.period * k \in Nat /\ r.due + r.period * k > t
  <2> DEFINE d == r.due
             p == r.period
             q == (t - d) \div p
  <2>1. d \in Nat /\ p \in Nat /\ p > 0 /\ d <= t /\ k = q + 1
    BY <1>1
  <2> HIDE DEF d, p, k
  <2>2. q \in Int /\ t - d < p * q + p
    BY <2>1, Z3
  <2>3. k \in Nat
    BY <1>3
  <2> HIDE DEF q
  <2>4. p * k = p * q + p /\ p * k \in Nat
    BY <2>1, <2>2, <2>3, Z3
  <2>5. d + p * k \in Nat /\ d + p * k > t
    BY <2>1, <2>2, <2>4
  <2>6. QED
    BY <2>5 DEF d, p
<1> HIDE DEF k
<1>6. QED
  BY <1>1, <1>3, <1>4, <1>5 DEF Registrations

(* The number of beats gone by never decreases as time passes.             *)
LEMMA BeatsGrow ==
    ASSUME NEW d \in Nat, NEW p \in Nat, p > 0, NEW t \in Nat, d <= t
    PROVE  (t - d) \div p \in Nat /\ (t - d) \div p <= ((t + 1) - d) \div p
BY Z3

LEMMA BeatsNeverDecrease ==
    ASSUME NEW r \in Registrations, NEW t \in Nat
    PROVE  /\ Beats(r, t) \in Nat
           /\ Beats(r, t) <= Beats(r, t + 1)
<1> DEFINE d == r.due
           p == r.period
<1>1. d \in Nat /\ p \in Nat
  BY DEF Registrations
<1>2. /\ Beats(r, t) = IF t < d THEN 0 ELSE IF p = 0 THEN 1 ELSE (t - d) \div p + 1
      /\ Beats(r, t + 1) = IF t + 1 < d THEN 0
                           ELSE IF p = 0 THEN 1 ELSE ((t + 1) - d) \div p + 1
  BY DEF Beats
<1> HIDE DEF d, p
<1>3. CASE t < d
  <2>1. p > 0 /\ d <= t + 1 => ((t + 1) - d) \div p \in Nat
    BY <1>1, BeatsGrow
  <2>2. QED
    BY <1>1, <1>2, <1>3, <2>1
<1>4. CASE d <= t /\ p = 0
  BY <1>1, <1>2, <1>4
<1>5. CASE d <= t /\ p > 0
  <2> DEFINE a == (t - d) \div p
             b == ((t + 1) - d) \div p
  <2>1. a \in Nat /\ b \in Nat /\ a <= b
    BY <1>1, <1>5, BeatsGrow
  <2>2. Beats(r, t) = a + 1 /\ Beats(r, t + 1) = b + 1
    BY <1>1, <1>2, <1>5
  <2> HIDE DEF a, b
  <2>3. QED
    BY <2>1, <2>2
<1>6. QED
  BY <1>1, <1>3, <1>4, <1>5

LEMMA BeatsReached ==
    ASSUME NEW d \in Nat, NEW p \in Nat, p > 0, NEW n \in Nat, NEW t \in Nat,
           d + p * n <= t
    PROVE  d <= t /\ n <= (t - d) \div p
<1>1. p * n \in Nat
  BY Z3
<1>2. d <= t /\ p * n <= t - d
  BY <1>1
<1> DEFINE q == (t - d) \div p
<1>3. q \in Int /\ t - d < p * q + p
  BY <1>2, Z3
<1> HIDE DEF q
<1>4. n < q + 1
  BY <1>2, <1>3, Z3
<1>5. QED
  BY <1>2, <1>3, <1>4 DEF q

-----------------------------------------------------------------------------
(* Types.                                                                  *)

LEMMA TopIsPass ==
    ASSUME passes \in Seq(Passes), passes # <<>>
    PROVE  Len(passes) \in 1..Len(passes) /\ Top \in Passes
BY DEF Top

LEMMA MoveOnType ==
    ASSUME passes \in Seq(Passes), Visiting, NEW h \in Handles \cup {0}, MoveOn(h)
    PROVE  /\ passes' \in Seq(Passes)
           /\ Len(passes') = Len(passes)
           /\ \A k \in 1..Len(passes) : passes'[k].now = passes[k].now
           /\ \A k \in 1..Len(passes) :
                passes'[k].running = IF k = Len(passes) THEN h ELSE passes[k].running
<1> DEFINE frame == [passes[Len(passes)] EXCEPT !.at = Top.at + 1, !.running = h]
<1>1. passes # <<>> /\ Top.at <= MaxCallbacks /\ Top \in Passes /\ Len(passes) \in 1..Len(passes)
  BY TopIsPass DEF Visiting
<1>2. frame \in Passes /\ frame.now = passes[Len(passes)].now /\ frame.running = h
  <2> DEFINE n == Top.at + 1
  <2>1. n \in 1..(MaxCallbacks + 1)
    BY <1>1, SizesAreNumbers DEF Passes
  <2>2. frame = [Top EXCEPT !.at = n, !.running = h]
    BY DEF Top
  <2> HIDE DEF n, frame
  <2>3. frame \in Passes /\ frame.now = Top.now /\ frame.running = h
    BY <1>1, <2>1, <2>2 DEF Passes
  <2>4. QED
    BY <2>3 DEF Top
<1>3. passes' = [passes EXCEPT ![Len(passes)] = frame]
  BY DEF MoveOn
<1> HIDE DEF frame
<1>4. passes' \in Seq(Passes) /\ Len(passes') = Len(passes)
  BY <1>1, <1>2, <1>3
<1>5. ASSUME NEW k \in 1..Len(passes)
      PROVE  /\ passes'[k].now = passes[k].now
             /\ passes'[k].running = IF k = Len(passes) THEN h ELSE passes[k].running
  <2>1. CASE k = Len(passes)
    BY <1>1, <1>2, <1>3, <2>1
  <2>2. CASE k # Len(passes)
    BY <1>1, <1>3, <2>2
  <2>3. QED
    BY <2>1, <2>2
<1>6. QED
  BY <1>4, <1>5

LEMMA TypeStep ==
    ASSUME TypeOK, [Next]_vars
    PROVE  TypeOK'
<1> USE SizesAreNumbers DEF TypeOK
<1>1. ASSUME NEW r \in Registrations, Register(r) PROVE TypeOK'
  <2>1. nextId \in Handles
    BY <1>1 DEF Register
  <2>2. nextId' \in 1..(MaxHandles + 1)
    BY <1>1, <2>1 DEF Register, Handles
  <2>3. PICK s \in Slots : slots' = [slots EXCEPT ![s] = r]
    BY <1>1 DEF Register, FreeSlots
  <2>4. slots' \in [Slots -> Registrations \cup {Free}]
    BY <2>3
  <2>5. first' \in [Handles -> Registrations \cup {Free}]
    BY <1>1, <2>1 DEF Register
  <2>6. QED
    BY <1>1, <2>2, <2>4, <2>5 DEF Register
<1>2. ASSUME NEW h \in Handles, Cancel(h) PROVE TypeOK'
  BY <1>2 DEF Cancel
<1>3. CASE BeginPass
  <2>1. [now |-> now, at |-> 1, running |-> 0] \in Passes
    BY DEF Passes
  <2>2. QED
    BY <1>3, <2>1 DEF BeginPass
<1>4. CASE SkipSlot
  BY <1>4, MoveOnType DEF SkipSlot
<1>5. CASE FireSlot
  <2>1. Visiting /\ Top \in Passes /\ Top.at \in Slots
    BY <1>5, TopIsPass DEF FireSlot, Visiting, Passes, Slots
  <2>2. slots[Top.at] \in Registrations
    BY <1>5, <2>1 DEF FireSlot, IsDue
  <2>3. AfterFiring(slots[Top.at], Top.now) \in Registrations \cup {Free}
    <3> DEFINE r == slots[Top.at]
    <3>1. CASE r.poll \/ r.period = 0
      BY <2>2, <3>1 DEF AfterFiring
    <3>2. CASE ~(r.poll \/ r.period = 0)
      <4>1. r.due <= Top.now /\ Top.now \in Nat /\ r.period > 0
        BY <1>5, <2>1, <2>2, <3>2 DEF FireSlot, IsDue, Registrations, Passes
      <4>2. QED
        BY <2>2, <3>2, <4>1, DeadlineMovesByBeats
    <3>3. QED
      BY <3>1, <3>2
  <2>4. slots' \in [Slots -> Registrations \cup {Free}]
    BY <1>5, <2>1, <2>3 DEF FireSlot
  <2>5. slots[Top.at].id \in Handles
    BY <2>2 DEF Registrations
  <2>6. passes' \in Seq(Passes)
    BY <1>5, <2>1, <2>5, MoveOnType DEF FireSlot
  <2>7. fires' \in [Handles -> Nat]
    BY <1>5, <2>5 DEF FireSlot
  <2>8. QED
    BY <1>5, <2>4, <2>6, <2>7 DEF FireSlot
<1>6. CASE CallbackReturns
  <2> DEFINE frame == [passes[Len(passes)] EXCEPT !.running = 0]
  <2>1. frame \in Passes /\ Len(passes) \in 1..Len(passes)
    BY <1>6, TopIsPass DEF CallbackReturns, InCallback, Passes, Top
  <2>2. passes' = [passes EXCEPT ![Len(passes)] = frame]
    BY <1>6 DEF CallbackReturns
  <2> HIDE DEF frame
  <2>3. passes' \in Seq(Passes)
    BY <2>1, <2>2
  <2>4. QED
    BY <1>6, <2>3 DEF CallbackReturns
<1>7. CASE EndPass
  <2>1. passes' \in Seq(Passes)
    BY <1>7, SubSeqProperties DEF EndPass
  <2>2. QED
    BY <1>7, <2>1 DEF EndPass
<1>8. CASE Tick
  BY <1>8 DEF Tick
<1>9. CASE UNCHANGED vars
  BY <1>9 DEF vars
<1>10. ASSUME NEW d \in Delays, AddDelay(d) \/ AddRepeat(d) PROVE TypeOK'
  <2>1. nextId \in Handles
    BY <1>10 DEF AddDelay, AddRepeat, Register
  <2>2. Timer(d, 0) \in Registrations /\ Timer(d, d) \in Registrations
    BY <2>1, DelaysAreTimes DEF Timer, Registrations
  <2>3. QED
    BY <1>10, <1>1, <2>2 DEF AddDelay, AddRepeat
<1>11. CASE AddPoll
  <2>1. [poll |-> TRUE, id |-> nextId, due |-> 0, period |-> 0] \in Registrations
    BY <1>11 DEF AddPoll, Register, Registrations
  <2>2. QED
    BY <1>11, <1>1, <2>1 DEF AddPoll
<1>12. QED
  BY <1>2, <1>3, <1>4, <1>5, <1>6, <1>7, <1>8, <1>9, <1>10, <1>11 DEF Next, RunOnce
LEMMA InitLoop == Init => LoopInv
<1> SUFFICES ASSUME Init PROVE LoopInv
  OBVIOUS
<1>1. TypeOK
  BY SizesAreNumbers DEF Init, TypeOK
<1>2. QED
  BY <1>1 DEF Init, LoopInv, HandlesAreUnique, PassesArePast, FutureIsBlank,
     ActiveIsUnsettled, ActiveStandsOnBeat, FirstIsKept, OncePerBeat, NoBurst

-----------------------------------------------------------------------------
(***************************************************************************)
(* Steps.  Four kinds of step touch the table, its histories or the clock; *)
(* every other one only moves a pass along.                                *)
(***************************************************************************)

PassesMove ==
    /\ UNCHANGED <<slots, nextId, now, first, fires, cancelled>>
    /\ \A k \in 1..Len(passes') :
         /\ passes'[k].now <= now
         /\ passes'[k].running < nextId
         /\ \/ passes'[k].running = 0
            \/ /\ k \in 1..Len(passes)
               /\ passes'[k].now = passes[k].now
               /\ passes'[k].running = passes[k].running

RegisterSome == \E r \in Registrations : r.id = nextId /\ Register(r)

LEMMA StepShape ==
    ASSUME TypeOK, PassesArePast, [Next]_vars
    PROVE  RegisterSome \/ (\E h \in Handles : Cancel(h)) \/ FireSlot \/ Tick \/ PassesMove
<1> USE DEF TypeOK
<1>1. ASSUME NEW d \in Delays, AddDelay(d) \/ AddRepeat(d) PROVE RegisterSome
  <2>1. nextId \in Handles
    BY <1>1 DEF AddDelay, AddRepeat, Register
  <2>2. /\ Timer(d, 0) \in Registrations /\ Timer(d, 0).id = nextId
        /\ Timer(d, d) \in Registrations /\ Timer(d, d).id = nextId
    BY <2>1, DelaysAreTimes, SizesAreNumbers DEF Timer, Registrations
  <2>3. QED
    BY <1>1, <2>2 DEF AddDelay, AddRepeat, RegisterSome
<1>2. CASE AddPoll
  <2> DEFINE r == [poll |-> TRUE, id |-> nextId, due |-> 0, period |-> 0]
  <2>1. r \in Registrations /\ r.id = nextId
    BY <1>2 DEF AddPoll, Register, Registrations
  <2>2. QED
    BY <1>2, <2>1 DEF AddPoll, RegisterSome
<1>3. CASE BeginPass
  <2>1. /\ Len(passes') = Len(passes) + 1
        /\ passes'[Len(passes) + 1].now = now
        /\ passes'[Len(passes) + 1].running = 0
        /\ \A k \in 1..Len(passes) : passes'[k] = passes[k]
    BY <1>3 DEF BeginPass
  <2>2. now \in Nat /\ nextId \in Nat /\ 0 < nextId
    BY SizesAreNumbers
  <2>3. ASSUME NEW k \in 1..Len(passes')
        PROVE  /\ passes'[k].now <= now
               /\ passes'[k].running < nextId
               /\ \/ passes'[k].running = 0
                  \/ k \in 1..Len(passes) /\ passes'[k] = passes[k]
    BY <2>1, <2>2 DEF PassesArePast
  <2>4. QED
    BY <1>3, <2>3 DEF BeginPass, PassesMove
<1>4. CASE SkipSlot
  <2>1. nextId \in Nat /\ 0 < nextId
    BY SizesAreNumbers
  <2>2. /\ Len(passes') = Len(passes)
        /\ \A k \in 1..Len(passes) : passes'[k].now = passes[k].now
        /\ \A k \in 1..Len(passes) :
             passes'[k].running = IF k = Len(passes) THEN 0 ELSE passes[k].running
    BY <1>4, MoveOnType DEF SkipSlot
  <2>3. QED
    BY <1>4, <2>1, <2>2 DEF SkipSlot, PassesMove, PassesArePast
<1>5. CASE CallbackReturns
  <2> DEFINE frame == [passes[Len(passes)] EXCEPT !.running = 0]
  <2>1. Len(passes) \in 1..Len(passes) /\ Top \in Passes
    BY <1>5, TopIsPass DEF CallbackReturns, InCallback
  <2>2. frame.now = passes[Len(passes)].now /\ frame.running = 0
    BY <2>1 DEF Passes, Top
  <2>3. passes' = [passes EXCEPT ![Len(passes)] = frame]
    BY <1>5 DEF CallbackReturns
  <2> HIDE DEF frame
  <2>4. /\ Len(passes') = Len(passes)
        /\ \A k \in 1..Len(passes) :
             /\ passes'[k].now = passes[k].now
             /\ passes'[k].running = IF k = Len(passes) THEN 0 ELSE passes[k].running
    BY <2>1, <2>2, <2>3
  <2>5. nextId \in Nat /\ 0 < nextId
    BY SizesAreNumbers
  <2>6. QED
    BY <1>5, <2>4, <2>5 DEF CallbackReturns, PassesMove, PassesArePast
<1>6. CASE EndPass
  <2> DEFINE n == Len(passes) - 1
  <2>0. n \in 0..Len(passes) /\ 1 \in 1..(Len(passes) + 1) /\ passes' = SubSeq(passes, 1, n)
    BY <1>6, TopIsPass DEF EndPass
  <2> HIDE DEF n
  <2>1. /\ Len(passes') = n
        /\ \A k \in 1..n : passes'[k] = passes[k]
    BY <2>0, SubSeqProperties
  <2>2. QED
    BY <1>6, <2>0, <2>1 DEF EndPass, PassesMove, PassesArePast
<1>7. CASE UNCHANGED vars
  BY <1>7 DEF vars, PassesMove, PassesArePast
<1>8. QED
  BY <1>1, <1>2, <1>3, <1>4, <1>5, <1>6, <1>7 DEF Next, RunOnce

(* The parts a step that only moves a pass along cannot disturb.           *)
LEMMA PassesMoveKeeps ==
    ASSUME LoopInv, TypeOK', PassesMove
    PROVE  LoopInv'
<1> USE DEF PassesMove, LoopInv
<1>1. PassesArePast'
  BY DEF PassesArePast
<1>2. HandlesAreUnique' /\ FutureIsBlank' /\ FirstIsKept'
  BY DEF HandlesAreUnique, FutureIsBlank, FirstIsKept
<1>3. ActiveIsUnsettled'
  BY DEF ActiveIsUnsettled, Settled
<1>4. ActiveStandsOnBeat'
  BY DEF ActiveStandsOnBeat, StandsOn
<1>5. OncePerBeat'
  BY DEF OncePerBeat, Beats
<1>6. NoBurst'
  <2>1. \A s \in Slots : slots[s] # Free => slots[s].id # 0
    BY DEF TypeOK, Registrations, Handles
  <2>2. QED
    BY <2>1 DEF NoBurst
<1>7. QED
  BY <1>1, <1>2, <1>3, <1>4, <1>5, <1>6

(* Time only makes room for more calls.                                    *)
LEMMA TickKeeps ==
    ASSUME LoopInv, TypeOK', Tick
    PROVE  LoopInv'
<1> USE DEF Tick, LoopInv
<1>0. now \in Nat /\ now' = now + 1
  BY SizesAreNumbers DEF TypeOK
<1>1. PassesArePast'
  <2> SUFFICES ASSUME NEW k \in 1..Len(passes)
               PROVE  passes[k].now <= now + 1 /\ passes[k].running < nextId
    BY <1>0 DEF PassesArePast
  <2>1. passes \in Seq(Passes)
    BY DEF TypeOK
  <2>2. passes[k] \in Passes
    BY <2>1, ElementOfSeq
  <2>3. passes[k].now \in Nat /\ passes[k].now <= now
    BY <2>2 DEF PassesArePast, Passes
  <2>4. QED
    BY <1>0, <2>3 DEF PassesArePast
<1>2. HandlesAreUnique' /\ FutureIsBlank' /\ FirstIsKept'
  BY DEF HandlesAreUnique, FutureIsBlank, FirstIsKept
<1>3. ActiveIsUnsettled'
  BY DEF ActiveIsUnsettled, Settled
<1>4. ActiveStandsOnBeat'
  BY DEF ActiveStandsOnBeat, StandsOn
<1>5. OncePerBeat'
  <2> SUFFICES ASSUME NEW h \in Handles, first[h] # Free
               PROVE  fires[h] <= Beats(first[h], now + 1)
    BY <1>0 DEF OncePerBeat
  <2>1. first[h] \in Registrations /\ fires[h] \in Nat
    BY DEF TypeOK
  <2>2. fires[h] <= Beats(first[h], now)
    BY DEF OncePerBeat
  <2>3. QED
    BY <1>0, <2>1, <2>2, BeatsNeverDecrease
<1>6. NoBurst'
  BY DEF NoBurst
<1>7. QED
  BY <1>1, <1>2, <1>3, <1>4, <1>5, <1>6
(* A cancelled handle leaves the table, and its history stays.             *)
LEMMA CancelKeeps ==
    ASSUME LoopInv, TypeOK', NEW h \in Handles, Cancel(h)
    PROVE  LoopInv'
<1> USE DEF LoopInv
<1>1. /\ \A s \in Slots : slots'[s] # Free => slots'[s] = slots[s] /\ slots[s].id # h
      /\ h < nextId
      /\ cancelled' = cancelled \cup {h}
      /\ UNCHANGED <<nextId, now, passes, first, fires>>
  BY DEF Cancel
<1>2. PassesArePast' /\ FutureIsBlank'
  <2>1. \A k \in Handles : k >= nextId => k # h
    BY <1>1 DEF TypeOK, Handles
  <2>2. QED
    BY <1>1, <2>1 DEF PassesArePast, FutureIsBlank
<1>3. HandlesAreUnique' /\ FirstIsKept'
  BY <1>1 DEF HandlesAreUnique, FirstIsKept
<1>4. ActiveIsUnsettled'
  BY <1>1 DEF ActiveIsUnsettled, Settled
<1>5. ActiveStandsOnBeat'
  BY <1>1 DEF ActiveStandsOnBeat, StandsOn
<1>6. OncePerBeat'
  BY <1>1 DEF OncePerBeat
<1>7. NoBurst'
  BY <1>1 DEF NoBurst
<1>8. QED
  BY <1>2, <1>3, <1>4, <1>5, <1>6, <1>7

(* A new registration stands on its own first beat with a blank history.   *)
LEMMA RegisterKeeps ==
    ASSUME LoopInv, TypeOK', NEW r \in Registrations, r.id = nextId, Register(r)
    PROVE  LoopInv'
<1> USE DEF LoopInv
<1>1. PICK s \in Slots : slots[s] = Free /\ slots' = [slots EXCEPT ![s] = r]
  BY DEF Register, FreeSlots
<1>2. /\ nextId \in Handles /\ nextId' = nextId + 1
      /\ first' = [first EXCEPT ![nextId] = r]
      /\ UNCHANGED <<now, passes, fires, cancelled>>
  BY DEF Register
<1>3. r # Free /\ slots'[s] = r /\ first'[nextId] = r
  BY <1>1, <1>2, FreeIsNoRegistration DEF TypeOK
<1>4. ASSUME NEW t \in Slots, t # s
      PROVE  /\ slots'[t] = slots[t]
             /\ slots[t] # Free => /\ slots[t].id \in Handles /\ slots[t].id < nextId
                                   /\ first'[slots[t].id] = first[slots[t].id]
  <2>1. slots'[t] = slots[t]
    BY <1>1, <1>4 DEF TypeOK
  <2>2. slots[t] # Free => slots[t].id \in Handles /\ slots[t].id < nextId
    BY DEF TypeOK, HandlesAreUnique, Registrations
  <2>3. slots[t] # Free => slots[t].id # nextId
    BY <1>2, <2>2 DEF Handles
  <2>4. QED
    BY <1>2, <2>1, <2>2, <2>3 DEF TypeOK
<1>5. first[nextId] = Free /\ fires[nextId] = 0 /\ nextId \notin cancelled
  BY <1>2 DEF FutureIsBlank, Handles
<1>6. PassesArePast'
  <2> SUFFICES ASSUME NEW k \in 1..Len(passes)
               PROVE  passes[k].now <= now /\ passes[k].running < nextId + 1
    BY <1>2 DEF PassesArePast
  <2>1. passes \in Seq(Passes) /\ nextId \in Nat
    BY <1>2 DEF TypeOK, Handles
  <2>2. passes[k] \in Passes
    BY <2>1, ElementOfSeq
  <2>3. passes[k].running \in Int
    BY <2>2 DEF Passes, Handles
  <2>4. QED
    BY <2>1, <2>3 DEF PassesArePast
<1>7. FutureIsBlank'
  <2> SUFFICES ASSUME NEW k \in Handles, k >= nextId + 1
               PROVE  first'[k] = Free /\ fires[k] = 0 /\ k \notin cancelled
    BY <1>2 DEF FutureIsBlank
  <2>1. k >= nextId /\ k # nextId
    BY <1>2 DEF Handles
  <2>2. QED
    BY <1>2, <2>1 DEF FutureIsBlank, TypeOK
<1>8. HandlesAreUnique'
  <2>1. ASSUME NEW t \in Slots, slots'[t] # Free
        PROVE  slots'[t].id < nextId' /\ slots'[t].period = first'[slots'[t].id].period
    <3>1. CASE t = s
      BY <1>2, <1>3, <3>1 DEF Handles
    <3>2. CASE t # s
      BY <1>2, <1>4, <2>1, <3>2 DEF HandlesAreUnique, Handles
    <3>3. QED
      BY <3>1, <3>2
  <2>2. ASSUME NEW t \in Slots, NEW u \in Slots, slots'[t] # Free, slots'[u] # Free,
               slots'[t].id = slots'[u].id
        PROVE  t = u
    <3>1. CASE t # s /\ u # s
      BY <1>4, <2>2, <3>1 DEF HandlesAreUnique
    <3>2. CASE t = s /\ u # s
      BY <1>2, <1>3, <1>4, <2>2, <3>2 DEF Handles
    <3>3. CASE t # s /\ u = s
      BY <1>2, <1>3, <1>4, <2>2, <3>3 DEF Handles
    <3>4. QED
      BY <3>1, <3>2, <3>3
  <2>3. QED
    BY <2>1, <2>2 DEF HandlesAreUnique
<1>9. FirstIsKept'
  <2> SUFFICES ASSUME NEW t \in Slots, slots'[t] # Free
               PROVE  /\ first'[slots'[t].id] # Free
                      /\ first'[slots'[t].id].id = slots'[t].id
                      /\ first'[slots'[t].id].poll = slots'[t].poll
    BY DEF FirstIsKept
  <2>1. CASE t = s
    BY <1>3, <2>1
  <2>2. CASE t # s
    BY <1>4, <2>2 DEF FirstIsKept
  <2>3. QED
    BY <2>1, <2>2
<1>10. ActiveIsUnsettled'
  <2> SUFFICES ASSUME NEW t \in Slots, slots'[t] # Free PROVE (~Settled(slots[t].id))'
    BY DEF ActiveIsUnsettled
  <2>1. CASE t = s
    BY <1>2, <1>3, <1>5, <2>1 DEF Settled
  <2>2. CASE t # s
    BY <1>2, <1>4, <2>2 DEF ActiveIsUnsettled, Settled
  <2>3. QED
    BY <2>1, <2>2
<1>11. ActiveStandsOnBeat'
  <2> SUFFICES ASSUME NEW t \in Slots, slots'[t] # Free
               PROVE  \E n \in Nat : StandsOn(t, n)'
    BY DEF ActiveStandsOnBeat
  <2>1. CASE t = s
    <3>1. r.due = r.due + r.period * 0 /\ fires'[r.id] <= 0
      BY <1>2, <1>5 DEF Registrations
    <3>2. StandsOn(t, 0)'
      BY <1>3, <2>1, <3>1 DEF StandsOn
    <3>3. QED
      BY <3>2
  <2>2. CASE t # s
    BY <1>2, <1>4, <2>2 DEF ActiveStandsOnBeat, StandsOn
  <2>3. QED
    BY <2>1, <2>2
<1>12. OncePerBeat'
  <2> SUFFICES ASSUME NEW k \in Handles
               PROVE  IF first'[k] = Free THEN fires[k] = 0 ELSE fires[k] <= Beats(first'[k], now)
    BY <1>2 DEF OncePerBeat
  <2>1. CASE k = nextId
    <3>1. now \in Nat
      BY SizesAreNumbers DEF TypeOK
    <3>2. Beats(r, now) \in Nat
      BY <3>1, BeatsNeverDecrease
    <3>3. QED
      BY <1>3, <1>5, <2>1, <3>2
  <2>2. CASE k # nextId
    BY <1>2, <2>2 DEF OncePerBeat, TypeOK
  <2>3. QED
    BY <2>1, <2>2
<1>13. NoBurst'
  <2> SUFFICES ASSUME NEW k \in 1..Len(passes), NEW t \in Slots,
                      slots'[t] # Free, slots'[t].id = passes[k].running, ~slots'[t].poll
               PROVE  passes[k].now < slots'[t].due
    BY <1>2 DEF NoBurst
  <2>1. t # s
    <3>1. passes[k].running < nextId /\ nextId \in Nat
      BY <1>2 DEF PassesArePast, Handles
    <3>2. passes[k].running # nextId
      BY <3>1
    <3>3. QED
      BY <1>3, <3>2
  <2>2. QED
    BY <1>4, <2>1 DEF NoBurst
<1>14. QED
  BY <1>6, <1>7, <1>8, <1>9, <1>10, <1>11, <1>12, <1>13
(* What run_once leaves in the slot it calls back: the same registration,  *)
(* on a later beat if it is periodic, and nothing if it is a one-shot.     *)
LEMMA FiredSlot ==
    ASSUME NEW r \in Registrations, NEW t \in Nat, r.poll \/ r.due <= t
    PROVE  LET q == AfterFiring(r, t)
           IN  \/ r.poll /\ q = r
               \/ ~r.poll /\ r.period = 0 /\ q = Free
               \/ /\ ~r.poll /\ r.period > 0
                  /\ q \in Registrations
                  /\ q.id = r.id /\ q.period = r.period /\ q.poll = r.poll
                  /\ q.due > t
                  /\ \E k \in Nat : k >= 1 /\ q.due = r.due + r.period * k
<1>1. r.period \in Nat
  BY DEF Registrations
<1>2. CASE r.poll \/ r.period = 0
  BY <1>1, <1>2 DEF AfterFiring
<1>3. CASE ~r.poll /\ r.period # 0
  BY <1>1, <1>3, DeadlineMovesByBeats
<1>4. QED
  BY <1>2, <1>3

(* Beats of a registration and of the beats after it add up.               *)
LEMMA BeatsAddUp ==
    ASSUME NEW d \in Nat, NEW p \in Nat, NEW n \in Nat, NEW k \in Nat
    PROVE  (d + p * n) + p * k = d + p * (n + k) /\ n + k \in Nat
BY Z3

(* A call back uses up the beat the slot stood on, and no earlier one.     *)
LEMMA FireKeeps ==
    ASSUME LoopInv, TypeOK', FireSlot
    PROVE  LoopInv'
<1> USE DEF LoopInv
<1> DEFINE s == Top.at
           r == slots[s]
           t == Top.now
           q == AfterFiring(r, t)
<1>1. /\ s \in Slots /\ r \in Registrations /\ r # Free
      /\ t \in Nat /\ t <= now /\ now \in Nat
      /\ r.poll \/ r.due <= t
  <2>1. Visiting /\ IsDue(s) /\ Top \in Passes /\ Len(passes) \in 1..Len(passes)
    BY TopIsPass DEF FireSlot, Visiting, TypeOK
  <2>2. s \in Slots /\ t \in Nat /\ t <= now
    BY <2>1 DEF Visiting, Passes, Slots, PassesArePast, Top
  <2>3. r # Free /\ (r.poll \/ t >= r.due)
    BY <2>1 DEF IsDue
  <2>4. r \in Registrations
    BY <2>2, <2>3 DEF TypeOK
  <2>5. now \in Nat /\ r.due \in Nat
    BY <2>4, SizesAreNumbers DEF TypeOK, Registrations
  <2>6. QED
    BY <2>2, <2>3, <2>4, <2>5
<1>2. /\ slots' = [slots EXCEPT ![s] = q]
      /\ MoveOn(r.id)
      /\ fires' = IF r.poll THEN fires ELSE [fires EXCEPT ![r.id] = @ + 1]
      /\ UNCHANGED <<nextId, now, first, cancelled>>
  BY DEF FireSlot
<1>3. \/ r.poll /\ q = r
      \/ ~r.poll /\ r.period = 0 /\ q = Free
      \/ /\ ~r.poll /\ r.period > 0
         /\ q \in Registrations
         /\ q.id = r.id /\ q.period = r.period /\ q.poll = r.poll
         /\ q.due > t
         /\ \E k \in Nat : k >= 1 /\ q.due = r.due + r.period * k
  BY <1>1, FiredSlot
<1>4. /\ r.id \in Handles /\ r.due \in Nat /\ r.period \in Nat /\ r.poll \in BOOLEAN
      /\ r.id < nextId /\ r.period = first[r.id].period
      /\ first[r.id] # Free /\ first[r.id].poll = r.poll
      /\ first[r.id] \in Registrations
      /\ ~Settled(r.id)
  BY <1>1 DEF Registrations, HandlesAreUnique, FirstIsKept, ActiveIsUnsettled, TypeOK
<1>5. PICK n \in Nat : r.due = first[r.id].due + r.period * n /\ fires[r.id] <= n
  BY <1>1 DEF ActiveStandsOnBeat, StandsOn
<1>6. Visiting /\ t = passes[Len(passes)].now /\ Len(passes) \in 1..Len(passes)
  BY TopIsPass DEF FireSlot, Visiting, Top, TypeOK
<1> HIDE DEF s, r, t, q
<1>7. slots'[s] = q /\ \A u \in Slots : u # s => slots'[u] = slots[u]
  BY <1>1, <1>2 DEF TypeOK
<1>8. slots[s] = r
  BY DEF r
<1>9. \A u \in Slots : u # s /\ slots[u] # Free =>
         slots[u].id \in Handles /\ slots[u].id # r.id
  BY <1>1, <1>8 DEF HandlesAreUnique, TypeOK, Registrations
<1>10. /\ \A h \in Handles : h # r.id => fires'[h] = fires[h]
       /\ r.poll => fires' = fires
       /\ ~r.poll => fires'[r.id] = fires[r.id] + 1
       /\ fires[r.id] \in Nat
  BY <1>2, <1>4 DEF TypeOK
<1>11. /\ Len(passes') = Len(passes)
       /\ \A k \in 1..Len(passes) :
            /\ passes'[k].now = passes[k].now
            /\ passes'[k].running = IF k = Len(passes) THEN r.id ELSE passes[k].running
  BY <1>2, <1>4, <1>6, MoveOnType DEF TypeOK
<1>12. PassesArePast'
  BY <1>2, <1>4, <1>11 DEF PassesArePast
<1>13. FutureIsBlank'
  <2>1. \A k \in Handles : k >= nextId => k # r.id
    BY <1>4 DEF Handles, TypeOK
  <2>2. QED
    BY <1>2, <1>10, <2>1 DEF FutureIsBlank
<1>14. q # Free => /\ q.id = r.id /\ q.period = r.period /\ q.poll = r.poll
                   /\ r.poll \/ r.period > 0
  BY <1>3
<1>15. HandlesAreUnique'
  <2>1. \A u \in Slots : slots'[u] # Free =>
           slots[u] # Free /\ slots'[u].id = slots[u].id /\ slots'[u].period = slots[u].period
    BY <1>1, <1>7, <1>8, <1>14
  <2>2. QED
    BY <1>2, <2>1 DEF HandlesAreUnique
<1>16. FirstIsKept'
  <2>1. \A u \in Slots : slots'[u] # Free =>
           slots[u] # Free /\ slots'[u].id = slots[u].id /\ slots'[u].poll = slots[u].poll
    BY <1>1, <1>7, <1>8, <1>14
  <2>2. QED
    BY <1>2, <2>1 DEF FirstIsKept
<1>17. ActiveIsUnsettled'
  <2> SUFFICES ASSUME NEW u \in Slots, slots'[u] # Free PROVE (~Settled(slots[u].id))'
    BY DEF ActiveIsUnsettled
  <2>1. CASE u # s
    <3>1. ~Settled(slots[u].id) /\ fires'[slots[u].id] = fires[slots[u].id]
      BY <1>7, <1>9, <1>10, <2>1 DEF ActiveIsUnsettled
    <3>2. QED
      BY <1>2, <1>7, <2>1, <3>1 DEF Settled
  <2>2. CASE u = s
    <3>1. slots'[u].id = r.id /\ (r.poll \/ first[r.id].period > 0)
      BY <1>4, <1>7, <1>14, <2>2
    <3>2. QED
      BY <1>2, <1>4, <1>10, <3>1 DEF Settled
  <2>3. QED
    BY <2>1, <2>2
<1>18. ActiveStandsOnBeat'
  <2> SUFFICES ASSUME NEW u \in Slots, slots'[u] # Free PROVE \E m \in Nat : StandsOn(u, m)'
    BY DEF ActiveStandsOnBeat
  <2>1. CASE u # s
    BY <1>2, <1>7, <1>9, <1>10, <2>1 DEF ActiveStandsOnBeat, StandsOn
  <2>2. CASE u = s /\ r.poll
    <3>1. slots'[u] = r /\ fires' = fires
      BY <1>3, <1>7, <1>10, <2>2
    <3>2. StandsOn(u, n)'
      BY <1>2, <1>5, <3>1 DEF StandsOn
    <3>3. QED
      BY <3>2
  <2>3. CASE u = s /\ ~r.poll
    <3>1. PICK k \in Nat : k >= 1 /\ q.due = r.due + r.period * k
      BY <1>3, <1>7, <2>3
    <3>2. q.due = first[r.id].due + r.period * (n + k) /\ n + k \in Nat
      <4>1. first[r.id].due \in Nat
        BY <1>4 DEF Registrations
      <4>2. QED
        BY <1>4, <1>5, <3>1, <4>1, BeatsAddUp
    <3>3. fires'[r.id] <= n + k
      BY <1>5, <1>10, <2>3, <3>1
    <3>4. slots'[u] = q /\ q.id = r.id /\ q.period = r.period
      BY <1>7, <1>14, <2>3
    <3>5. StandsOn(u, n + k)'
      BY <1>2, <3>2, <3>3, <3>4 DEF StandsOn
    <3>6. QED
      BY <3>2, <3>5
  <2>4. QED
    BY <2>1, <2>2, <2>3
<1>19. OncePerBeat'
  <2> SUFFICES ASSUME NEW h \in Handles
               PROVE  IF first[h] = Free THEN fires'[h] = 0 ELSE fires'[h] <= Beats(first[h], now)
    BY <1>2 DEF OncePerBeat
  <2>1. CASE h # r.id \/ r.poll
    BY <1>10, <2>1 DEF OncePerBeat
  <2>2. CASE h = r.id /\ ~r.poll
    <3> DEFINE d == first[r.id].due
               p == r.period
    <3>1. d \in Nat /\ p \in Nat
      BY <1>4 DEF Registrations
    <3>2. d + p * n <= now /\ fires[r.id] <= n
      BY <1>1, <1>4, <1>5, <2>2
    <3>3. Beats(first[r.id], now) = IF now < d THEN 0 ELSE IF p = 0 THEN 1 ELSE (now - d) \div p + 1
      BY <1>4 DEF Beats
    <3>4. p = 0 => fires[r.id] = 0
      BY <1>4, <1>10 DEF Settled
    <3> HIDE DEF d, p
    <3>5. CASE p = 0
      <4>1. p * n = 0
        BY <3>5
      <4>2. d <= now
        BY <3>1, <3>2, <4>1
      <4>3. QED
        BY <1>1, <1>4, <1>10, <2>2, <3>1, <3>3, <3>4, <3>5, <4>2
    <3>6. CASE p > 0
      <4> DEFINE b == (now - d) \div p
      <4>1. d <= now /\ n <= b
        BY <1>1, <3>1, <3>2, <3>6, BeatsReached
      <4>2. b \in Nat
        BY <1>1, <3>1, <3>6, <4>1, BeatsGrow
      <4>3. Beats(first[r.id], now) = b + 1
        BY <1>1, <3>1, <3>3, <3>6, <4>1
      <4> HIDE DEF b
      <4>4. QED
        BY <1>4, <1>10, <2>2, <3>2, <4>1, <4>2, <4>3
    <3>7. QED
      BY <3>1, <3>5, <3>6
  <2>3. QED
    BY <2>1, <2>2
<1>20. NoBurst'
  <2> SUFFICES ASSUME NEW k \in 1..Len(passes), NEW u \in Slots,
                      slots'[u] # Free, slots'[u].id = passes'[k].running, ~slots'[u].poll
               PROVE  passes[k].now < slots'[u].due
    BY <1>11 DEF NoBurst
  <2>1. CASE u # s
    <3>1. slots'[u] = slots[u] /\ slots[u].id # r.id
      BY <1>7, <1>9, <2>1
    <3>2. passes'[k].running = passes[k].running
      BY <1>11, <3>1
    <3>3. QED
      BY <3>1, <3>2 DEF NoBurst
  <2>2. CASE u = s
    <3>1. slots'[u] = q /\ q.id = r.id /\ ~r.poll /\ q.due > t /\ q \in Registrations
      BY <1>3, <1>7, <1>14, <2>2
    <3>2. CASE k = Len(passes)
      BY <1>1, <1>6, <3>1, <3>2 DEF Registrations
    <3>3. CASE k # Len(passes)
      <4>1. passes[k].running = r.id
        BY <1>11, <3>1, <3>3
      <4>2. passes[k].now < r.due
        BY <1>1, <1>8, <3>1, <4>1 DEF NoBurst
      <4>3. passes \in Seq(Passes)
        BY DEF TypeOK
      <4>4. passes[k] \in Passes
        BY <4>3, ElementOfSeq
      <4>5. passes[k].now \in Nat
        BY <4>4 DEF Passes
      <4>6. QED
        BY <1>1, <1>4, <3>1, <4>2, <4>5 DEF Registrations
    <3>4. QED
      BY <3>2, <3>3
  <2>3. QED
    BY <2>1, <2>2
<1>21. QED
  BY <1>12, <1>13, <1>15, <1>16, <1>17, <1>18, <1>19, <1>20

-----------------------------------------------------------------------------
(***************************************************************************)
(* Theorems                                                                *)
(***************************************************************************)

LEMMA LoopStep == LoopInv /\ [Next]_vars => LoopInv'
<1> SUFFICES ASSUME LoopInv, [Next]_vars PROVE LoopInv'
  OBVIOUS
<1>1. TypeOK /\ PassesArePast
  BY DEF LoopInv
<1>2. TypeOK'
  BY <1>1, TypeStep
<1>3. QED
  BY <1>1, <1>2, StepShape, RegisterKeeps, CancelKeeps, FireKeeps, TickKeeps,
     PassesMoveKeeps DEF RegisterSome

THEOREM LoopInvHolds == Spec => []LoopInv
BY InitLoop, LoopStep, PTL DEF Spec

(* Types hold for every size of the table.                                 *)
THEOREM TypeCorrect == Spec => []TypeOK
BY LoopInvHolds, PTL DEF LoopInv

(* A handle names one registration for ever, whatever is cancelled,        *)
(* reused or nested in between.                                            *)
THEOREM HandlesAreAlwaysUnique == Spec => []HandlesAreUnique
BY LoopInvHolds, PTL DEF LoopInv

(* No timer is called back more often than its beats have gone by.         *)
THEOREM AlwaysOncePerBeat == Spec => []OncePerBeat
BY LoopInvHolds, PTL DEF LoopInv

(* A loop that was held up calls no timer back in a burst.                 *)
THEOREM NeverBursts == Spec => []NoBurst
BY LoopInvHolds, PTL DEF LoopInv

LEMMA OnBeatIsNoDrift == LoopInv => NoDrift
<1> SUFFICES ASSUME LoopInv, NEW s \in Slots, slots[s] # Free, slots[s].period > 0
             PROVE  (slots[s].due - first[slots[s].id].due) % slots[s].period = 0
  BY DEF NoDrift
<1> DEFINE p == slots[s].period
           d == first[slots[s].id].due
<1>1. PICK n \in Nat : slots[s].due = d + p * n
  BY DEF LoopInv, ActiveStandsOnBeat, StandsOn
<1>2. p \in Nat /\ p > 0 /\ d \in Nat
  BY DEF LoopInv, TypeOK, Registrations, FirstIsKept
<1> HIDE DEF p, d
<1>3. ((d + p * n) - d) % p = 0
  BY <1>2, Z3
<1>4. QED
  BY <1>1, <1>3 DEF p, d

(* A periodic timer never drifts off the beat of its registration.         *)
THEOREM NeverDrifts == Spec => []NoDrift
BY LoopInvHolds, OnBeatIsNoDrift, PTL

LEMMA StepIsSilent ==
    ASSUME LoopInv, FireSlot
    PROVE  ~Settled(Top'.running)
<1>1. Visiting /\ IsDue(Top.at) /\ MoveOn(slots[Top.at].id)
  BY DEF FireSlot
<1>2. Top \in Passes /\ Len(passes) \in 1..Len(passes) /\ passes \in Seq(Passes)
  BY <1>1, TopIsPass DEF Visiting, LoopInv, TypeOK
<1>3. Top'.running = slots[Top.at].id
  BY <1>1, <1>2 DEF MoveOn, Top, Passes
<1>4. Top.at \in Slots /\ slots[Top.at] # Free
  BY <1>1, <1>2 DEF Visiting, IsDue, Passes, Slots
<1> QED
  BY <1>3, <1>4 DEF LoopInv, ActiveIsUnsettled

(* The callback of a settled handle, timer or poll, never starts again.    *)
THEOREM SettledStaysSilent == Spec => SettledIsSilent
<1>1. LoopInv /\ [Next]_vars => [FireSlot => ~Settled(Top'.running)]_vars
  BY StepIsSilent
<1>2. QED
  BY <1>1, LoopInvHolds, PTL DEF Spec, SettledIsSilent
=============================================================================
