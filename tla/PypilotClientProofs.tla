------------------------ MODULE PypilotClientProofs ------------------------
(* The client's properties for every number of connections and calls, and  *)
(* every size of its two tables.                                           *)
EXTENDS PypilotClient, FiniteSetTheorems, WellFoundedInduction, TLAPS

(* Among slots there is a first one.                                       *)
LEMMA FirstExists ==
    ASSUME NEW S, S \subseteq Nat, S # {}
    PROVE  \E i \in S : IsFirst(i, S)
<1>1. PICK i \in S : \A j \in S : ~(<<j, i>> \in OpToRel(<, Nat))
  BY NatLessThanWellFounded, WFMin
<1>2. \A j \in S : ~(j < i)
  BY <1>1 DEF OpToRel
<1>3. QED
  BY <1>2 DEF IsFirst

LEMMA LineSlotsAreNumbers == LineSlots \subseteq Nat /\ WatchSlots \subseteq Nat
BY SizesAreNumbers DEF LineSlots, WatchSlots

-----------------------------------------------------------------------------
(* What a write and a place in the queue do to the types.                  *)
LEMMA TransmitType ==
    ASSUME TypeOK, NEW line \in Lines, NEW outcome, Transmit(line, outcome)
    PROVE  /\ DOMAIN told' = Subjects
           /\ \A s \in Subjects : told'[s] \in Contents(s) \cup {None}
           /\ fragment' \in BOOLEAN /\ healthy' \in BOOLEAN
           /\ sent' \subseteq Calls
           /\ valid' \subseteq Connections
<1>1. /\ line.subject \in Subjects /\ line.content \in Contents(line.subject)
      /\ {line.call} \ {0} \subseteq Calls
  BY SizesAreNumbers DEF Lines, Calls
<1>2. DOMAIN told' = Subjects /\ \A s \in Subjects : told'[s] \in Contents(s) \cup {None}
  BY <1>1 DEF TypeOK, Transmit
<1>3. fragment' \in BOOLEAN /\ healthy' \in BOOLEAN
  BY Zenon DEF TypeOK, Transmit
<1>4. sent' \subseteq Calls /\ valid' \subseteq Connections
  BY <1>1 DEF TypeOK, Transmit
<1>5. QED
  BY <1>2, <1>3, <1>4

LEMMA EnqueueType ==
    ASSUME TypeOK, NEW line \in Lines, Enqueue(line)
    PROVE  pending' \in [LineSlots -> Lines \cup {None}] /\ dropped' \subseteq Calls
<1>1. {line.call} \ {0} \subseteq Calls
  BY SizesAreNumbers DEF Lines, Calls
<1>2. QED
  BY <1>1 DEF TypeOK, Enqueue

LEMMA QueueOrWriteType ==
    ASSUME TypeOK, NEW line \in Lines, NEW outcome, QueueOrWrite(line, outcome)
    PROVE  /\ pending' \in [LineSlots -> Lines \cup {None}] /\ dropped' \subseteq Calls
           /\ DOMAIN told' = Subjects
           /\ \A s \in Subjects : told'[s] \in Contents(s) \cup {None}
           /\ fragment' \in BOOLEAN /\ healthy' \in BOOLEAN /\ faultless' \in BOOLEAN
           /\ sent' \subseteq Calls
           /\ valid' \subseteq Connections
<1>1. CASE Connected
  <2>1. Transmit(line, outcome)
    BY <1>1 DEF QueueOrWrite
  <2>2. pending' \in [LineSlots -> Lines \cup {None}] /\ dropped' \subseteq Calls
    BY <1>1, EnqueueType DEF QueueOrWrite, TypeOK
  <2>3. faultless' \in BOOLEAN
    BY <1>1, Zenon DEF QueueOrWrite, TypeOK
  <2>4. QED
    BY <2>1, <2>2, <2>3, TransmitType
<1>2. CASE ~Connected
  <2>1. Enqueue(line) /\ UNCHANGED <<stream, sent, valid>>
    BY <1>2 DEF QueueOrWrite
  <2>2. faultless' \in BOOLEAN
    BY <1>2, Zenon DEF QueueOrWrite, TypeOK
  <2>3. QED
    BY <2>1, <2>2, EnqueueType DEF TypeOK, stream
<1>3. QED
  BY <1>1, <1>2

LEMMA CallLineIsLine ==
    ASSUME TypeOK, calls < MaxCalls, NEW s \in Subjects, NEW content \in Contents(s)
    PROVE  CallLine(s, content) \in Lines /\ calls + 1 \in 1..MaxCalls
<1>1. calls + 1 \in 1..MaxCalls
  BY SizesAreNumbers DEF TypeOK
<1>2. content \in Periods \cup {Off} \cup Values
  BY DEF Contents
<1>3. QED
  BY <1>1, <1>2 DEF CallLine, Lines

LEMMA ReplayLineIsLine ==
    ASSUME TypeOK, task = "replay", watches[at] # None
    PROVE  ReplayLine \in Lines /\ watches[at] \in Remembered /\ at \in WatchSlots
<1>1. at \in WatchSlots /\ watches[at] \in Remembered
  BY DEF TypeOK
<1>2. /\ WatchOf(watches[at].name) \in Subjects
      /\ watches[at].period \in Contents(WatchOf(watches[at].name))
      /\ watches[at].period \in Periods
  BY <1>1 DEF Remembered, WatchOf, Subjects, Contents
<1>3. QED
  BY <1>1, <1>2, SizesAreNumbers DEF ReplayLine, Lines

(* Slots of the two tables that a handler moves along.                     *)
LEMMA NextSlotType ==
    ASSUME TypeOK
    PROVE  /\ task = "flush" /\ AfterFlush
                => \/ task' = "flush" /\ at' \in LineSlots
                   \/ task' = "replay" /\ at' \in WatchSlots
           /\ task = "replay" /\ AfterReplay
                => \/ task' = "replay" /\ at' \in WatchSlots
                   \/ task' = "idle" /\ at' = 0
BY SizesAreNumbers DEF TypeOK, AfterFlush, AfterReplay, LineSlots, WatchSlots

(* A call, whatever it does to the remembered watches.                     *)
LEMMA CallType ==
    ASSUME TypeOK, NEW s \in Subjects, NEW content \in Contents(s),
           NEW outcome, Call(s, content, outcome),
           watches' \in [WatchSlots -> Remembered \cup {None}]
    PROVE  TypeOK'
<1>1. CallLine(s, content) \in Lines /\ calls' \in 0..MaxCalls
  BY CallLineIsLine, SizesAreNumbers DEF Call
<1>2. QueueOrWrite(CallLine(s, content), outcome)
  BY DEF Call
<1>3. /\ pending' \in [LineSlots -> Lines \cup {None}] /\ dropped' \subseteq Calls
      /\ DOMAIN told' = Subjects
      /\ \A x \in Subjects : told'[x] \in Contents(x) \cup {None}
      /\ fragment' \in BOOLEAN /\ healthy' \in BOOLEAN /\ faultless' \in BOOLEAN
      /\ sent' \subseteq Calls
      /\ valid' \subseteq Connections
  BY <1>1, <1>2, QueueOrWriteType
<1>4. DOMAIN asked' = Subjects /\ \A x \in Subjects : asked'[x] \in Contents(x) \cup {None}
  BY DEF Call, TypeOK
<1>5. /\ UNCHANGED <<connection, opened, lineEvent, events, task, at, popped>>
  BY DEF Call
<1>6. QED
  BY <1>1, <1>3, <1>4, <1>5 DEF TypeOK

LEMMA TypeStep ==
    ASSUME TypeOK, [Next]_vars
    PROVE  TypeOK'
<1>1. ASSUME NEW n \in Names, NEW p \in Periods, NEW outcome, Watch(n, p, outcome)
      PROVE  TypeOK'
  <2>1. [name |-> n, period |-> p] \in Remembered
    BY DEF Remembered
  <2>2. watches' \in [WatchSlots -> Remembered \cup {None}]
    BY <1>1, <2>1 DEF Watch, Remember, TypeOK
  <2>3. WatchOf(n) \in Subjects /\ p \in Contents(WatchOf(n))
    BY DEF WatchOf, Subjects, Contents
  <2>4. QED
    BY <1>1, <2>2, <2>3, CallType DEF Watch
<1>2. ASSUME NEW n \in Names, NEW outcome, Unwatch(n, outcome)
      PROVE  TypeOK'
  <2>1. watches' \in [WatchSlots -> Remembered \cup {None}]
    BY <1>2 DEF Unwatch, Forget, TypeOK
  <2>2. WatchOf(n) \in Subjects /\ Off \in Contents(WatchOf(n))
    BY DEF WatchOf, Subjects, Contents
  <2>3. QED
    BY <1>2, <2>1, <2>2, CallType DEF Unwatch
<1>3. ASSUME NEW n \in Names, NEW v \in Values, NEW outcome, Set(n, v, outcome)
      PROVE  TypeOK'
  <2>1. ValueOf(n) \in Subjects /\ v \in Contents(ValueOf(n))
    BY DEF ValueOf, Subjects, Contents
  <2>2. watches' \in [WatchSlots -> Remembered \cup {None}]
    BY <1>3 DEF Set, TypeOK
  <2>3. QED
    BY <1>3, <2>1, <2>2, CallType DEF Set
<1>4. CASE PopOutgoing
  <2>1. PICK i \in LineSlots : /\ IsFirst(i, LineSlots \ FreeLines)
                               /\ popped' = popped \cup ({pending[i].call} \ {0})
                               /\ pending' = [pending EXCEPT ![i] = None]
    BY <1>4 DEF PopOutgoing
  <2>2. pending[i] \in Lines
    BY <2>1 DEF IsFirst, FreeLines, TypeOK
  <2>3. {pending[i].call} \ {0} \subseteq Calls
    BY <2>2, SizesAreNumbers DEF Lines, Calls
  <2>4. QED
    BY <1>4, <2>1, <2>3 DEF PopOutgoing, TypeOK, link, stream
<1>5. ASSUME NEW room \in BOOLEAN, OnConnect(room) PROVE TypeOK'
  <2>1. opened + 1 \in Connections /\ opened' \in 0..MaxConnections
    BY <1>5, SizesAreNumbers DEF OnConnect, Connections, TypeOK
  <2>2. 1 \in LineSlots
    BY SizesAreNumbers DEF LineSlots
  <2>3. /\ connection' \in Connections \cup {None} /\ valid' \subseteq Connections
        /\ lineEvent' \in Connections \cup {0} /\ events' \subseteq Connections
    BY <1>5, <2>1 DEF OnConnect, TypeOK
  <2>4. DOMAIN told' = Subjects /\ \A s \in Subjects : told'[s] \in Contents(s) \cup {None}
    BY <1>5 DEF OnConnect
  <2>5. QED
    BY <1>5, <2>1, <2>2, <2>3, <2>4 DEF OnConnect, TypeOK, tables, history
<1>6. CASE FlushEmpty
  BY <1>6, NextSlotType DEF FlushEmpty, TypeOK, link, tables, stream, history
<1>7. ASSUME NEW outcome, FlushLine(outcome) PROVE TypeOK'
  <2>1. pending[at] \in Lines /\ at \in LineSlots
    BY <1>7 DEF FlushLine, TypeOK
  <2>2. pending' \in [LineSlots -> Lines \cup {None}]
    BY <1>7 DEF FlushLine, TypeOK
  <2>3. faultless' \in BOOLEAN
    BY <1>7, Zenon DEF FlushLine, TypeOK
  <2>4. /\ DOMAIN told' = Subjects
        /\ \A s \in Subjects : told'[s] \in Contents(s) \cup {None}
        /\ fragment' \in BOOLEAN /\ healthy' \in BOOLEAN
        /\ sent' \subseteq Calls
        /\ valid' \subseteq Connections
    BY <1>7, <2>1, TransmitType DEF FlushLine
  <2>5. \/ task' = "flush" /\ at' \in LineSlots
        \/ task' = "replay" /\ at' \in WatchSlots
    BY <1>7, NextSlotType DEF FlushLine
  <2>6. QED
    BY <1>7, <2>2, <2>3, <2>4, <2>5 DEF FlushLine, TypeOK
<1>8. CASE ReplayEmpty
  BY <1>8, NextSlotType DEF ReplayEmpty, TypeOK, link, tables, stream, history
<1>9. ASSUME NEW outcome, ReplayWatch(outcome) PROVE TypeOK'
  <2>1. ReplayLine \in Lines
    BY <1>9, ReplayLineIsLine DEF ReplayWatch
  <2>2. \/ task' = "replay" /\ at' \in WatchSlots
        \/ task' = "idle" /\ at' = 0
    BY <1>9, NextSlotType DEF ReplayWatch
  <2>3. /\ pending' \in [LineSlots -> Lines \cup {None}] /\ dropped' \subseteq Calls
        /\ DOMAIN told' = Subjects
        /\ \A s \in Subjects : told'[s] \in Contents(s) \cup {None}
        /\ fragment' \in BOOLEAN /\ healthy' \in BOOLEAN /\ faultless' \in BOOLEAN
        /\ sent' \subseteq Calls
        /\ valid' \subseteq Connections
    BY <1>9, <2>1, QueueOrWriteType DEF ReplayWatch
  <2>4. QED
    BY <1>9, <2>2, <2>3 DEF ReplayWatch, TypeOK
<1>10. ASSUME NEW c \in Connections, LoseConnection(c) \/ OnClose(c) PROVE TypeOK'
  BY <1>10 DEF LoseConnection, OnClose, Detach, TypeOK, tables, stream, history
<1>11. CASE OnError \/ Close
  BY <1>11 DEF OnError, Close, Detach, TypeOK, tables, stream, history
<1>12. CASE UNCHANGED vars
  BY <1>12 DEF vars, link, tables, stream, history, TypeOK
<1>13. QED
  BY <1>1, <1>2, <1>3, <1>4, <1>5, <1>6, <1>7, <1>8, <1>9, <1>10, <1>11, <1>12
     DEF Next, Handler

(* Every variable keeps its type, whatever is called and whatever the      *)
(* connections do.                                                         *)
THEOREM TypeCorrect == Spec => []TypeOK
<1>1. Init => TypeOK
  <2> SUFFICES ASSUME Init PROVE TypeOK
    OBVIOUS
  <2>1. /\ opened \in 0..MaxConnections /\ calls \in 0..MaxCalls
        /\ lineEvent \in Connections \cup {0}
    BY SizesAreNumbers DEF Init
  <2>2. /\ DOMAIN asked = Subjects /\ DOMAIN told = Subjects
        /\ \A s \in Subjects : asked[s] = None /\ told[s] = None
    BY DEF Init
  <2>3. /\ watches \in [WatchSlots -> Remembered \cup {None}]
        /\ pending \in [LineSlots -> Lines \cup {None}]
    BY DEF Init
  <2>4. QED
    BY <2>1, <2>2, <2>3 DEF Init, TypeOK
<1>2. TypeOK /\ [Next]_vars => TypeOK'
  BY TypeStep
<1>3. QED
  BY <1>1, <1>2, PTL DEF Spec

-----------------------------------------------------------------------------
LEMMA LeakStep ==
    ASSUME TypeOK, NoEventLeaks, [Next]_vars
    PROVE  NoEventLeaks'
<1> USE DEF NoEventLeaks
<1>1. CASE UNCHANGED <<connection, lineEvent, events>>
  BY <1>1
<1>2. ASSUME NEW room \in BOOLEAN, OnConnect(room) PROVE NoEventLeaks'
  <2>1. opened + 1 \in Connections
    BY <1>2, SizesAreNumbers DEF OnConnect, Connections, TypeOK
  <2>2. connection' # None
    BY <1>2, <2>1, NoneIsNothing DEF OnConnect
  <2>3. QED
    BY <1>2, <2>2 DEF OnConnect
<1>3. CASE Detach
  BY <1>3 DEF Detach
<1>4. CASE Handler
  BY <1>1, <1>4 DEF Handler, FlushEmpty, ReplayEmpty, FlushLine, ReplayWatch, link
<1>5. CASE UNCHANGED vars
  BY <1>1, <1>5 DEF vars, link
<1>6. ASSUME NEW n, NEW outcome, \/ \E p \in Periods : Watch(n, p, outcome)
                                 \/ Unwatch(n, outcome)
                                 \/ \E v \in Values : Set(n, v, outcome)
      PROVE  NoEventLeaks'
  BY <1>1, <1>6 DEF Watch, Unwatch, Set, Call
<1>7. CASE PopOutgoing
  BY <1>1, <1>7 DEF PopOutgoing, link
<1>8. ASSUME NEW c, LoseConnection(c) \/ OnClose(c) PROVE NoEventLeaks'
  BY <1>1, <1>3, <1>8 DEF LoseConnection, OnClose
<1>9. CASE OnError \/ Close
  BY <1>3, <1>9 DEF OnError, Close
<1>10. QED
  BY <1>2, <1>4, <1>5, <1>6, <1>7, <1>8, <1>9 DEF Next

(* No poll is ever left behind in the event loop's table, in whatever      *)
(* order connections come, fail and report that they are gone.             *)
THEOREM NeverLeaksEvents == Spec => []NoEventLeaks
<1>1. Init => NoEventLeaks
  BY DEF Init, NoEventLeaks
<1>2. TypeOK /\ NoEventLeaks /\ [Next]_vars => NoEventLeaks'
  BY LeakStep
<1>3. QED
  BY <1>1, <1>2, TypeCorrect, PTL DEF Spec

-----------------------------------------------------------------------------
(***************************************************************************)
(* Where a call's line is.  Waiting(c) are its slots of the queue; a call  *)
(* made is in exactly one of the four places and waits in one slot, and    *)
(* nothing is anywhere that was not called for.                            *)
(***************************************************************************)
Waiting(c) == {i \in LineSlots : pending[i] # None /\ pending[i].call = c}

Placed(c) ==
    /\ \A i, j \in Waiting(c) : i = j
    /\ \/ Waiting(c) # {} /\ c \notin sent /\ c \notin dropped /\ c \notin popped
       \/ Waiting(c) = {} /\ c \in sent /\ c \notin dropped /\ c \notin popped
       \/ Waiting(c) = {} /\ c \notin sent /\ c \in dropped /\ c \notin popped
       \/ Waiting(c) = {} /\ c \notin sent /\ c \notin dropped /\ c \in popped

Unmade(c) == Waiting(c) = {} /\ c \notin sent /\ c \notin dropped /\ c \notin popped

AllPlaced == \A c \in Calls : IF c <= calls THEN Placed(c) ELSE Unmade(c)

(* A line with a number that is nowhere yet comes to be in one place.      *)
LEMMA EnqueuePlaces ==
    ASSUME TypeOK, NEW line \in Lines, Enqueue(line), UNCHANGED <<sent, popped>>,
           line.call # 0, Unmade(line.call)
    PROVE  Placed(line.call)'
<1>1. FreeLines \subseteq Nat
  BY LineSlotsAreNumbers DEF FreeLines
<1>2. CASE FreeLines = {}
  <2>1. Waiting(line.call)' = {}
    BY <1>2 DEF Enqueue, IsFirst, Waiting, Unmade, TypeOK
  <2>2. QED
    BY <1>2, <2>1 DEF Enqueue, Unmade, Placed
<1>3. CASE FreeLines # {}
  <2>1. PICK i \in FreeLines : IsFirst(i, FreeLines)
    BY <1>1, <1>3, FirstExists
  <2>2. line # None /\ i \in LineSlots
    BY <2>1, NoneIsNothing DEF FreeLines
  <2>3. \A j \in LineSlots : IsFirst(j, FreeLines) => j = i
    BY <1>1, <2>1 DEF IsFirst
  <2>4. Waiting(line.call)' = {i}
    BY <2>1, <2>2, <2>3 DEF Enqueue, Waiting, Unmade
  <2>5. QED
    BY <1>3, <2>4 DEF Enqueue, Unmade, Placed
<1>4. QED
  BY <1>2, <1>3

(* Another call's place, and the place of none, are left alone.            *)
LEMMA EnqueueKeeps ==
    ASSUME TypeOK, NEW line, line # None, Enqueue(line), NEW c \in Calls, c # line.call
    PROVE  Waiting(c)' = Waiting(c) /\ (c \in dropped' <=> c \in dropped)
<1>1. Waiting(c)' = Waiting(c)
  BY DEF Enqueue, Waiting, IsFirst, FreeLines
<1>2. QED
  BY <1>1 DEF Enqueue

LEMMA TransmitKeeps ==
    ASSUME NEW line, NEW outcome, Transmit(line, outcome), NEW c, c # line.call
    PROVE  c \in sent' <=> c \in sent
BY DEF Transmit

LEMMA QueueOrWritePlaces ==
    ASSUME TypeOK, NEW line \in Lines, NEW outcome, QueueOrWrite(line, outcome),
           UNCHANGED popped
    PROVE  /\ line.call # 0 /\ Unmade(line.call) => Placed(line.call)'
           /\ \A c \in Calls : c # line.call =>
                /\ Waiting(c)' = Waiting(c)
                /\ c \in sent' <=> c \in sent
                /\ c \in dropped' <=> c \in dropped
<1>1. line # None
  BY NoneIsNothing
<1>2. CASE Connected /\ outcome = "whole"
  <2>1. Transmit(line, outcome) /\ UNCHANGED <<pending, dropped>>
    BY <1>2 DEF QueueOrWrite
  <2>2. ASSUME line.call # 0, Unmade(line.call) PROVE Placed(line.call)'
    <3>1. line.call \in sent'
      BY <1>2, <2>1, <2>2 DEF Transmit
    <3>2. Waiting(line.call)' = {}
      BY <2>1, <2>2 DEF Waiting, Unmade
    <3>3. QED
      BY <2>1, <2>2, <3>1, <3>2 DEF Placed, Unmade
  <2>3. \A c : Waiting(c)' = Waiting(c)
    BY <2>1 DEF Waiting
  <2>4. QED
    BY <2>1, <2>2, <2>3, TransmitKeeps
<1>3. CASE Connected /\ outcome # "whole"
  <2>1. Transmit(line, outcome) /\ Enqueue(line)
    BY <1>3 DEF QueueOrWrite
  <2>2. sent' = sent
    BY <1>3, <2>1 DEF Transmit
  <2>3. QED
    BY <1>1, <2>1, <2>2, EnqueuePlaces, EnqueueKeeps
<1>4. CASE ~Connected
  <2>1. Enqueue(line) /\ sent' = sent
    BY <1>4 DEF QueueOrWrite
  <2>2. QED
    BY <1>1, <2>1, EnqueuePlaces, EnqueueKeeps
<1>5. QED
  BY <1>2, <1>3, <1>4

(* A line that leaves the queue goes to one other place.                   *)
LEMMA LeavePlaces ==
    ASSUME TypeOK, AllPlaced, NEW i \in LineSlots, pending[i] # None,
           pending' = [pending EXCEPT ![i] = None],
           UNCHANGED <<calls, dropped>>,
           \/ sent' = sent \cup ({pending[i].call} \ {0}) /\ popped' = popped
           \/ popped' = popped \cup ({pending[i].call} \ {0}) /\ sent' = sent
    PROVE  AllPlaced'
<1> DEFINE d == pending[i].call
<1>1. pending' = [j \in LineSlots |-> IF j = i THEN None ELSE pending[j]]
  BY DEF TypeOK
<1> SUFFICES ASSUME NEW c \in Calls
             PROVE  (IF c <= calls THEN Placed(c) ELSE Unmade(c))'
  BY DEF AllPlaced
<1>2. IF c <= calls THEN Placed(c) ELSE Unmade(c)
  BY DEF AllPlaced
<1>3. c # 0
  BY DEF Calls
<1>4. CASE c # d
  <2>1. Waiting(c)' = Waiting(c)
    BY <1>1, <1>4 DEF Waiting
  <2>2. (c \in sent' <=> c \in sent) /\ (c \in popped' <=> c \in popped)
    BY <1>4
  <2>3. QED
    BY <1>2, <2>1, <2>2 DEF Placed, Unmade
<1>5. CASE c = d
  <2>1. i \in Waiting(c)
    BY <1>5 DEF Waiting
  <2>2. c <= calls /\ Placed(c)
    BY <1>2, <2>1 DEF Unmade
  <2>3. Waiting(c)' = {}
    <3>1. Waiting(c) = {i}
      BY <2>1, <2>2 DEF Placed
    <3>2. QED
      BY <1>1, <3>1 DEF Waiting
  <2>4. \/ c \in sent' /\ c \notin popped'
        \/ c \notin sent' /\ c \in popped'
    BY <1>3, <1>5, <2>1, <2>2 DEF Placed
  <2>5. Placed(c)'
    BY <2>1, <2>2, <2>3, <2>4 DEF Placed
  <2>6. QED
    BY <2>2, <2>5
<1>6. QED
  BY <1>4, <1>5

LEMMA CallPlaces ==
    ASSUME TypeOK, AllPlaced, NEW s \in Subjects, NEW content \in Contents(s),
           NEW outcome, Call(s, content, outcome)
    PROVE  AllPlaced'
<1>1. /\ calls + 1 \in Calls /\ calls' = calls + 1
      /\ calls \in Nat /\ popped' = popped
  BY CallLineIsLine, SizesAreNumbers DEF Call, Calls, TypeOK
<1>2. PICK line \in Lines : line = CallLine(s, content)
  BY CallLineIsLine DEF Call
<1>3. QueueOrWrite(line, outcome) /\ line.call = calls + 1
  BY <1>2 DEF Call, CallLine
<1>4. Unmade(line.call)
  BY <1>1, <1>3 DEF AllPlaced
<1>5. Placed(line.call)'
  BY <1>1, <1>3, <1>4, QueueOrWritePlaces
<1>6. ASSUME NEW c \in Calls, c # line.call
      PROVE  (IF c <= calls THEN Placed(c) ELSE Unmade(c))'
  <2>1. /\ Waiting(c)' = Waiting(c)
        /\ c \in sent' <=> c \in sent
        /\ c \in dropped' <=> c \in dropped
    BY <1>1, <1>3, <1>6, QueueOrWritePlaces
  <2>2. c <= calls' <=> c <= calls
    BY <1>1, <1>3, <1>6 DEF Calls
  <2>3. QED
    BY <1>1, <2>1, <2>2 DEF AllPlaced, Placed, Unmade
<1>7. QED
  BY <1>1, <1>3, <1>5, <1>6 DEF AllPlaced

LEMMA PlacedStep ==
    ASSUME TypeOK, AllPlaced, [Next]_vars
    PROVE  AllPlaced'
<1>1. CASE UNCHANGED <<pending, calls, sent, dropped, popped>>
  BY <1>1 DEF AllPlaced, Placed, Unmade, Waiting
<1>2. ASSUME NEW n \in Names, NEW outcome, \/ \E p \in Periods : Watch(n, p, outcome)
                                           \/ Unwatch(n, outcome)
                                           \/ \E v \in Values : Set(n, v, outcome)
      PROVE  AllPlaced'
  <2>1. /\ WatchOf(n) \in Subjects /\ Contents(WatchOf(n)) = Periods \cup {Off}
        /\ ValueOf(n) \in Subjects /\ Contents(ValueOf(n)) = Values
    BY DEF WatchOf, ValueOf, Subjects, Contents
  <2>2. QED
    BY <1>2, <2>1, CallPlaces DEF Watch, Unwatch, Set
<1>3. CASE PopOutgoing
  <2>1. PICK i \in LineSlots : /\ IsFirst(i, LineSlots \ FreeLines)
                               /\ popped' = popped \cup ({pending[i].call} \ {0})
                               /\ pending' = [pending EXCEPT ![i] = None]
    BY <1>3 DEF PopOutgoing
  <2>2. pending[i] # None
    BY <2>1 DEF IsFirst, FreeLines
  <2>3. UNCHANGED <<calls, sent, dropped>>
    BY <1>3 DEF PopOutgoing
  <2>4. QED
    BY <2>1, <2>2, <2>3, LeavePlaces
<1>4. ASSUME NEW room, OnConnect(room) PROVE AllPlaced'
  BY <1>1, <1>4 DEF OnConnect, tables, history
<1>5. CASE FlushEmpty \/ ReplayEmpty
  BY <1>1, <1>5 DEF FlushEmpty, ReplayEmpty, tables, history
<1>6. ASSUME NEW outcome, FlushLine(outcome) PROVE AllPlaced'
  <2>1. at \in LineSlots /\ pending[at] # None /\ UNCHANGED <<calls, dropped, popped>>
    BY <1>6 DEF FlushLine, TypeOK
  <2>2. CASE outcome = "whole"
    <3>1. /\ sent' = sent \cup ({pending[at].call} \ {0})
          /\ pending' = [pending EXCEPT ![at] = None]
      BY <1>6, <2>2 DEF FlushLine, Transmit
    <3>2. QED
      BY <2>1, <3>1, LeavePlaces
  <2>3. CASE outcome # "whole"
    BY <1>1, <1>6, <2>1, <2>3 DEF FlushLine, Transmit
  <2>4. QED
    BY <2>2, <2>3
<1>7. ASSUME NEW outcome, ReplayWatch(outcome) PROVE AllPlaced'
  <2>1. /\ ReplayLine \in Lines /\ QueueOrWrite(ReplayLine, outcome)
        /\ UNCHANGED <<calls, popped>>
    BY <1>7, ReplayLineIsLine DEF ReplayWatch
  <2>2. ReplayLine.call = 0
    BY DEF ReplayLine
  <2>3. \A c \in Calls : /\ Waiting(c)' = Waiting(c)
                         /\ c \in sent' <=> c \in sent
                         /\ c \in dropped' <=> c \in dropped
    BY <2>1, <2>2, QueueOrWritePlaces DEF Calls
  <2>4. QED
    BY <2>1, <2>3 DEF AllPlaced, Placed, Unmade
<1>8. ASSUME NEW c, LoseConnection(c) \/ OnClose(c) PROVE AllPlaced'
  BY <1>1, <1>8 DEF LoseConnection, OnClose, tables, history
<1>9. CASE OnError \/ Close \/ UNCHANGED vars
  BY <1>1, <1>9 DEF OnError, Close, tables, history, vars
<1>10. QED
  BY <1>2, <1>3, <1>4, <1>5, <1>6, <1>7, <1>8, <1>9 DEF Next, Handler

LEMMA PlacedIsOnePlace ==
    ASSUME NEW c, Placed(c)
    PROVE  PlacesOf(c) = 1
<1> DEFINE gone == {S \in {<<1, sent>>, <<2, dropped>>, <<3, popped>>} : c \in S[2]}
<1>1. PlacesOf(c) = Cardinality(Waiting(c)) + Cardinality(gone)
  BY DEF PlacesOf, Waiting
<1>2. \A x : Cardinality({x}) = 1
  BY FS_Singleton
<1>3. Cardinality({}) = 0
  BY FS_EmptySet
<1>4. CASE Waiting(c) # {}
  <2>1. PICK i : Waiting(c) = {i}
    BY <1>4 DEF Placed
  <2>2. gone = {}
    BY <1>4 DEF Placed
  <2> HIDE DEF gone
  <2>3. Cardinality(Waiting(c)) = 1 /\ Cardinality(gone) = 0
    BY <1>2, <1>3, <2>1, <2>2, Zenon
  <2>4. QED
    BY <1>1, <2>3
<1>5. CASE Waiting(c) = {}
  <2>1. gone \in {{<<1, sent>>}, {<<2, dropped>>}, {<<3, popped>>}}
    BY <1>5 DEF Placed
  <2> HIDE DEF gone
  <2>2. Cardinality(Waiting(c)) = 0 /\ Cardinality(gone) = 1
    BY <1>2, <1>3, <1>5, <2>1, Zenon
  <2>3. QED
    BY <1>1, <2>2
<1>6. QED
  BY <1>4, <1>5

(* Whatever writes fail half way, a call's line is in exactly one place:   *)
(* nothing is lost and nothing goes out twice.                             *)
THEOREM EveryCallIsAlwaysSomewhere == Spec => []EveryCallIsSomewhere
<1>1. Init => AllPlaced
  BY DEF Init, AllPlaced, Unmade, Waiting, Calls
<1>2. TypeOK /\ AllPlaced /\ [Next]_vars => AllPlaced'
  BY PlacedStep
<1>3. TypeOK /\ AllPlaced => EveryCallIsSomewhere
  <2> SUFFICES ASSUME TypeOK, AllPlaced, NEW c \in 1..calls
               PROVE  PlacesOf(c) = 1
    BY DEF EveryCallIsSomewhere
  <2>1. c \in Calls /\ c <= calls
    BY SizesAreNumbers DEF TypeOK, Calls
  <2>2. QED
    BY <2>1, PlacedIsOnePlace DEF AllPlaced
<1>4. QED
  BY <1>1, <1>2, <1>3, TypeCorrect, PTL DEF Spec

-----------------------------------------------------------------------------
(***************************************************************************)
(* What a reconnect restores.  While on_connect replays, the remembered    *)
(* watches of the slots behind it are told already; that telling one does  *)
(* not undo another is that a name has one slot.                           *)
(***************************************************************************)
NamesOnce == \A i, j \in WatchSlots :
    watches[i] # None /\ watches[j] # None /\ watches[i].name = watches[j].name => i = j

Restored(i) == watches[i] # None => told[WatchOf(watches[i].name)] = watches[i].period

RestoredSoFar ==
    Connected /\ healthy =>
       \A i \in WatchSlots : Idle \/ (task = "replay" /\ i < at) => Restored(i)

HealthyIsWhole == healthy => ~fragment

ReplayInv == NamesOnce /\ HealthyIsWhole /\ RestoredSoFar

(* On a connection that is fine afterwards, a line was written whole.      *)
LEMMA WriteTells ==
    ASSUME TypeOK, HealthyIsWhole, NEW line \in Lines, NEW outcome,
           QueueOrWrite(line, outcome), connection' = connection
    PROVE  /\ HealthyIsWhole'
           /\ Connected' /\ healthy' =>
                /\ Connected /\ healthy
                /\ told' = [told EXCEPT ![line.subject] = line.content]
<1>1. CASE Connected
  <2>1. Transmit(line, outcome)
    BY <1>1 DEF QueueOrWrite
  <2>2. healthy' => healthy /\ outcome = "whole"
    BY <2>1, Zenon DEF Transmit
  <2>3. outcome = "whole" /\ ~fragment
          => told' = [told EXCEPT ![line.subject] = line.content] /\ ~fragment'
    BY <2>1, Zenon DEF Transmit
  <2>4. QED
    BY <1>1, <2>2, <2>3, Zenon DEF HealthyIsWhole
<1>2. CASE ~Connected
  <2>1. UNCHANGED <<stream, sent, valid>>
    BY <1>2 DEF QueueOrWrite
  <2>2. ~Connected'
    BY <1>2, <2>1 DEF Connected
  <2>3. QED
    BY <2>1, <2>2 DEF stream, HealthyIsWhole
<1>3. QED
  BY <1>1, <1>2

(* The slot remember_watch writes is the only one about the name.          *)
LEMMA RememberFacts ==
    ASSUME TypeOK, NamesOnce, NEW n \in Names, NEW p \in Periods, Remember(n, p)
    PROVE  /\ NamesOnce'
           /\ \A i \in WatchSlots :
                \/ watches'[i] = [name |-> n, period |-> p]
                \/ /\ watches'[i] = watches[i]
                   /\ watches'[i] # None => watches[i].name # n
<1> DEFINE S == IF NameSlots(n) # {} THEN NameSlots(n) ELSE FreeWatches
           w == [name |-> n, period |-> p]
<1>1. S \subseteq Nat /\ S \subseteq WatchSlots
  BY LineSlotsAreNumbers DEF NameSlots, FreeWatches
<1>2. \A i \in WatchSlots : watches'[i] = IF IsFirst(i, S) THEN w ELSE watches[i]
  BY DEF Remember
<1>3. \A i \in NameSlots(n) : NameSlots(n) = {i}
  BY DEF NameSlots, NamesOnce
<1>4. \A i \in NameSlots(n) : IsFirst(i, S)
  BY <1>1, <1>3 DEF IsFirst
<1>5. \A i \in WatchSlots :
         ~IsFirst(i, S) /\ watches[i] # None => watches[i].name # n
  BY <1>4 DEF NameSlots
<1>6. \A i, j \in WatchSlots : IsFirst(i, S) /\ IsFirst(j, S) => i = j
  BY <1>1 DEF IsFirst
<1> HIDE DEF S, w
<1>7. w.name = n
  BY DEF w
<1>8. NamesOnce'
  BY <1>2, <1>5, <1>6, <1>7 DEF NamesOnce
<1>9. QED
  BY <1>2, <1>5, <1>8 DEF w

LEMMA SubjectsDiffer ==
    ASSUME NEW n, NEW m
    PROVE  /\ WatchOf(n) = WatchOf(m) => n = m
           /\ WatchOf(n) # ValueOf(m)
BY DEF WatchOf, ValueOf

(* A call about another subject than a remembered watch leaves it told.    *)
LEMMA CallRestores ==
    ASSUME TypeOK, ReplayInv, NEW s \in Subjects, NEW content \in Contents(s),
           NEW outcome, Call(s, content, outcome), NamesOnce',
           \A i \in WatchSlots : watches'[i] # None =>
              \/ s = WatchOf(watches'[i].name) /\ content = watches'[i].period
              \/ watches'[i] = watches[i] /\ s # WatchOf(watches[i].name)
    PROVE  ReplayInv'
<1> DEFINE line == CallLine(s, content)
<1>1. /\ line \in Lines /\ line.subject = s /\ line.content = content
      /\ QueueOrWrite(line, outcome) /\ connection' = connection
      /\ Idle
  BY CallLineIsLine DEF Call, CallLine
<1> HIDE DEF line
<1>2. /\ HealthyIsWhole'
      /\ Connected' /\ healthy' =>
           /\ Connected /\ healthy
           /\ told' = [told EXCEPT ![s] = content]
  BY <1>1, WriteTells DEF ReplayInv
<1>3. ASSUME Connected', healthy', NEW i \in WatchSlots, watches'[i] # None
      PROVE  told'[WatchOf(watches'[i].name)] = watches'[i].period
  <2>1. told' = [told EXCEPT ![s] = content] /\ Restored(i)
    BY <1>1, <1>2, <1>3 DEF ReplayInv, RestoredSoFar
  <2>2. CASE s = WatchOf(watches'[i].name) /\ content = watches'[i].period
    BY <2>1, <2>2 DEF TypeOK
  <2>3. CASE watches'[i] = watches[i] /\ s # WatchOf(watches[i].name)
    <3>1. WatchOf(watches[i].name) \in Subjects
      BY <1>3, <2>3 DEF TypeOK, Remembered, WatchOf, Subjects
    <3>2. QED
      BY <1>3, <2>1, <2>3, <3>1 DEF Restored, TypeOK
  <2>4. QED
    BY <1>3, <2>2, <2>3
<1>4. RestoredSoFar'
  BY <1>3 DEF RestoredSoFar, Restored
<1>5. QED
  BY <1>2, <1>4 DEF ReplayInv

LEMMA ReplayStep ==
    ASSUME TypeOK, ReplayInv, [Next]_vars
    PROVE  ReplayInv'
<1>1. ASSUME NEW n \in Names, NEW p \in Periods, NEW outcome, Watch(n, p, outcome)
      PROVE  ReplayInv'
  <2>1. /\ NamesOnce'
        /\ \A i \in WatchSlots :
             \/ watches'[i] = [name |-> n, period |-> p]
             \/ /\ watches'[i] = watches[i]
                /\ watches'[i] # None => watches[i].name # n
    BY <1>1, RememberFacts DEF Watch, ReplayInv
  <2>2. WatchOf(n) \in Subjects /\ p \in Contents(WatchOf(n))
    BY DEF WatchOf, Subjects, Contents
  <2>3. \A i \in WatchSlots : watches'[i] # None =>
           \/ WatchOf(n) = WatchOf(watches'[i].name) /\ p = watches'[i].period
           \/ watches'[i] = watches[i] /\ WatchOf(n) # WatchOf(watches[i].name)
    BY <2>1, SubjectsDiffer
  <2>4. QED
    BY <1>1, <2>1, <2>2, <2>3, CallRestores DEF Watch
<1>2. ASSUME NEW n \in Names, NEW outcome, Unwatch(n, outcome)
      PROVE  ReplayInv'
  <2>1. \A i \in WatchSlots : watches'[i] # None =>
           watches'[i] = watches[i] /\ watches[i].name # n
    BY <1>2 DEF Unwatch, Forget, NameSlots
  <2>2. NamesOnce'
    BY <2>1 DEF ReplayInv, NamesOnce
  <2>3. WatchOf(n) \in Subjects /\ Off \in Contents(WatchOf(n))
    BY DEF WatchOf, Subjects, Contents
  <2>4. \A i \in WatchSlots : watches'[i] # None =>
           watches'[i] = watches[i] /\ WatchOf(n) # WatchOf(watches[i].name)
    BY <2>1, SubjectsDiffer
  <2>5. QED
    BY <1>2, <2>2, <2>3, <2>4, CallRestores DEF Unwatch
<1>3. ASSUME NEW n \in Names, NEW v \in Values, NEW outcome, Set(n, v, outcome)
      PROVE  ReplayInv'
  <2>1. ValueOf(n) \in Subjects /\ v \in Contents(ValueOf(n))
    BY DEF ValueOf, Subjects, Contents
  <2>2. watches' = watches /\ NamesOnce'
    BY <1>3 DEF Set, ReplayInv, NamesOnce
  <2>3. \A i \in WatchSlots : ValueOf(n) # WatchOf(watches[i].name)
    BY SubjectsDiffer
  <2>4. QED
    BY <1>3, <2>1, <2>2, <2>3, CallRestores DEF Set
<1>4. ASSUME UNCHANGED <<watches, task, at, stream>>, Connected' => Connected
      PROVE  ReplayInv'
  BY <1>4 DEF ReplayInv, NamesOnce, HealthyIsWhole, RestoredSoFar, Restored, Idle, stream
<1>5. CASE PopOutgoing
  BY <1>4, <1>5 DEF PopOutgoing, link, Connected
<1>6. ASSUME NEW room \in BOOLEAN, OnConnect(room) PROVE ReplayInv'
  BY <1>6 DEF OnConnect, tables, ReplayInv, NamesOnce, HealthyIsWhole, RestoredSoFar, Idle
<1>7. CASE FlushEmpty
  <2>1. ~Idle' /\ \A i \in WatchSlots : ~(task' = "replay" /\ i < at')
    BY <1>7 DEF FlushEmpty, AfterFlush, Idle, WatchSlots
  <2>2. UNCHANGED <<watches, stream>>
    BY <1>7 DEF FlushEmpty, tables
  <2>3. QED
    BY <2>1, <2>2 DEF ReplayInv, NamesOnce, HealthyIsWhole, RestoredSoFar, stream
<1>8. ASSUME NEW outcome, FlushLine(outcome) PROVE ReplayInv'
  <2>1. ~Idle' /\ \A i \in WatchSlots : ~(task' = "replay" /\ i < at')
    BY <1>8 DEF FlushLine, AfterFlush, Idle, WatchSlots
  <2>2. watches' = watches
    BY <1>8 DEF FlushLine
  <2>3. Transmit(pending[at], outcome)
    BY <1>8 DEF FlushLine
  <2>4. HealthyIsWhole'
    BY <2>3, Zenon DEF Transmit, HealthyIsWhole
  <2>5. QED
    BY <2>1, <2>2, <2>4 DEF ReplayInv, NamesOnce, RestoredSoFar
<1>9. ASSUME task = "replay", AfterReplay, watches' = watches,
             HealthyIsWhole',
             Connected' /\ healthy' =>
                /\ Connected /\ healthy
                /\ watches[at] = None => told' = told
                /\ watches[at] # None =>
                     told' = [told EXCEPT ![WatchOf(watches[at].name)] = watches[at].period]
      PROVE  ReplayInv'
  <2>1. at \in WatchSlots
    BY <1>9 DEF TypeOK
  <2>2. \A i \in WatchSlots : Idle' \/ (task' = "replay" /\ i < at') => i < at \/ i = at
    BY <1>9, <2>1, SizesAreNumbers DEF AfterReplay, WatchSlots, Idle
  <2>3. ASSUME Connected', healthy', NEW i \in WatchSlots, i < at \/ i = at,
               watches[i] # None
        PROVE  told'[WatchOf(watches[i].name)] = watches[i].period
    <3>1. WatchOf(watches[i].name) \in Subjects
      BY <2>3 DEF TypeOK, Remembered, WatchOf, Subjects
    <3>2. CASE i = at
      BY <1>9, <2>3, <3>1, <3>2 DEF TypeOK
    <3>3. CASE i < at
      <4>1. Restored(i) /\ i # at
        BY <1>9, <2>1, <2>3, <3>3 DEF ReplayInv, RestoredSoFar, WatchSlots
      <4>2. watches[at] # None => WatchOf(watches[i].name) # WatchOf(watches[at].name)
        BY <2>1, <2>3, <4>1, SubjectsDiffer DEF ReplayInv, NamesOnce
      <4>3. QED
        BY <1>9, <2>3, <3>1, <4>1, <4>2 DEF Restored, TypeOK
    <3>4. QED
      BY <2>3, <3>2, <3>3
  <2>4. RestoredSoFar'
    BY <1>9, <2>2, <2>3 DEF RestoredSoFar, Restored
  <2>5. QED
    BY <1>9, <2>4 DEF ReplayInv, NamesOnce
<1>10. CASE ReplayEmpty
  <2>1. UNCHANGED <<link, tables, stream>>
    BY <1>10 DEF ReplayEmpty
  <2>2. (Connected' => Connected) /\ HealthyIsWhole'
    BY <2>1 DEF link, stream, Connected, ReplayInv, HealthyIsWhole
  <2>3. QED
    BY <1>9, <1>10, <2>1, <2>2 DEF ReplayEmpty, tables, stream
<1>11. ASSUME NEW outcome, ReplayWatch(outcome) PROVE ReplayInv'
  <2>1. /\ ReplayLine \in Lines
        /\ QueueOrWrite(ReplayLine, outcome) /\ connection' = connection
        /\ task = "replay" /\ watches[at] # None /\ AfterReplay /\ watches' = watches
    BY <1>11, ReplayLineIsLine DEF ReplayWatch
  <2>2. /\ ReplayLine.subject = WatchOf(watches[at].name)
        /\ ReplayLine.content = watches[at].period
    BY DEF ReplayLine
  <2>3. /\ HealthyIsWhole'
        /\ Connected' /\ healthy' =>
             /\ Connected /\ healthy
             /\ told' = [told EXCEPT ![WatchOf(watches[at].name)] = watches[at].period]
    BY <2>1, <2>2, WriteTells DEF ReplayInv
  <2>4. QED
    BY <1>9, <2>1, <2>3
<1>12. ASSUME NEW c, LoseConnection(c) PROVE ReplayInv'
  BY <1>4, <1>12 DEF LoseConnection, tables, Connected
<1>13. ASSUME NEW c, OnClose(c) PROVE ReplayInv'
  BY <1>4, <1>13 DEF OnClose, Detach, tables, Connected
<1>14. CASE OnError \/ Close
  BY <1>4, <1>14 DEF OnError, Close, Detach, tables, Connected
<1>15. CASE UNCHANGED vars
  BY <1>4, <1>15 DEF vars, link, tables, Connected
<1>16. QED
  BY <1>1, <1>2, <1>3, <1>5, <1>6, <1>7, <1>8, <1>10, <1>11, <1>12, <1>13, <1>14, <1>15
     DEF Next, Handler

(* A reconnect restores every remembered watch with its latest period,     *)
(* whatever older lines the queue still held.                              *)
THEOREM RememberedIsAlwaysTold == Spec => []RememberedIsTold
<1>1. Init => ReplayInv
  BY DEF Init, ReplayInv, NamesOnce, HealthyIsWhole, RestoredSoFar, Connected
<1>2. TypeOK /\ ReplayInv /\ [Next]_vars => ReplayInv'
  BY ReplayStep
<1>3. ReplayInv => RememberedIsTold
  BY DEF ReplayInv, RestoredSoFar, Restored, RememberedIsTold
<1>4. QED
  BY <1>1, <1>2, <1>3, TypeCorrect, PTL DEF Spec

-----------------------------------------------------------------------------
(***************************************************************************)
(* What keeps order.  Without a fault, lines wait only while there is no   *)
(* connection, slots are taken from the first on and freed by a flush from *)
(* the first on, so that the last slot about a subject holds what was last *)
(* asked of it; and what the peer was told is either that or is about to   *)
(* be overridden by a waiting line.                                        *)
(***************************************************************************)
About(i, s) == pending[i] # None /\ pending[i].subject = s
LastAbout(i, s) == About(i, s) /\ \A j \in LineSlots : About(j, s) => j <= i

WatchesAsked == \A i \in WatchSlots :
    watches[i] # None => asked[WatchOf(watches[i].name)] = watches[i].period

NothingWaits == \A i \in LineSlots : pending[i] = None

QueueInOrder ==
    /\ \A s \in Subjects : \A i \in LineSlots : LastAbout(i, s) => pending[i].content = asked[s]
    /\ Idle => \A i, j \in LineSlots : i < j /\ pending[j] # None => pending[i] # None
    /\ task = "flush" => \A i \in LineSlots : i < at => pending[i] = None
    /\ task = "replay" \/ (Idle /\ Connected) => NothingWaits

PeerInOrder ==
    /\ ~fragment
    /\ ~Idle => Connected
    /\ Connected => \A s \in Subjects :
                       told[s] \in {None, asked[s]} \/ \E i \in LineSlots : About(i, s)

OrderInv == NamesOnce /\ WatchesAsked /\ (faultless => QueueInOrder /\ PeerInOrder)

(* A call while disconnected puts its line behind all others.              *)
LEMMA EnqueueInOrder ==
    ASSUME TypeOK, Idle, task' = task, QueueInOrder, FreeLines # {}, ~Connected', NEW line \in Lines,
           Enqueue(line), asked' = [asked EXCEPT ![line.subject] = line.content]
    PROVE  QueueInOrder'
<1>1. FreeLines \subseteq Nat /\ FreeLines \subseteq LineSlots
  BY LineSlotsAreNumbers DEF FreeLines
<1>2. PICK i \in FreeLines : IsFirst(i, FreeLines)
  BY <1>1, FirstExists
<1>3. \A j \in LineSlots : IsFirst(j, FreeLines) => j = i
  BY <1>1, <1>2 DEF IsFirst
<1>4. i \in LineSlots /\ pending[i] = None /\ line # None
  BY <1>2, NoneIsNothing DEF FreeLines
<1>5. \A j \in LineSlots : pending'[j] = IF j = i THEN line ELSE pending[j]
  BY <1>2, <1>3 DEF Enqueue
<1>6. \A j \in LineSlots : j < i => pending[j] # None
  BY <1>1, <1>2, LineSlotsAreNumbers DEF IsFirst, FreeLines
<1>7. \A j \in LineSlots : i < j => pending[j] = None
  BY <1>4 DEF QueueInOrder
<1>8. \A j \in LineSlots : j < i \/ j = i \/ i < j
  BY <1>4, LineSlotsAreNumbers
<1>9. \A j, k \in LineSlots : j < k /\ pending'[k] # None => pending'[j] # None
  <2> SUFFICES ASSUME NEW j \in LineSlots, NEW k \in LineSlots, j < k, pending'[k] # None
               PROVE  pending'[j] # None
    OBVIOUS
  <2>1. k = i \/ k < i
    BY <1>5, <1>7, <1>8
  <2>2. j < i
    BY <1>4, <2>1, LineSlotsAreNumbers
  <2>3. QED
    BY <1>4, <1>5, <1>6, <2>2
<1>10. ASSUME NEW s \in Subjects, NEW k \in LineSlots, LastAbout(k, s)'
       PROVE  pending'[k].content = asked'[s]
  <2>1. line.subject \in Subjects
    BY DEF Lines
  <2>2. CASE s = line.subject
    <3>1. About(i, s)'
      BY <1>4, <1>5, <2>2 DEF About
    <3>2. i <= k /\ pending'[k] # None
      BY <1>4, <1>10, <3>1 DEF LastAbout, About
    <3>3. k = i
      BY <1>4, <1>5, <1>7, <3>2, LineSlotsAreNumbers
    <3>4. QED
      BY <1>4, <1>5, <2>1, <2>2, <3>3 DEF TypeOK
  <2>3. CASE s # line.subject
    <3>1. \A j \in LineSlots : About(j, s)' <=> About(j, s)
      BY <1>4, <1>5, <2>3 DEF About
    <3>2. LastAbout(k, s) /\ k # i
      BY <1>4, <1>10, <3>1 DEF LastAbout, About
    <3>3. QED
      BY <1>5, <1>10, <2>3, <3>2 DEF QueueInOrder, TypeOK
  <2>4. QED
    BY <2>2, <2>3
<1>11. QED
  BY <1>9, <1>10 DEF QueueInOrder, Idle

LEMMA CallInOrder ==
    ASSUME TypeOK, OrderInv, NEW s \in Subjects, NEW content \in Contents(s),
           NEW outcome, Call(s, content, outcome), NamesOnce', WatchesAsked'
    PROVE  OrderInv'
<1> SUFFICES ASSUME faultless' PROVE QueueInOrder' /\ PeerInOrder'
  BY DEF OrderInv
<1>1. PICK line \in Lines : line = CallLine(s, content)
  BY CallLineIsLine DEF Call
<1>2. /\ QueueOrWrite(line, outcome) /\ line.subject = s /\ line.content = content
      /\ UNCHANGED <<connection, task, at>> /\ Idle
      /\ asked' = [asked EXCEPT ![s] = content]
  BY <1>1 DEF Call, CallLine
<1>3. faultless
  BY <1>2, Zenon DEF QueueOrWrite
<1>4. QueueInOrder /\ PeerInOrder
  BY <1>3 DEF OrderInv
<1>5. CASE Connected
  <2>1. Transmit(line, outcome) /\ outcome = "whole" /\ UNCHANGED pending
    BY <1>2, <1>5, Zenon DEF QueueOrWrite
  <2>2. told' = [told EXCEPT ![s] = content] /\ ~fragment' /\ valid' = valid
    BY <1>2, <1>4, <2>1 DEF Transmit, PeerInOrder
  <2>3. NothingWaits /\ NothingWaits'
    BY <1>2, <1>4, <1>5, <2>1 DEF QueueInOrder, NothingWaits
  <2>4. \A x \in Subjects : told'[x] \in {None, asked'[x]}
    BY <1>2, <1>4, <1>5, <2>2, <2>3 DEF PeerInOrder, NothingWaits, About, TypeOK
  <2>5. Idle'
    BY <1>2 DEF Idle
  <2>6. QED
    BY <2>2, <2>3, <2>4, <2>5
       DEF QueueInOrder, PeerInOrder, NothingWaits, LastAbout, About, Idle
<1>6. CASE ~Connected
  <2>1. Enqueue(line) /\ FreeLines # {} /\ UNCHANGED <<stream, valid>>
    BY <1>2, <1>6, Zenon DEF QueueOrWrite
  <2>2. ~Connected' /\ ~fragment' /\ Idle'
    BY <1>2, <1>4, <1>6, <2>1 DEF Connected, stream, PeerInOrder, Idle
  <2>3. QueueInOrder'
    BY <1>2, <1>4, <2>1, <2>2, EnqueueInOrder
  <2>4. QED
    BY <2>2, <2>3 DEF PeerInOrder
<1>7. QED
  BY <1>5, <1>6

LEMMA OrderStep ==
    ASSUME TypeOK, OrderInv, [Next]_vars
    PROVE  OrderInv'
<1> USE DEF OrderInv
<1>1. ASSUME NEW n \in Names, NEW p \in Periods, NEW outcome, Watch(n, p, outcome)
      PROVE  OrderInv'
  <2>1. /\ NamesOnce'
        /\ \A i \in WatchSlots :
             \/ watches'[i] = [name |-> n, period |-> p]
             \/ /\ watches'[i] = watches[i]
                /\ watches'[i] # None => watches[i].name # n
    BY <1>1, RememberFacts DEF Watch
  <2>2. WatchOf(n) \in Subjects /\ p \in Contents(WatchOf(n))
    BY DEF WatchOf, Subjects, Contents
  <2>3. asked' = [asked EXCEPT ![WatchOf(n)] = p]
    BY <1>1 DEF Watch, Call
  <2>4. WatchesAsked'
    <3> SUFFICES ASSUME NEW i \in WatchSlots, watches'[i] # None
                 PROVE  asked'[WatchOf(watches'[i].name)] = watches'[i].period
      BY DEF WatchesAsked
    <3>1. CASE watches'[i] = [name |-> n, period |-> p]
      BY <2>2, <2>3, <3>1 DEF TypeOK
    <3>2. CASE watches'[i] = watches[i] /\ watches[i].name # n
      <4>1. WatchOf(watches[i].name) # WatchOf(n)
        BY <3>2, SubjectsDiffer
      <4>2. QED
        BY <2>2, <2>3, <3>2, <4>1 DEF WatchesAsked, TypeOK
    <3>3. QED
      BY <2>1, <3>1, <3>2
  <2>5. QED
    BY <1>1, <2>1, <2>2, <2>4, CallInOrder DEF Watch
<1>2. ASSUME NEW n \in Names, NEW outcome, Unwatch(n, outcome)
      PROVE  OrderInv'
  <2>1. \A i \in WatchSlots : watches'[i] # None =>
           watches'[i] = watches[i] /\ watches[i].name # n
    BY <1>2 DEF Unwatch, Forget, NameSlots
  <2>2. NamesOnce'
    BY <2>1 DEF NamesOnce
  <2>3. WatchOf(n) \in Subjects /\ Off \in Contents(WatchOf(n))
    BY DEF WatchOf, Subjects, Contents
  <2>4. asked' = [asked EXCEPT ![WatchOf(n)] = Off]
    BY <1>2 DEF Unwatch, Call
  <2>5. WatchesAsked'
    BY <2>1, <2>3, <2>4, SubjectsDiffer DEF WatchesAsked, TypeOK
  <2>6. QED
    BY <1>2, <2>2, <2>3, <2>5, CallInOrder DEF Unwatch
<1>3. ASSUME NEW n \in Names, NEW v \in Values, NEW outcome, Set(n, v, outcome)
      PROVE  OrderInv'
  <2>1. ValueOf(n) \in Subjects /\ v \in Contents(ValueOf(n))
    BY DEF ValueOf, Subjects, Contents
  <2>2. watches' = watches /\ asked' = [asked EXCEPT ![ValueOf(n)] = v]
    BY <1>3 DEF Set, Call
  <2>3. NamesOnce' /\ WatchesAsked'
    BY <2>1, <2>2, SubjectsDiffer DEF NamesOnce, WatchesAsked, TypeOK
  <2>4. QED
    BY <1>3, <2>1, <2>3, CallInOrder DEF Set
<1>4. ASSUME Idle, UNCHANGED <<pending, watches, task, at, stream, asked, faultless>>,
             Connected' => Connected
      PROVE  OrderInv'
  BY <1>4 DEF NamesOnce, WatchesAsked, QueueInOrder, PeerInOrder, NothingWaits,
     LastAbout, About, Idle, stream
<1>5. CASE PopOutgoing
  BY <1>5 DEF PopOutgoing, NamesOnce, WatchesAsked
<1>6. ASSUME NEW room \in BOOLEAN, OnConnect(room) PROVE OrderInv'
  <2>1. opened + 1 \in Connections
    BY <1>6, SizesAreNumbers DEF OnConnect, Connections, TypeOK
  <2>2. Connected'
    BY <1>6, <2>1, NoneIsNothing DEF OnConnect, Connected
  <2>3. UNCHANGED <<watches, pending, asked, faultless>>
    BY <1>6 DEF OnConnect, tables, history
  <2>4. task' = "flush" /\ ~Idle' /\ \A i \in LineSlots : ~(i < at')
    BY <1>6 DEF OnConnect, Idle, LineSlots
  <2>5. ~fragment' /\ \A s \in Subjects : told'[s] = None
    BY <1>6 DEF OnConnect
  <2>6. NamesOnce' /\ WatchesAsked'
    BY <2>3 DEF NamesOnce, WatchesAsked
  <2>7. QED
    BY <2>2, <2>3, <2>4, <2>5, <2>6 DEF QueueInOrder, PeerInOrder, NothingWaits, LastAbout, About
<1>7. ASSUME task = "flush", AfterFlush, pending'[at] = None, QueueInOrder,
             \A i \in LineSlots : pending'[i] \in {None, pending[i]}
      PROVE  /\ ~Idle'
             /\ task' = "flush" => \A i \in LineSlots : i < at' => pending'[i] = None
             /\ task' = "replay" => NothingWaits'
  <2>1. at \in LineSlots
    BY <1>7 DEF TypeOK
  <2>2. \A i \in LineSlots : task' = "flush" /\ i < at' => i < at \/ i = at
    BY <1>7, <2>1 DEF AfterFlush, LineSlots
  <2>3. \A i \in LineSlots : task' = "replay" => i < at \/ i = at
    BY <1>7, <2>1, SizesAreNumbers DEF AfterFlush, LineSlots
  <2>4. QED
    BY <1>7, <2>2, <2>3 DEF QueueInOrder, NothingWaits, AfterFlush, Idle
<1>8. CASE FlushEmpty
  <2>1. UNCHANGED <<connection, valid, pending, watches, told, fragment, asked, faultless>>
    BY <1>8 DEF FlushEmpty, link, tables, stream, history
  <2>2. NamesOnce' /\ WatchesAsked' /\ Connected' = Connected
    BY <2>1 DEF NamesOnce, WatchesAsked, Connected
  <2>3. ASSUME QueueInOrder PROVE QueueInOrder'
    BY <1>7, <1>8, <2>1, <2>3 DEF FlushEmpty, QueueInOrder, LastAbout, About
  <2>4. ASSUME PeerInOrder PROVE PeerInOrder'
    BY <1>8, <2>1, <2>2, <2>4 DEF FlushEmpty, PeerInOrder, About, Idle
  <2>5. QED
    BY <2>1, <2>2, <2>3, <2>4
<1>9. ASSUME NEW outcome, FlushLine(outcome) PROVE OrderInv'
  <2>1. UNCHANGED <<connection, watches, asked>> /\ NamesOnce' /\ WatchesAsked'
    BY <1>9 DEF FlushLine, NamesOnce, WatchesAsked
  <2> SUFFICES ASSUME faultless' PROVE QueueInOrder' /\ PeerInOrder'
    BY <2>1
  <2>2. outcome = "whole" /\ faultless
    BY <1>9, Zenon DEF FlushLine
  <2>3. QueueInOrder /\ PeerInOrder /\ task = "flush" /\ at \in LineSlots /\ pending[at] # None
    BY <1>9, <2>2 DEF FlushLine, TypeOK
  <2> DEFINE s == pending[at].subject
  <2>4. s \in Subjects
    BY <2>3 DEF TypeOK, Lines
  <2>5. /\ told' = [told EXCEPT ![s] = pending[at].content] /\ ~fragment'
        /\ valid' = valid /\ pending' = [pending EXCEPT ![at] = None]
    BY <1>9, <2>2, <2>3 DEF FlushLine, Transmit, PeerInOrder
  <2>6. Connected /\ Connected'
    BY <2>1, <2>3, <2>5 DEF PeerInOrder, Connected, Idle
  <2>7. \A i \in LineSlots : pending'[i] = IF i = at THEN None ELSE pending[i]
    BY <2>5 DEF TypeOK
  <2>8. \A i \in LineSlots : \A x \in Subjects : About(i, x)' <=> About(i, x) /\ i # at
    BY <2>7 DEF About
  <2>9. \A i \in LineSlots : pending[i] # None => at <= i
    BY <2>3, LineSlotsAreNumbers DEF QueueInOrder
  <2>10. ASSUME NEW x \in Subjects, NEW i \in LineSlots, LastAbout(i, x)'
         PROVE  pending'[i].content = asked'[x]
    <3>1. About(i, x) /\ i # at /\ at <= i
      BY <2>8, <2>9, <2>10 DEF LastAbout, About
    <3>2. LastAbout(i, x)
      BY <2>8, <2>10, <3>1 DEF LastAbout
    <3>3. QED
      BY <2>1, <2>3, <2>7, <3>1, <3>2 DEF QueueInOrder
  <2>11. /\ ~Idle'
         /\ task' = "flush" => \A i \in LineSlots : i < at' => pending'[i] = None
         /\ task' = "replay" => NothingWaits'
    BY <1>7, <1>9, <2>3, <2>7 DEF FlushLine
  <2>12. ASSUME NEW x \in Subjects
         PROVE  told'[x] \in {None, asked'[x]} \/ \E i \in LineSlots : About(i, x)'
    <3>1. CASE x # s
      <4>1. ~About(at, x) /\ told'[x] = told[x]
        BY <2>4, <2>5, <3>1 DEF About, TypeOK
      <4>2. told[x] \in {None, asked[x]} \/ \E i \in LineSlots : About(i, x)
        BY <2>3, <2>6 DEF PeerInOrder
      <4>3. QED
        BY <2>1, <2>8, <4>1, <4>2
    <3>2. CASE x = s /\ LastAbout(at, s)
      BY <2>1, <2>3, <2>4, <2>5, <3>2 DEF QueueInOrder, TypeOK
    <3>3. CASE x = s /\ ~LastAbout(at, s)
      <4>1. About(at, s)
        BY <2>3 DEF About
      <4>2. PICK j \in LineSlots : About(j, s) /\ ~(j <= at)
        BY <3>3, <4>1 DEF LastAbout
      <4>3. j # at
        BY <2>3, <4>2, LineSlotsAreNumbers
      <4>4. QED
        BY <2>8, <3>3, <4>2, <4>3
    <3>4. QED
      BY <3>1, <3>2, <3>3
  <2>13. QED
    BY <2>5, <2>6, <2>10, <2>11, <2>12 DEF QueueInOrder, PeerInOrder
<1>10. CASE ReplayEmpty
  <2>1. /\ UNCHANGED <<connection, valid, pending, watches, told, fragment, asked, faultless>>
        /\ task = "replay" /\ task' # "flush"
    BY <1>10 DEF ReplayEmpty, AfterReplay, link, tables, stream, history
  <2>2. NamesOnce' /\ WatchesAsked' /\ Connected' = Connected
    BY <2>1 DEF NamesOnce, WatchesAsked, Connected
  <2>3. ASSUME QueueInOrder PROVE QueueInOrder'
    BY <2>1, <2>3 DEF QueueInOrder, NothingWaits, LastAbout, About
  <2>4. ASSUME PeerInOrder PROVE PeerInOrder'
    BY <2>1, <2>2, <2>4 DEF PeerInOrder, About, Idle
  <2>5. QED
    BY <2>1, <2>2, <2>3, <2>4
<1>11. ASSUME NEW outcome, ReplayWatch(outcome) PROVE OrderInv'
  <2>1. /\ UNCHANGED <<connection, watches, asked>> /\ NamesOnce' /\ WatchesAsked'
        /\ task = "replay" /\ task' # "flush"
    BY <1>11 DEF ReplayWatch, AfterReplay, NamesOnce, WatchesAsked
  <2> SUFFICES ASSUME faultless' PROVE QueueInOrder' /\ PeerInOrder'
    BY <2>1
  <2>2. PICK line \in Lines : line = ReplayLine
    BY <1>11, ReplayLineIsLine DEF ReplayWatch
  <2>3. QueueOrWrite(line, outcome)
    BY <1>11, <2>2 DEF ReplayWatch
  <2>4. faultless
    BY <2>3, Zenon DEF QueueOrWrite
  <2>5. QueueInOrder /\ PeerInOrder /\ Connected /\ NothingWaits
    BY <2>1, <2>4 DEF QueueInOrder, PeerInOrder, Idle
  <2>6. Transmit(line, outcome) /\ outcome = "whole" /\ pending' = pending
    BY <2>3, <2>5, Zenon DEF QueueOrWrite
  <2>7. /\ told' = [told EXCEPT ![line.subject] = line.content] /\ ~fragment'
        /\ valid' = valid
    BY <2>5, <2>6 DEF Transmit, PeerInOrder
  <2>8. line.content = asked[line.subject] /\ line.subject \in Subjects
    <3>1. watches[at] # None /\ at \in WatchSlots
      BY <1>11, ReplayLineIsLine DEF ReplayWatch
    <3>2. QED
      BY <2>2, <3>1 DEF ReplayLine, WatchesAsked, Lines
  <2>9. \A x \in Subjects : told'[x] \in {None, asked'[x]}
    BY <2>1, <2>5, <2>7, <2>8 DEF PeerInOrder, NothingWaits, About, TypeOK
  <2>10. NothingWaits' /\ Connected'
    BY <2>1, <2>5, <2>6, <2>7 DEF NothingWaits, Connected
  <2>11. QED
    BY <2>1, <2>7, <2>9, <2>10 DEF QueueInOrder, PeerInOrder, NothingWaits, LastAbout, About
<1>12. ASSUME NEW c, LoseConnection(c) PROVE OrderInv'
  BY <1>4, <1>12 DEF LoseConnection, tables, history, Connected
<1>13. ASSUME NEW c, OnClose(c) PROVE OrderInv'
  BY <1>4, <1>13 DEF OnClose, Detach, tables, history, Connected
<1>14. CASE OnError \/ Close
  BY <1>4, <1>14 DEF OnError, Close, Detach, tables, history, Connected
<1>15. CASE UNCHANGED vars
  BY <1>15 DEF vars, link, tables, stream, history, NamesOnce, WatchesAsked, QueueInOrder,
     PeerInOrder, NothingWaits, LastAbout, About, Idle, Connected
<1>16. QED
  BY <1>1, <1>2, <1>3, <1>5, <1>6, <1>8, <1>9, <1>10, <1>11, <1>12, <1>13, <1>14, <1>15
     DEF Next, Handler

LEMMA AlwaysInOrder == Spec => []OrderInv
<1>1. Init => OrderInv
  BY DEF Init, OrderInv, NamesOnce, WatchesAsked, QueueInOrder, PeerInOrder, NothingWaits,
     LastAbout, About, Idle, Connected
<1>2. TypeOK /\ OrderInv /\ [Next]_vars => OrderInv'
  BY OrderStep
<1>3. QED
  BY <1>1, <1>2, TypeCorrect, PTL DEF Spec

(* Without a fault, a peer was last told of a subject what was last asked  *)
(* of it, over any number of reconnects.                                   *)
THEOREM OrderIsAlwaysKept == Spec => []OrderIsKept
<1>1. OrderInv => OrderIsKept
  BY DEF OrderInv, QueueInOrder, PeerInOrder, NothingWaits, About, OrderIsKept
<1>2. QED
  BY <1>1, AlwaysInOrder, PTL
=============================================================================
