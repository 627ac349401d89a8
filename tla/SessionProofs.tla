--------------------------- MODULE SessionProofs ---------------------------
(***************************************************************************)
(* The session's safety, for every set of names and values and every size  *)
(* of the tables at either end.  Both ends' own theorems are used: CP and  *)
(* SP are the proofs of the two modules about the instances in Session.    *)
(***************************************************************************)
EXTENDS Session, SequenceTheorems, FiniteSetTheorems, TLAPS

CP == INSTANCE PypilotClientProofs WITH
    Periods <- {0},
    Values <- ClientValues,
    watches <- remembered

SP == INSTANCE PypilotServerProofs WITH
    Fields <- Names,
    Texts <- {"compass"},
    DefaultText <- "compass",
    MaxTime <- 0,
    UnknownName <- "unknown",
    WatchRequests <- {<<e>> : e \in {WatchEntry(n) : n \in Names} \cup {UnwatchEntry(n) : n \in Names}}

-----------------------------------------------------------------------------
(* C and CP, S and SP are the same formulas under two names.               *)
LEMMA SameClient == (C!Init <=> CP!Init) /\ (C!Next <=> CP!Next)
<1>1. C!Init <=> CP!Init
  BY Zenon DEF C!Init, CP!Init, C!WatchSlots, CP!WatchSlots, C!LineSlots, CP!LineSlots,
    C!Subjects, CP!Subjects
<1>2. C!Next <=> CP!Next
  BY Zenon DEF C!Next, CP!Next, C!Watch, CP!Watch, C!Remember, CP!Remember, C!Call, CP!Call,
    C!Unwatch, CP!Unwatch, C!Set, CP!Set, C!PopOutgoing, CP!PopOutgoing, C!OnConnect,
    CP!OnConnect, C!Handler, CP!Handler, C!FlushEmpty, CP!FlushEmpty, C!ReplayEmpty,
    CP!ReplayEmpty, C!FlushLine, CP!FlushLine, C!ReplayWatch, CP!ReplayWatch,
    C!LoseConnection, CP!LoseConnection, C!OnClose, CP!OnClose, C!OnError, CP!OnError,
    C!Close, CP!Close, C!Outcomes, CP!Outcomes, C!Connected, CP!Connected, C!Idle, CP!Idle,
    C!AfterFlush, CP!AfterFlush, C!AfterReplay, CP!AfterReplay, C!ReplayLine, CP!ReplayLine,
    C!CallLine, CP!CallLine, C!QueueOrWrite, CP!QueueOrWrite, C!Enqueue, CP!Enqueue,
    C!Transmit, CP!Transmit, C!Detach, CP!Detach, C!Forget, CP!Forget, C!NameSlots,
    CP!NameSlots, C!FreeWatches, CP!FreeWatches, C!FreeLines, CP!FreeLines, C!IsFirst,
    CP!IsFirst, C!WatchOf, CP!WatchOf, C!ValueOf, CP!ValueOf, C!Subjects, CP!Subjects,
    C!link, CP!link, C!tables, CP!tables, C!stream, CP!stream, C!history, CP!history,
    C!Connections, CP!Connections, C!LineSlots, CP!LineSlots, C!WatchSlots, CP!WatchSlots
<1> QED  BY <1>1, <1>2

LEMMA SameServer == (S!Init <=> SP!Init) /\ (S!Next <=> SP!Next)
<1>1. S!Init <=> SP!Init
  BY Zenon DEF S!Init, SP!Init, S!RegistryInit, SP!RegistryInit, S!Default, SP!Default,
    S!Slots, SP!Slots, S!BooleanFields, SP!BooleanFields, S!StringFields, SP!StringFields
<1>2. S!Next <=> SP!Next
  BY Zenon DEF S!Next, SP!Next, S!Assign, SP!Assign, S!Refuse, SP!Refuse, S!BeginWatch,
    SP!BeginWatch, S!HandleEntry, SP!HandleEntry, S!FailEntry, SP!FailEntry, S!ListValues,
    SP!ListValues, S!UnwatchEntry, SP!UnwatchEntry, S!WatchEntry, SP!WatchEntry, S!Poll,
    SP!Poll, S!SetValue, SP!SetValue, S!Control, SP!Control, S!Clock, SP!Clock,
    S!EntryFails, SP!EntryFails, S!WatchRefused, SP!WatchRefused, S!Idle, SP!Idle,
    S!SetField, SP!SetField, S!WriteReply, SP!WriteReply, S!WriteLines, SP!WriteLines,
    S!Arrives, SP!Arrives, S!Swallowed, SP!Swallowed, S!Readable, SP!Readable,
    S!Watch, SP!Watch, S!Unwatch, SP!Unwatch, S!IsTarget, SP!IsTarget, S!IsFirst, SP!IsFirst,
    S!SlotsOf, SP!SlotsOf, S!FreeSlots, SP!FreeSlots, S!PeriodUs, SP!PeriodUs,
    S!EmitWatches, SP!EmitWatches, S!ChangedLines, SP!ChangedLines, S!DueLines, SP!DueLines,
    S!DueSlots, SP!DueSlots, S!Immediate, SP!Immediate, S!NextDue, SP!NextDue,
    S!ControlWrite, SP!ControlWrite, S!RudderReset, SP!RudderReset, S!Tick, SP!Tick,
    S!registryVars, SP!registryVars, S!Domain, SP!Domain, S!BooleanFields, SP!BooleanFields,
    S!StringFields, SP!StringFields, S!WritableFields, SP!WritableFields,
    S!ControlFields, SP!ControlFields, S!AllFields, SP!AllFields, S!Slots, SP!Slots
<1> QED  BY <1>1, <1>2

-----------------------------------------------------------------------------
(* Every step of the session is one of the client's, or none of its.       *)
LEMMA IsClient == Spec => CP!Spec
<1>1. Init => CP!Init
  BY SameClient DEF Init
<1>2. [Next]_vars => [CP!Next]_(CP!vars)
  <2>1. UNCHANGED clientVars => UNCHANGED CP!vars
    BY DEF clientVars, CP!vars, CP!link, CP!tables, CP!stream, CP!history
  <2>2. Next => C!Next \/ UNCHANGED clientVars
    <3>1. ClientCalls => C!Next
      BY DEF ClientCalls, C!Next
    <3>2. ClientConnects => C!Next
      BY DEF ClientConnects, C!Next, C!Handler
    <3>3. ASSUME NEW k \in 0..Len(toServer), OnConnect(k) PROVE C!Next
      BY <3>3 DEF OnConnect, C!Next
    <3>4. ASSUME NEW c \in 1..MaxConnections, LoseConnection(c) \/ OnClose(c) PROVE C!Next
      BY <3>4 DEF LoseConnection, OnClose, C!Next, C!Connections
    <3>5. GiveUp => C!Next
      BY DEF GiveUp, C!Next
    <3>6. LoseLine \/ HandleLine \/ HandleEntry \/ Poll \/ ServerSets \/ Read
            => UNCHANGED clientVars
      BY DEF LoseLine, HandleLine, HandleEntry, Poll, ServerSets, Read, ReadFirstPart, ReadRest
    <3> QED  BY <3>1, <3>2, <3>3, <3>4, <3>5, <3>6 DEF Next
  <2>3. UNCHANGED vars => UNCHANGED clientVars
    BY DEF vars
  <2> QED  BY <2>1, <2>2, <2>3, SameClient
<1> QED  BY <1>1, <1>2, PTL DEF Spec, CP!Spec

LEMMA ClientAssumptions == CP!SizesAreNumbers /\ CP!OffIsNoPeriod /\ CP!NoneIsNothing
<1>1. CP!SizesAreNumbers
  BY SizesAreNumbers DEF CP!SizesAreNumbers
<1>2. CP!OffIsNoPeriod
  BY OffIsNoPeriod DEF CP!OffIsNoPeriod
<1>3. CP!NoneIsNothing
  BY NoneIsNothing DEF CP!NoneIsNothing, CP!Connections, CP!Lines, CP!Remembered,
    CP!Subjects, CP!Contents, C!Connections, C!Lines, C!Remembered, C!Subjects, C!Contents
<1> QED  BY <1>1, <1>2, <1>3

LEMMA ClientTypes == Spec => []CP!TypeOK
<1>1. CP!Spec => []CP!TypeOK
  BY CP!TypeCorrect, ClientAssumptions
    DEF CP!SizesAreNumbers, CP!OffIsNoPeriod, CP!NoneIsNothing
<1> QED  BY <1>1, IsClient, PTL

-----------------------------------------------------------------------------
(* What travels: types that hold of the wires, of the link's two ends and  *)
(* of the server, whatever the client does.                                *)
Messages ==
    {m \in [subject : C!Subjects, content : Reals \cup {0, Off}] :
       m.content \in IF m.subject.kind = "watch" THEN {0, Off} ELSE Reals}

Words == [name : Names, value : Reals]

LinesTyped == toServer \in Seq(Messages \cup {Noise}) /\ stub \in Messages \cup {None}

(* The reader's buffer never holds anything of an older connection.        *)
LinkSound ==
    /\ toClient \in Seq(Words)
    /\ begun \in BOOLEAN
    /\ connection \in {None} \cup 1..opened
    /\ begun => C!Connected /\ toClient # <<>>
    /\ C!Connected => buffer = IF begun THEN <<Head(toClient)>> ELSE <<>>

ServerTyped ==
    /\ DOMAIN value = Names /\ \A n \in Names : value[n] \in Reals
    /\ held \in [Names -> SUBSET Reals]
    /\ dirty \subseteq Names
    /\ request \in {<<>>} \cup {<<e>> : e \in {WatchEntry(n) : n \in Names}
                                             \cup {UnwatchEntry(n) : n \in Names}}

Typed == LinesTyped /\ LinkSound /\ ServerTyped /\ mirror \in [Names -> Reals]

LEMMA SubjectFacts ==
    ASSUME NEW n \in Names
    PROVE  /\ C!WatchOf(n) \in C!Subjects /\ C!WatchOf(n).kind = "watch"
           /\ C!ValueOf(n) \in C!Subjects /\ C!ValueOf(n).kind = "set"
BY DEF C!WatchOf, C!ValueOf, C!Subjects

(* The lines the client writes are messages.                               *)
LEMMA WrittenAreMessages ==
    ASSUME NEW line \in C!Lines
    PROVE  [subject |-> line.subject, content |-> line.content] \in Messages
BY SetsAreReals DEF C!Lines, C!Contents, Messages

LEMMA CallsAreLines ==
    ASSUME NEW n \in Names
    PROVE  /\ LET line == C!CallLine(C!WatchOf(n), 0)
              IN  [subject |-> line.subject, content |-> line.content] \in Messages
           /\ LET line == C!CallLine(C!WatchOf(n), Off)
              IN  [subject |-> line.subject, content |-> line.content] \in Messages
           /\ \A v \in ClientValues :
                LET line == C!CallLine(C!ValueOf(n), v)
                IN  [subject |-> line.subject, content |-> line.content] \in Messages
BY SubjectFacts, SetsAreReals DEF C!CallLine, Messages

LEMMA GluedAreMessages ==
    ASSUME NEW cut \in Messages, NEW read \in Glued(cut)
    PROVE  read \in Messages \cup {Noise}
<1>1. CASE cut.subject.kind = "set" /\ read # Noise
  <2>1. PICK c \in Cuts[cut.content] : read = [cut EXCEPT !.content = c]
    BY <1>1 DEF Glued
  <2>2. cut.content \in Reals /\ c \in Reals
    BY <1>1, <2>1, CutsAreReals DEF Messages
  <2> QED  BY <1>1, <2>1, <2>2 DEF Messages
<1>2. CASE cut.subject.kind # "set"
  BY <1>2 DEF Glued
<1> QED  BY <1>1, <1>2

LEMMA SendsTyped ==
    ASSUME LinesTyped, NEW line, NEW outcome, Sends(line, outcome),
           [subject |-> line.subject, content |-> line.content] \in Messages
    PROVE  LinesTyped'
<1> DEFINE bare == [subject |-> line.subject, content |-> line.content]
<1>1. stub' \in Messages \cup {None}
  BY DEF Sends, LinesTyped
<1>2. ASSUME NEW m \in Messages \cup {Noise}, toServer' = Append(toServer, m)
      PROVE  toServer' \in Seq(Messages \cup {Noise})
  BY <1>2, AppendProperties DEF LinesTyped
<1>3. CASE outcome = "whole" /\ stub = None
  BY <1>1, <1>2, <1>3 DEF Sends, LinesTyped
<1>4. CASE outcome = "whole" /\ stub # None
  <2>1. PICK read \in Glued(stub) : toServer' = Append(toServer, read)
    BY <1>4 DEF Sends
  <2>2. read \in Messages \cup {Noise}
    BY <1>4, GluedAreMessages DEF LinesTyped
  <2> QED  BY <1>1, <1>2, <2>1, <2>2 DEF LinesTyped
<1>5. CASE outcome # "whole"
  BY <1>1, <1>5 DEF Sends, LinesTyped
<1> QED  BY <1>3, <1>4, <1>5

(* A write may lose the connection, and does nothing else to the link.     *)
LEMMA LinkKept ==
    ASSUME LinkSound, LinkFollows, UNCHANGED <<buffer, connection, opened>>, valid' \subseteq valid
    PROVE  LinkSound'
<1>1. (C!Connected)' => C!Connected
  BY DEF C!Connected
<1>2. CASE (C!Connected)'
  BY <1>1, <1>2 DEF LinkSound, LinkFollows
<1>3. CASE ~(C!Connected)'
  BY <1>3, EmptySeq DEF LinkSound, LinkFollows
<1> QED  BY <1>2, <1>3

LEMMA WritesKeepLink ==
    /\ \A line, outcome : C!QueueOrWrite(line, outcome) => valid' \subseteq valid
    /\ \A line, outcome : C!Transmit(line, outcome) => valid' \subseteq valid
<1>1. \A line, outcome : C!Transmit(line, outcome) => valid' \subseteq valid
  BY DEF C!Transmit
<1> QED  BY <1>1 DEF C!QueueOrWrite

(* The tables hold what the client may write on a new connection.          *)
LEMMA TablesHoldMessages ==
    ASSUME CP!TypeOK
    PROVE  /\ opened \in Nat
           /\ task = "flush" /\ pending[at] # None
                => [subject |-> pending[at].subject, content |-> pending[at].content] \in Messages
           /\ task = "replay" /\ remembered[at] # None
                => [subject |-> C!ReplayLine.subject, content |-> C!ReplayLine.content] \in Messages
<1>1. opened \in Nat
  BY SizesAreNumbers DEF CP!TypeOK
<1>2. ASSUME task = "flush", pending[at] # None PROVE pending[at] \in C!Lines
  <2>1. at \in CP!LineSlots
    BY <1>2 DEF CP!TypeOK
  <2>2. pending[at] \in CP!Lines
    BY <1>2, <2>1 DEF CP!TypeOK
  <2> QED  BY <2>2 DEF CP!Lines, C!Lines, CP!Contents, C!Contents, CP!Subjects, C!Subjects
<1>3. ASSUME task = "replay", remembered[at] # None
      PROVE  [subject |-> C!ReplayLine.subject, content |-> C!ReplayLine.content] \in Messages
  <2>1. at \in CP!WatchSlots
    BY <1>3 DEF CP!TypeOK
  <2>2. remembered[at] \in [name : Names, period : {0}]
    BY <1>3, <2>1 DEF CP!TypeOK, CP!Remembered
  <2> QED  BY <2>2, SubjectFacts DEF C!ReplayLine, Messages
<1> QED  BY <1>1, <1>2, <1>3, WrittenAreMessages

(* The server's side is left alone by everything the client does.          *)
LEMMA ServerLeftAlone ==
    ASSUME ServerTyped, UNCHANGED <<serverVars, held>>
    PROVE  ServerTyped'
BY DEF ServerTyped, serverVars

LEMMA ClientWritesTyped ==
    ASSUME Typed, NEW line, NEW outcome, ClientWrites(line, outcome),
           [subject |-> line.subject, content |-> line.content] \in Messages,
           UNCHANGED <<connection, opened>>, valid' \subseteq valid
    PROVE  Typed'
<1>1. LinesTyped'
  BY SendsTyped DEF ClientWrites, Typed
<1>2. LinkSound'
  BY LinkKept DEF ClientWrites, Typed
<1>3. ServerTyped'
  BY ServerLeftAlone DEF ClientWrites, Typed
<1> QED  BY <1>1, <1>2, <1>3 DEF ClientWrites, Typed

LEMMA ClientCallsTyped ==
    ASSUME Typed, ClientCalls
    PROVE  Typed'
<1>1. PICK n \in Names, outcome \in C!Outcomes :
         \/ C!Watch(n, 0, outcome) /\ ClientWrites(C!CallLine(C!WatchOf(n), 0), outcome)
         \/ C!Unwatch(n, outcome) /\ ClientWrites(C!CallLine(C!WatchOf(n), Off), outcome)
         \/ \E v \in ClientValues :
              C!Set(n, v, outcome) /\ ClientWrites(C!CallLine(C!ValueOf(n), v), outcome)
  BY DEF ClientCalls
<1>2. ASSUME NEW s, NEW content, C!Call(s, content, outcome)
      PROVE  UNCHANGED <<connection, opened>> /\ valid' \subseteq valid
  BY <1>2, WritesKeepLink DEF C!Call
<1>3. UNCHANGED <<connection, opened>> /\ valid' \subseteq valid
  BY <1>1, <1>2 DEF C!Watch, C!Unwatch, C!Set
<1> QED  BY <1>1, <1>3, CallsAreLines, ClientWritesTyped

LEMMA ClientConnectsTyped ==
    ASSUME Typed, CP!TypeOK, ClientConnects
    PROVE  Typed'
<1>1. CASE (C!FlushEmpty \/ C!ReplayEmpty) /\ UNCHANGED <<serverVars, wireVars>>
  BY <1>1 DEF C!FlushEmpty, C!ReplayEmpty, C!link, wireVars, serverVars, Typed, LinesTyped,
    LinkSound, ServerTyped, C!Connected
<1>2. ASSUME NEW outcome, C!FlushLine(outcome), ClientWrites(pending[at], outcome)
      PROVE  Typed'
  <2>1. UNCHANGED <<connection, opened>> /\ valid' \subseteq valid
    BY <1>2, WritesKeepLink DEF C!FlushLine
  <2>2. [subject |-> pending[at].subject, content |-> pending[at].content] \in Messages
    BY <1>2, TablesHoldMessages DEF C!FlushLine
  <2> QED  BY <1>2, <2>1, <2>2, ClientWritesTyped
<1>3. ASSUME NEW outcome, C!ReplayWatch(outcome), ClientWrites(C!ReplayLine, outcome)
      PROVE  Typed'
  <2>1. UNCHANGED <<connection, opened>> /\ valid' \subseteq valid
    BY <1>3, WritesKeepLink DEF C!ReplayWatch
  <2>2. [subject |-> C!ReplayLine.subject, content |-> C!ReplayLine.content] \in Messages
    BY <1>3, TablesHoldMessages DEF C!ReplayWatch
  <2> QED  BY <1>3, <2>1, <2>2, ClientWritesTyped
<1> QED  BY <1>1, <1>2, <1>3 DEF ClientConnects

LEMMA EndLost ==
    ASSUME LinesTyped, NEW k \in Int, k <= Len(toServer)
    PROVE  SubSeq(toServer, 1, k) \in Seq(Messages \cup {Noise})
<1>1. \A i \in 1..k : toServer[i] \in Messages \cup {Noise}
  BY ElementOfSeq, LenProperties DEF LinesTyped
<1> QED  BY <1>1, SubSeqProperties

(* Connections come and go.                                                *)
LEMMA ConnectionsTyped ==
    ASSUME Typed, CP!TypeOK,
           \/ \E arriving \in 0..Len(toServer) : OnConnect(arriving)
           \/ \E c \in 1..MaxConnections : LoseConnection(c) \/ OnClose(c)
           \/ GiveUp
           \/ LoseLine
    PROVE  Typed'
<1> USE DEF Typed
<1>1. ASSUME NEW arriving \in 0..Len(toServer), OnConnect(arriving) PROVE Typed'
  <2>1. LinesTyped'
    BY <1>1, EndLost, LenProperties DEF OnConnect, LinesTyped
  <2>2. connection' = opened + 1 /\ opened' = opened + 1 /\ connection' # connection
    <3>1. connection' = opened + 1 /\ opened' = opened + 1 /\ opened < MaxConnections
      BY <1>1 DEF OnConnect, C!OnConnect
    <3>2. opened + 1 \in C!Connections /\ opened + 1 \notin 1..opened
      BY <3>1, TablesHoldMessages, SizesAreNumbers DEF C!Connections
    <3>3. opened + 1 # None
      BY <3>2, NoneIsNothing
    <3> QED  BY <3>1, <3>2, <3>3 DEF LinkSound
  <2>3. LinkSound'
    <3>1. toClient' = <<>> /\ begun' = FALSE /\ buffer' = <<>>
      BY <1>1, <2>2, Zenon DEF OnConnect, LinkFollows, ResetReader
    <3>2. connection' \in 1..opened'
      BY <2>2, TablesHoldMessages
    <3> QED  BY <3>1, <3>2, EmptySeq DEF LinkSound
  <2>4. ServerTyped'
    BY <1>1, ServerLeftAlone DEF OnConnect
  <2> QED  BY <1>1, <2>1, <2>3, <2>4 DEF OnConnect
<1>2. ASSUME NEW c \in 1..MaxConnections, LoseConnection(c) PROVE Typed'
  <2>1. LinkSound'
    BY <1>2, LinkKept DEF LoseConnection, C!LoseConnection
  <2> QED  BY <1>2, <2>1, ServerLeftAlone DEF LoseConnection, LinesTyped
<1>3. ASSUME NEW c \in 1..MaxConnections, OnClose(c) PROVE Typed'
  <2>1. CASE c = connection
    BY <1>3, <2>1, EmptySeq, ServerLeftAlone
       DEF OnClose, C!OnClose, C!Detach, C!Connected, LinkFollows, LinkSound, ResetReader, LinesTyped
  <2>2. CASE c # connection
    BY <1>3, <2>2, LinkKept, ServerLeftAlone DEF OnClose, C!OnClose, LinesTyped
  <2> QED  BY <2>1, <2>2
<1>4. CASE GiveUp
  <2>1. connection' = None /\ UNCHANGED opened
    BY <1>4 DEF GiveUp, C!OnError, C!Close, C!Detach
  <2>2. LinkSound'
    BY <1>4, <2>1, EmptySeq DEF GiveUp, C!Connected, LinkFollows, LinkSound, ResetReader
  <2> QED  BY <1>4, <2>2, ServerLeftAlone DEF GiveUp, LinesTyped
<1>5. CASE LoseLine
  <2>1. LinesTyped'
    BY <1>5, EndLost, LenProperties DEF LoseLine, LinesTyped, Front
  <2>2. LinkSound'
    BY <1>5 DEF LoseLine, clientVars, LinkSound, C!Connected
  <2> QED  BY <1>5, <2>1, <2>2, ServerLeftAlone DEF LoseLine
<1> QED  BY <1>1, <1>2, <1>3, <1>4, <1>5

(* The server's output goes behind what the client has not read.           *)
LEMMA PostStep ==
    ASSUME LinkSound, ServerTyped, NEW names \in Seq(Names), Post(names),
           UNCHANGED <<connection, valid, opened, begun, buffer>>
    PROVE  /\ LinkSound'
           /\ \A i \in 1..Len(toClient') :
                \/ i \in 1..Len(toClient) /\ toClient'[i] = toClient[i]
                \/ toClient'[i].name \in Names /\ toClient'[i].value = value[toClient'[i].name]
<1> DEFINE words == [i \in 1..Len(names) |-> [name |-> names[i], value |-> value[names[i]]]]
<1>1. Len(names) \in Nat /\ DOMAIN names = 1..Len(names) /\ \A i \in 1..Len(names) : names[i] \in Names
  BY LenProperties, ElementOfSeq
<1>2. words \in Seq(Words) /\ Len(words) = Len(names)
  BY <1>1 DEF ServerTyped, Words
<1>3. toClient' = IF C!Connected THEN toClient \o words ELSE toClient
  BY <1>1 DEF Post
<1>4. (C!Connected)' <=> C!Connected
  BY DEF C!Connected
<1>5. CASE C!Connected
  <2> HIDE DEF words
  <2>1. /\ toClient' \in Seq(Words) /\ Len(toClient') = Len(toClient) + Len(words)
        /\ Len(toClient) \in Nat
        /\ \A i \in 1..(Len(toClient) + Len(words)) :
             toClient'[i] = IF i <= Len(toClient) THEN toClient[i] ELSE words[i - Len(toClient)]
    <3>1. toClient \in Seq(Words) /\ words \in Seq(Words) /\ toClient' = toClient \o words
      BY <1>2, <1>3, <1>5 DEF LinkSound
    <3>2. toClient \o words \in Seq(Words)
      BY <3>1, ConcatProperties, Zenon
    <3> QED  BY <3>1, <3>2, ConcatProperties, LenProperties
  <2>2. toClient # <<>> => toClient' # <<>> /\ Head(toClient') = Head(toClient)
    <3> SUFFICES ASSUME toClient # <<>>
                 PROVE  toClient' # <<>> /\ Head(toClient') = Head(toClient)
      OBVIOUS
    <3>1. Len(toClient) > 0
      BY <2>1, EmptySeq DEF LinkSound
    <3>2. toClient' # <<>> /\ toClient'[1] = toClient[1]
      BY <1>1, <1>2, <2>1, <3>1
    <3> QED  BY <3>2
  <2>3. LinkSound'
    BY <1>4, <2>1, <2>2 DEF LinkSound
  <2>4. ASSUME NEW i \in 1..Len(toClient')
        PROVE  \/ i \in 1..Len(toClient) /\ toClient'[i] = toClient[i]
               \/ toClient'[i].name \in Names /\ toClient'[i].value = value[toClient'[i].name]
    <3>1. CASE i <= Len(toClient)
      BY <2>1, <3>1
    <3>2. CASE ~(i <= Len(toClient))
      <4>1. i - Len(toClient) \in 1..Len(names) /\ toClient'[i] = words[i - Len(toClient)]
        BY <1>1, <1>2, <2>1, <3>2
      <4> QED  BY <1>1, <4>1 DEF words
    <3> QED  BY <3>1, <3>2
  <2> QED  BY <2>3, <2>4
<1>6. CASE ~C!Connected
  BY <1>3, <1>4, <1>6 DEF LinkSound
<1> QED  BY <1>5, <1>6

(* A poll writes the lines of fields, each in its place.                   *)
LEMMA PollPosts ==
    ASSUME ServerTyped, Poll
    PROVE  \E names \in Seq(Names) : Post(names)
<1> DEFINE places == 1..Len(S!AllFields)
           every == {<<n, S!AllFields[n]>> : n \in places}
           line == [n \in places |-> <<n, S!AllFields[n]>>]
<1>1. IsFiniteSet(places)
  <2>1. Len(S!AllFields) \in Int
    BY DEF S!AllFields
  <2> QED  BY <2>1, FS_Interval
<1>2. line \in Surjection(places, every)
  <2> HIDE DEF places
  <2> QED  BY DEF Surjection
<1>3. IsFiniteSet(every)
  <2> HIDE DEF places, every, line
  <2> QED  BY <1>1, <1>2, FS_Surjection
<1>4. S!ChangedLines \subseteq every
  <2> HIDE DEF places
  <2> QED  BY DEF S!ChangedLines, places
<1>5. Cardinality(S!ChangedLines) \in Nat
  <2> HIDE DEF every
  <2> QED  BY <1>3, <1>4, FS_Subset, FS_CardinalityType
<1>6. \A l \in S!ChangedLines : l[2] \in Names
  BY DEF S!ChangedLines, ServerTyped
<1>7. PICK lines \in [1..Cardinality(S!ChangedLines) -> S!ChangedLines] :
        Post([i \in DOMAIN lines |-> lines[i][2]])
  BY DEF Poll
<1>8. [i \in DOMAIN lines |-> lines[i][2]] \in Seq(Names)
  BY <1>5, <1>6
<1> QED  BY <1>7, <1>8

-----------------------------------------------------------------------------
(* A value the client shows, or is on its way to it, was the server's.     *)
Genuine ==
    /\ \A n \in Names : value[n] \in held[n] /\ mirror[n] \in held[n]
    /\ \A i \in 1..Len(toClient) : toClient[i].value \in held[toClient[i].name]

LEMMA SettingHolds ==
    ASSUME Typed, NEW n \in Names, NEW v \in Reals, S!SetField(n, v), UNCHANGED request
    PROVE  /\ Hold => ServerTyped'
           /\ Hold => \A m \in Names : value'[m] \in held'[m] /\ held[m] \subseteq held'[m]
<1>1. DOMAIN value' = Names /\ \A m \in Names : value'[m] \in Reals
  BY DEF S!SetField, Typed, ServerTyped
<1>2. dirty' \subseteq Names
  BY DEF S!SetField, Typed, ServerTyped
<1> QED  BY <1>1, <1>2 DEF Hold, Typed, ServerTyped

LEMMA SameGenuine ==
    ASSUME Genuine, UNCHANGED <<toClient, mirror>>, Typed,
           \A m \in Names : value'[m] \in held'[m] /\ held[m] \subseteq held'[m]
    PROVE  Genuine'
<1>1. ASSUME NEW i \in 1..Len(toClient) PROVE toClient[i].name \in Names
  <2>1. toClient[i] \in Words
    BY ElementOfSeq DEF Typed, LinkSound
  <2> QED  BY <2>1 DEF Words
<1> QED  BY <1>1 DEF Genuine

LEMMA HandleLineStep ==
    ASSUME Typed, Genuine, HandleLine
    PROVE  Typed' /\ Genuine'
<1> DEFINE line == Head(toServer)
<1>0. /\ Hold
      /\ \/ line = Noise /\ S!Refuse
         \/ line # Noise /\ line.subject.kind = "set"
            /\ S!Assign(line.subject.name, line.content)
         \/ line # Noise /\ line.subject.kind = "watch" /\ line.content = Off
            /\ S!BeginWatch(<<UnwatchEntry(line.subject.name)>>)
         \/ line # Noise /\ line.subject.kind = "watch" /\ line.content # Off
            /\ S!BeginWatch(<<WatchEntry(line.subject.name)>>)
  BY Zenon DEF HandleLine
<1>1. line \in Messages \cup {Noise} /\ toServer' \in Seq(Messages \cup {Noise})
  BY HeadTailProperties DEF HandleLine, Typed, LinesTyped
<1>2. LinesTyped' /\ LinkSound' /\ UNCHANGED <<toClient, mirror>>
  BY <1>1 DEF HandleLine, clientVars, Typed, LinesTyped, LinkSound, C!Connected
<1>3. ASSUME UNCHANGED <<value, dirty>>, Hold,
             request' \in {<<>>} \cup {<<e>> : e \in {WatchEntry(n) : n \in Names}
                                                     \cup {UnwatchEntry(n) : n \in Names}}
      PROVE  ServerTyped' /\ Genuine'
  <2>1. \A m \in Names : value'[m] \in held'[m] /\ held[m] \subseteq held'[m]
    BY <1>3 DEF Hold
  <2>2. ServerTyped'
    BY <1>3 DEF Hold, Typed, ServerTyped
  <2> QED  BY <1>2, <2>1, <2>2, SameGenuine
<1>4. ASSUME line = Noise, S!Refuse PROVE ServerTyped' /\ Genuine'
  BY <1>0, <1>3, <1>4 DEF S!Refuse, Typed, ServerTyped
<1>5. ASSUME line # Noise, line.subject.kind = "set", S!Assign(line.subject.name, line.content)
      PROVE  ServerTyped' /\ Genuine'
  <2>1. line.subject.name \in Names /\ line.content \in Reals
    BY <1>1, <1>5 DEF Messages, C!Subjects
  <2>2. S!SetField(line.subject.name, line.content) /\ UNCHANGED request
    BY <1>5 DEF S!Assign
  <2> QED  BY <1>0, <1>2, <2>1, <2>2, SettingHolds, SameGenuine
<1>6. ASSUME line # Noise, line.subject.kind = "watch", line.content = Off,
             S!BeginWatch(<<UnwatchEntry(line.subject.name)>>)
      PROVE  ServerTyped' /\ Genuine'
  <2>1. line.subject.name \in Names
    BY <1>1, <1>6 DEF Messages, C!Subjects
  <2> QED  BY <1>0, <1>3, <1>6, <2>1 DEF S!BeginWatch, S!registryVars
<1>7. ASSUME line # Noise, line.subject.kind = "watch", line.content # Off,
             S!BeginWatch(<<WatchEntry(line.subject.name)>>)
      PROVE  ServerTyped' /\ Genuine'
  <2>1. line.subject.name \in Names
    BY <1>1, <1>7 DEF Messages, C!Subjects
  <2> QED  BY <1>0, <1>3, <1>7, <2>1 DEF S!BeginWatch, S!registryVars
<1>8. ServerTyped' /\ Genuine'
  BY <1>0, <1>4, <1>5, <1>6, <1>7
<1> QED  BY <1>2, <1>8 DEF Typed

LEMMA OutputStep ==
    ASSUME Typed, Genuine, NEW names \in Seq(Names), Post(names), ServerTyped',
           UNCHANGED <<clientVars, value, toServer, stub, begun, buffer, mirror, held>>
    PROVE  Typed' /\ Genuine'
<1>1. LinkSound'
  BY PostStep DEF clientVars, Typed
<1>2. ASSUME NEW i \in 1..Len(toClient') PROVE toClient'[i].value \in held'[toClient'[i].name]
  <2>1. \/ i \in 1..Len(toClient) /\ toClient'[i] = toClient[i]
        \/ toClient'[i].name \in Names /\ toClient'[i].value = value[toClient'[i].name]
    BY PostStep DEF clientVars, Typed
  <2> QED  BY <2>1 DEF Genuine
<1> QED  BY <1>1, <1>2 DEF Typed, LinesTyped, Genuine

LEMMA HandleEntryStep ==
    ASSUME Typed, Genuine, HandleEntry
    PROVE  Typed' /\ Genuine'
<1>1. PICK e \in {WatchEntry(n) : n \in Names} \cup {UnwatchEntry(n) : n \in Names} :
         request = <<e>>
  BY DEF HandleEntry, S!HandleEntry, S!FailEntry, S!ListValues, S!UnwatchEntry, S!WatchEntry,
    S!Idle, Typed, ServerTyped
<1>2. Head(request) = e /\ Tail(request) = <<>> /\ e.key \in Names
  BY <1>1 DEF WatchEntry, UnwatchEntry
<1>3. UNCHANGED <<value, dirty>> /\ request' = <<>>
  BY <1>2 DEF HandleEntry, S!HandleEntry, S!FailEntry, S!ListValues, S!UnwatchEntry,
    S!WatchEntry, S!Watch, S!Unwatch, S!registryVars
<1>4. ServerTyped'
  BY <1>3 DEF HandleEntry, Typed, ServerTyped
<1>5. \E names \in Seq(Names) : Post(names) \/ UNCHANGED toClient
  <2>1. <<e.key>> \in Seq(Names)
    BY <1>2
  <2> QED  BY <1>2, <2>1 DEF HandleEntry
<1>6. CASE UNCHANGED toClient
  BY <1>3, <1>4, <1>6 DEF HandleEntry, clientVars, Typed, LinesTyped, LinkSound, C!Connected, Genuine
<1> QED  BY <1>3, <1>4, <1>5, <1>6, OutputStep DEF HandleEntry

LEMMA PollStep ==
    ASSUME Typed, Genuine, Poll
    PROVE  Typed' /\ Genuine'
<1>1. ServerTyped' /\ UNCHANGED value
  BY DEF Poll, S!Poll, S!EmitWatches, Typed, ServerTyped
<1>2. PICK names \in Seq(Names) : Post(names)
  BY PollPosts DEF Typed
<1> QED  BY <1>1, <1>2, OutputStep DEF Poll

LEMMA ServerSetsStep ==
    ASSUME Typed, Genuine, ServerSets
    PROVE  Typed' /\ Genuine'
<1>1. PICK n \in Names, v \in ServerValues : S!SetValue(n, v)
  BY DEF ServerSets
<1>2. v \in Reals /\ S!SetField(n, v) /\ UNCHANGED request
  BY <1>1, SetsAreReals DEF S!SetValue
<1>3. ServerTyped' /\ Genuine'
  BY <1>2, SettingHolds, SameGenuine DEF ServerSets
<1> QED
  BY <1>3 DEF ServerSets, clientVars, Typed, LinesTyped, LinkSound, C!Connected

(* What is read was sent: the buffer holds the first part of that line.    *)
LEMMA ReadStep ==
    ASSUME Typed, Genuine, Read
    PROVE  Typed' /\ Genuine'
<1>1. Head(toClient) \in Words /\ Tail(toClient) \in Seq(Words)
      /\ Len(Tail(toClient)) = Len(toClient) - 1
      /\ \A i \in 1..Len(Tail(toClient)) : Tail(toClient)[i] = toClient[i + 1]
  BY HeadTailProperties DEF Read, ReadFirstPart, ReadRest, Readable, Typed, LinkSound
<1>2. CASE ReadFirstPart
  <2>1. C!Connected /\ toClient # <<>> /\ ~begun /\ buffer = <<>>
    BY <1>2 DEF ReadFirstPart, Readable, Typed, LinkSound
  <2>2. buffer' = <<Head(toClient)>>
    BY <1>2, <2>1 DEF ReadFirstPart
  <2> QED
    BY <1>2, <2>1, <2>2 DEF ReadFirstPart, clientVars, serverVars, Typed, LinesTyped, LinkSound,
      ServerTyped, C!Connected, Genuine
<1>3. CASE ReadRest
  <2>1. C!Connected /\ toClient # <<>> /\ buffer = <<Head(toClient)>>
    BY <1>3 DEF ReadRest, Readable, Typed, LinkSound
  <2>2. mirror' = [mirror EXCEPT ![Head(toClient).name] = Head(toClient).value]
    <3>1. Reading = {[name |-> Head(toClient).name, value |-> Head(toClient).value]}
      <4>1. Len(buffer) = 1 /\ Head(buffer) = Head(toClient)
        BY <2>1
      <4> QED  BY <4>1 DEF Reading
    <3>2. PICK read \in Reading : mirror' = [mirror EXCEPT ![read.name] = read.value]
      BY <1>3, Zenon DEF ReadRest
    <3>3. read.name = Head(toClient).name /\ read.value = Head(toClient).value
      BY <3>1, <3>2
    <3> QED  BY <3>2, <3>3, Zenon
  <2>3. Head(toClient).name \in Names /\ Head(toClient).value \in Reals
        /\ Head(toClient).value \in held[Head(toClient).name]
    <3>1. Len(toClient) >= 1 /\ Len(toClient) \in Nat
      BY <2>1, EmptySeq, LenProperties DEF Typed, LinkSound
    <3> QED  BY <1>1, <3>1 DEF Words, Genuine
  <2>4. Typed'
    <3>1. LinkSound'
      BY <1>1, <1>3 DEF ReadRest, clientVars, Typed, LinkSound, C!Connected
    <3>2. LinesTyped' /\ ServerTyped'
      BY <1>3, ServerLeftAlone DEF ReadRest, Typed, LinesTyped
    <3> QED  BY <2>2, <2>3, <3>1, <3>2 DEF Typed
  <2>5. Genuine'
    <3>1. \A i \in 1..Len(toClient') : toClient'[i] = toClient[i + 1] /\ i + 1 \in 1..Len(toClient)
      BY <1>1, <1>3, LenProperties DEF ReadRest, Typed, LinkSound
    <3>2. \A i \in 1..Len(toClient') : toClient'[i].value \in held[toClient'[i].name]
      BY <3>1 DEF Genuine
    <3> QED  BY <1>3, <2>2, <2>3, <3>2 DEF ReadRest, serverVars, Genuine, Typed
  <2> QED  BY <2>4, <2>5
<1> QED  BY <1>2, <1>3 DEF Read

LEMMA InitTyped == Init => Typed /\ Genuine
<1> SUFFICES ASSUME Init PROVE Typed /\ Genuine
  OBVIOUS
<1>1. \A n \in Names : value[n] = 0
  BY NamesAreReals DEF Init, S!Init, S!RegistryInit, S!Default, S!BooleanFields, S!StringFields
<1>2. LinesTyped
  BY EmptySeq DEF Init, LinesTyped
<1>3. LinkSound
  BY EmptySeq DEF Init, C!Init, LinkSound, C!Connected
<1>4. ServerTyped
  BY <1>1, RealsAreNumbers DEF Init, S!Init, S!RegistryInit, ServerTyped
<1>5. mirror \in [Names -> Reals] /\ \A n \in Names : mirror[n] = 0 /\ held[n] = {0}
  BY RealsAreNumbers DEF Init
<1>6. Len(toClient) = 0
  BY EmptySeq DEF Init
<1> QED  BY <1>1, <1>2, <1>3, <1>4, <1>5, <1>6 DEF Typed, Genuine

(* What the client does adds nothing to what it reads.                     *)
LEMMA ClientKeepsGenuine ==
    ASSUME Genuine,
           \/ ClientCalls \/ ClientConnects
           \/ \E arriving \in 0..Len(toServer) : OnConnect(arriving)
           \/ \E c \in 1..MaxConnections : LoseConnection(c) \/ OnClose(c)
           \/ GiveUp \/ LoseLine
    PROVE  Genuine'
<1>1. UNCHANGED <<value, mirror, held>> /\ (toClient' = <<>> \/ UNCHANGED toClient)
  <2>1. \A line, outcome : ClientWrites(line, outcome)
          => UNCHANGED <<value, mirror, held>> /\ (toClient' = <<>> \/ UNCHANGED toClient)
    BY DEF ClientWrites, LinkFollows, serverVars
  <2>2. CASE ClientCalls
    BY <2>1, <2>2 DEF ClientCalls
  <2>3. CASE ClientConnects
    BY <2>1, <2>3 DEF ClientConnects, serverVars, wireVars
  <2>4. ASSUME NEW arriving, OnConnect(arriving)
        PROVE  UNCHANGED <<value, mirror, held>> /\ (toClient' = <<>> \/ UNCHANGED toClient)
    BY <2>4 DEF OnConnect, LinkFollows, serverVars
  <2>5. ASSUME NEW c, LoseConnection(c) \/ OnClose(c)
        PROVE  UNCHANGED <<value, mirror, held>> /\ (toClient' = <<>> \/ UNCHANGED toClient)
    BY <2>5 DEF LoseConnection, OnClose, LinkFollows, serverVars
  <2>6. CASE GiveUp \/ LoseLine
    BY <2>6 DEF GiveUp, LoseLine, LinkFollows, serverVars
  <2> QED  BY <2>2, <2>3, <2>4, <2>5, <2>6
<1>2. Len(<<>>) = 0
  BY EmptySeq
<1> QED  BY <1>1, <1>2 DEF Genuine

LEMMA TypedStep ==
    ASSUME CP!TypeOK, Typed, Genuine, [Next]_vars
    PROVE  Typed' /\ Genuine'
<1>1. CASE ClientCalls
  BY <1>1, ClientCallsTyped, ClientKeepsGenuine
<1>2. CASE ClientConnects
  BY <1>2, ClientConnectsTyped, ClientKeepsGenuine
<1>3. CASE \/ \E arriving \in 0..Len(toServer) : OnConnect(arriving)
           \/ \E c \in 1..MaxConnections : LoseConnection(c) \/ OnClose(c)
           \/ GiveUp \/ LoseLine
  BY <1>3, ConnectionsTyped, ClientKeepsGenuine
<1>4. CASE HandleLine \/ HandleEntry \/ Poll \/ ServerSets \/ Read
  BY <1>4, HandleLineStep, HandleEntryStep, PollStep, ServerSetsStep, ReadStep
<1>5. CASE UNCHANGED vars
  BY <1>5 DEF vars, clientVars, serverVars, wireVars, Typed, LinesTyped, LinkSound, ServerTyped,
    C!Connected, Genuine
<1> QED  BY <1>1, <1>2, <1>3, <1>4, <1>5 DEF Next

LEMMA AlwaysTyped == Spec => [](Typed /\ Genuine)
<1> DEFINE Inv == Typed /\ Genuine
<1>1. Init => Inv
  BY InitTyped
<1>2. CP!TypeOK /\ Inv /\ [Next]_vars => Inv'
  BY TypedStep
<1> HIDE DEF Inv
<1>3. Spec => []Inv
  BY <1>1, <1>2, ClientTypes, PTL DEF Spec
<1> QED  BY <1>3 DEF Inv

(* What is on its way keeps its type over any number of connections, and   *)
(* a line begun is alone in the reader's buffer.                           *)
THEOREM TypeCorrect == Spec => []TypeOK
<1>1. Typed => TypeOK
  <2> SUFFICES ASSUME Typed PROVE TypeOK
    OBVIOUS
  <2>1. ASSUME NEW i \in DOMAIN toServer
        PROVE  toServer[i] = Noise \/ toServer[i].subject \in C!Subjects
    <3>1. toServer[i] \in Messages \cup {Noise}
      BY ElementOfSeq, LenProperties DEF Typed, LinesTyped
    <3> QED  BY <3>1 DEF Messages
  <2>2. ASSUME NEW i \in DOMAIN toClient PROVE toClient[i] \in [name : Names, value : Reals]
    BY ElementOfSeq, LenProperties DEF Typed, LinkSound, Words
  <2>3. begun => Len(buffer) = 1
    <3>1. \A x : Len(<<x>>) = 1
      OBVIOUS
    <3> QED  BY <3>1, Zenon DEF Typed, LinkSound
  <2> QED  BY <2>1, <2>2, <2>3 DEF Typed, LinkSound, ServerTyped, TypeOK
<1> QED  BY <1>1, AlwaysTyped, PTL

(* The client shows no value that the server has not had, however          *)
(* connections die within lines.                                           *)
THEOREM MirrorIsAlwaysGenuine == Spec => []MirrorIsGenuine
<1>1. Genuine => MirrorIsGenuine
  BY DEF Genuine, MirrorIsGenuine
<1> QED  BY <1>1, AlwaysTyped, PTL

-----------------------------------------------------------------------------
(* Every step of the session is one of the server's, or none of its.       *)
LEMMA NamesAreRealFields ==
    ASSUME NEW n \in Names
    PROVE  n \in S!WritableFields /\ S!Domain(n) = Reals
BY NamesAreReals DEF S!WritableFields, S!Domain, S!BooleanFields, S!StringFields

LEMMA IsServer == Spec => SP!Spec
<1>1. Init => SP!Init
  BY SameServer DEF Init
<1>2. ASSUME Typed, HandleLine PROVE S!Next
  <2> DEFINE line == Head(toServer)
  <2>1. line \in Messages \cup {Noise}
    BY <1>2, HeadTailProperties DEF HandleLine, Typed, LinesTyped
  <2>2. line # Noise => line.subject.name \in Names
                        /\ (line.subject.kind = "set" => line.content \in Reals)
    BY <2>1 DEF Messages, C!Subjects
  <2>3. \/ line = Noise /\ S!Refuse
        \/ line # Noise /\ line.subject.kind = "set"
           /\ S!Assign(line.subject.name, line.content)
        \/ line # Noise /\ S!BeginWatch(<<UnwatchEntry(line.subject.name)>>)
        \/ line # Noise /\ S!BeginWatch(<<WatchEntry(line.subject.name)>>)
    BY <1>2, Zenon DEF HandleLine
  <2> HIDE DEF line
  <2>4. ASSUME NEW n \in Names, S!BeginWatch(<<WatchEntry(n)>>) \/ S!BeginWatch(<<UnwatchEntry(n)>>)
        PROVE  S!Next
    BY <2>4, Zenon DEF S!Next
  <2> QED  BY <2>2, <2>3, <2>4, NamesAreRealFields DEF S!Next
<1>3. ASSUME ServerSets PROVE S!Next
  <2>1. PICK n \in Names, v \in ServerValues : S!SetValue(n, v)
    BY <1>3 DEF ServerSets
  <2> QED  BY <2>1, SetsAreReals, NamesAreRealFields DEF S!Next
<1>4. ClientCalls \/ ClientConnects => UNCHANGED serverVars
  BY DEF ClientCalls, ClientConnects, ClientWrites
<1>5. ASSUME NEW k, OnConnect(k) \/ LoseConnection(k) \/ OnClose(k) PROVE UNCHANGED serverVars
  BY <1>5 DEF OnConnect, LoseConnection, OnClose
<1>6. GiveUp \/ LoseLine \/ Read \/ UNCHANGED vars => UNCHANGED serverVars
  BY DEF GiveUp, LoseLine, Read, ReadFirstPart, ReadRest, vars
<1>7. HandleEntry \/ Poll => S!Next
  BY DEF HandleEntry, Poll, S!Next
<1>8. UNCHANGED serverVars => UNCHANGED SP!vars
  BY DEF serverVars, SP!vars
<1>9. Typed /\ [Next]_vars => [SP!Next]_(SP!vars)
  BY <1>2, <1>3, <1>4, <1>5, <1>6, <1>7, <1>8, SameServer DEF Next
<1> QED  BY <1>1, <1>9, AlwaysTyped, PTL DEF Spec, SP!Spec

LEMMA ServerAssumptions ==
    /\ SP!FieldsAreKnown /\ SP!EverySlotCounts /\ SP!RealsAreNumbers /\ SP!TextIsText
    /\ SP!ClockIsBounded /\ SP!FreeIsNoWatch /\ SP!RequestsAreEntries /\ SP!UnknownIsUnknown
<1>1. SP!FieldsAreKnown
  BY NamesAreReals DEF SP!FieldsAreKnown, SP!AllFields
<1>2. SP!EverySlotCounts
  <2>1. SP!Cardinality(Names) = Cardinality(Names)
    BY Zenon DEF SP!Cardinality, Cardinality
  <2> QED  BY <2>1, SizesAreNumbers DEF SP!EverySlotCounts
<1>6. SP!RealsAreNumbers /\ SP!ClockIsBounded
  BY RealsAreNumbers DEF SP!RealsAreNumbers, SP!ClockIsBounded
<1>7. SP!TextIsText
  BY DEF SP!TextIsText
<1>3. SP!FreeIsNoWatch
  BY FreeIsNoWatch DEF SP!FreeIsNoWatch, SP!Watches, S!Watches
<1>4. SP!RequestsAreEntries
  <2>1. ASSUME NEW n \in Names
        PROVE  WatchEntry(n) \in SP!Entries /\ UnwatchEntry(n) \in SP!Entries
    BY DEF WatchEntry, UnwatchEntry, SP!Entries
  <2>2. ASSUME NEW e \in SP!Entries PROVE <<e>> \in Seq(SP!Entries)
    OBVIOUS
  <2> QED  BY <2>1, <2>2 DEF SP!RequestsAreEntries
<1>5. SP!UnknownIsUnknown
  BY NamesAreReals DEF SP!UnknownIsUnknown
<1> QED  BY <1>1, <1>2, <1>3, <1>4, <1>5, <1>6, <1>7

LEMMA ServerFacts == Spec => [](SP!TypeOK /\ SP!WatchNeverRefused)
<1>1. SP!Spec => []SP!TypeOK
  BY SP!TypeCorrect, ServerAssumptions
     DEF SP!FieldsAreKnown, SP!EverySlotCounts, SP!RealsAreNumbers, SP!TextIsText,
       SP!ClockIsBounded, SP!FreeIsNoWatch, SP!RequestsAreEntries, SP!UnknownIsUnknown
<1>2. SP!Spec => []SP!WatchNeverRefused
  BY SP!WatchIsNeverRefused, ServerAssumptions
     DEF SP!FieldsAreKnown, SP!EverySlotCounts, SP!RealsAreNumbers, SP!TextIsText,
       SP!ClockIsBounded, SP!FreeIsNoWatch, SP!RequestsAreEntries, SP!UnknownIsUnknown
<1> QED  BY <1>1, <1>2, IsServer, PTL

-----------------------------------------------------------------------------
(***************************************************************************)
(* What the client has told a connection, the server will come to: as long *)
(* as the connection lives, either the last line about the name's watch    *)
(* that is still under way asks for it, or none is under way and the       *)
(* server is at it or has done it.                                         *)
(***************************************************************************)
Underway(n) == {i \in 1..Len(toServer) : toServer[i].subject = C!WatchOf(n)}

LastAsks(n) == \E i \in Underway(n) :
    toServer[i].content = 0 /\ \A j \in Underway(n) : j <= i

Assured(n) ==
    \/ LastAsks(n)
    \/ /\ Underway(n) = {}
       /\ \/ request = <<WatchEntry(n)>>
          \/ Watched(n) /\ request # <<UnwatchEntry(n)>>

Promised ==
    C!Connected => /\ fragment <=> stub # None
                   /\ \A n \in Names : told[C!WatchOf(n)] = 0 => Assured(n)

LEMMA SubjectsAreApart ==
    ASSUME NEW n \in Names
    PROVE  C!WatchOf(n) # None /\ \A m : C!WatchOf(m) = C!WatchOf(n) => m = n
<1>1. C!WatchOf(n) # None
  BY SubjectFacts, NoneIsNothing
<1>2. \A m : C!WatchOf(m) = C!WatchOf(n) => m = n
  BY DEF C!WatchOf
<1> QED  BY <1>1, <1>2

(* A line about something else, behind the others, changes nothing.        *)
LEMMA OtherLineBehind ==
    ASSUME LinesTyped, NEW n \in Names, NEW m \in Messages \cup {Noise},
           m.subject # C!WatchOf(n), toServer' = Append(toServer, m),
           UNCHANGED <<request, watches>>
    PROVE  Assured(n)' <=> Assured(n)
<1>1. /\ Len(toServer) \in Nat /\ Len(toServer') = Len(toServer) + 1
      /\ toServer'[Len(toServer) + 1] = m
      /\ \A i \in 1..Len(toServer) : toServer'[i] = toServer[i]
  BY AppendProperties, LenProperties DEF LinesTyped
<1>2. Underway(n)' = Underway(n)
  BY <1>1 DEF Underway
<1>3. \A i \in Underway(n) : toServer'[i] = toServer[i]
  BY <1>1 DEF Underway
<1>4. LastAsks(n)' <=> LastAsks(n)
  BY <1>2, <1>3 DEF LastAsks
<1> QED  BY <1>2, <1>4 DEF Assured, Watched

LEMMA AskBehind ==
    ASSUME LinesTyped, NEW n \in Names, NEW m \in Messages, m.subject = C!WatchOf(n),
           toServer' = Append(toServer, m)
    PROVE  Assured(n)' <=> m.content = 0
<1>1. /\ Len(toServer) \in Nat /\ Len(toServer') = Len(toServer) + 1
      /\ toServer'[Len(toServer) + 1] = m
  BY AppendProperties, LenProperties DEF LinesTyped
<1>2. Len(toServer) + 1 \in Underway(n)' /\ \A j \in Underway(n)' : j <= Len(toServer) + 1
  BY <1>1 DEF Underway
<1>3. LastAsks(n)' <=> m.content = 0
  <2>1. ASSUME NEW i \in Underway(n)', \A j \in Underway(n)' : j <= i
        PROVE  i = Len(toServer) + 1
    BY <1>1, <1>2, <2>1 DEF Underway
  <2> QED  BY <1>1, <1>2, <2>1 DEF LastAsks
<1> QED  BY <1>2, <1>3 DEF Assured

(* A write on a connection that is alive and survives it.                  *)
LEMMA TransmitKeepsPromises ==
    ASSUME CP!TypeOK, LinesTyped, Promised, C!Connected, NEW line, NEW outcome,
           C!Transmit(line, outcome), Sends(line, outcome),
           [subject |-> line.subject, content |-> line.content] \in Messages,
           UNCHANGED <<request, watches>>
    PROVE  Promised'
<1> DEFINE bare == [subject |-> line.subject, content |-> line.content]
<1>1. bare # None /\ Noise.subject = None
  BY NoneIsNothing DEF Messages, Noise
<1>2. (fragment <=> stub # None)'
  BY <1>1 DEF C!Transmit, Sends, Promised
<1> SUFFICES ASSUME NEW n \in Names, told'[C!WatchOf(n)] = 0 PROVE Assured(n)'
  BY <1>2 DEF Promised
<1>3. line.subject \in C!Subjects /\ line.subject \in DOMAIN told
  BY DEF Messages, CP!TypeOK, CP!Subjects, C!Subjects
<1>4. CASE outcome = "whole" /\ ~fragment
  <2>1. toServer' = Append(toServer, bare)
    BY <1>4 DEF Sends, Promised
  <2>2. told' = [told EXCEPT ![line.subject] = line.content]
    BY <1>4 DEF C!Transmit
  <2>3. CASE line.subject = C!WatchOf(n)
    <3>1. line.content = 0
      BY <1>3, <2>2, <2>3
    <3> QED  BY <2>1, <2>3, <3>1, AskBehind
  <2>4. CASE line.subject # C!WatchOf(n)
    <3>1. told[C!WatchOf(n)] = 0
      BY <1>3, <2>2, <2>4
    <3> QED  BY <2>1, <2>4, <3>1, OtherLineBehind DEF Promised
  <2> QED  BY <2>3, <2>4
<1>5. CASE ~(outcome = "whole" /\ ~fragment)
  <2>1. Assured(n)
    BY <1>5 DEF C!Transmit, Promised
  <2>2. CASE outcome = "whole"
    <3>1. stub \in Messages
      BY <1>5, <2>2 DEF Promised, LinesTyped
    <3>2. PICK read \in Glued(stub) : toServer' = Append(toServer, read)
      BY <1>5, <2>2 DEF Sends, Promised
    <3>3. read.subject # C!WatchOf(n)
      BY <1>1, <3>1, <3>2, SubjectsAreApart, SubjectFacts DEF Glued, Messages
    <3>4. read \in Messages \cup {Noise}
      BY <3>1, <3>2, GluedAreMessages
    <3> QED  BY <2>1, <3>2, <3>3, <3>4, OtherLineBehind
  <2>3. CASE outcome # "whole"
    BY <2>1, <2>3 DEF Sends, Assured, LastAsks, Underway, Watched
  <2> QED  BY <2>2, <2>3
<1> QED  BY <1>4, <1>5

LEMMA WritesKeepPromises ==
    ASSUME CP!TypeOK, LinesTyped, Promised, NEW line, NEW outcome,
           C!QueueOrWrite(line, outcome) \/ C!Transmit(line, outcome),
           ClientWrites(line, outcome), UNCHANGED connection,
           [subject |-> line.subject, content |-> line.content] \in Messages
    PROVE  Promised'
<1>1. (C!Connected)' => C!Connected
  BY WritesKeepLink DEF C!Connected
<1>2. CASE C!Connected
  <2>1. C!Transmit(line, outcome)
    BY <1>2 DEF C!QueueOrWrite
  <2> QED  BY <1>2, <2>1, TransmitKeepsPromises DEF ClientWrites, serverVars
<1> QED  BY <1>1, <1>2 DEF Promised

(* Whatever else leaves the lines, the server and what was told alone.     *)
LEMMA NothingSaid ==
    ASSUME Promised, (C!Connected)' => C!Connected,
           UNCHANGED <<told, fragment, stub, toServer, request, watches>>
    PROVE  Promised'
BY DEF Promised, Assured, LastAsks, Underway, Watched

LEMMA ClientKeepsPromises ==
    ASSUME CP!TypeOK, Typed, Promised,
           \/ ClientCalls \/ ClientConnects
           \/ \E arriving \in 0..Len(toServer) : OnConnect(arriving)
           \/ \E c \in 1..MaxConnections : LoseConnection(c) \/ OnClose(c)
           \/ GiveUp \/ LoseLine
    PROVE  Promised'
<1> USE DEF Typed
<1>1. CASE ClientCalls
  <2>1. PICK n \in Names, outcome \in C!Outcomes :
           \/ C!Watch(n, 0, outcome) /\ ClientWrites(C!CallLine(C!WatchOf(n), 0), outcome)
           \/ C!Unwatch(n, outcome) /\ ClientWrites(C!CallLine(C!WatchOf(n), Off), outcome)
           \/ \E v \in ClientValues :
                C!Set(n, v, outcome) /\ ClientWrites(C!CallLine(C!ValueOf(n), v), outcome)
    BY <1>1 DEF ClientCalls
  <2>2. ASSUME NEW s, NEW content, C!Call(s, content, outcome)
        PROVE  UNCHANGED connection /\ C!QueueOrWrite(C!CallLine(s, content), outcome)
    BY <2>2 DEF C!Call
  <2> QED  BY <2>1, <2>2, CallsAreLines, WritesKeepPromises DEF C!Watch, C!Unwatch, C!Set
<1>2. CASE ClientConnects
  <2>1. CASE (C!FlushEmpty \/ C!ReplayEmpty) /\ UNCHANGED <<serverVars, wireVars>>
    BY <2>1, NothingSaid DEF C!FlushEmpty, C!ReplayEmpty, C!link, C!stream, serverVars, wireVars,
      C!Connected
  <2>2. ASSUME NEW outcome, C!FlushLine(outcome), ClientWrites(pending[at], outcome)
        PROVE  Promised'
    BY <2>2, TablesHoldMessages, WritesKeepPromises DEF C!FlushLine
  <2>3. ASSUME NEW outcome, C!ReplayWatch(outcome), ClientWrites(C!ReplayLine, outcome)
        PROVE  Promised'
    BY <2>3, TablesHoldMessages, WritesKeepPromises DEF C!ReplayWatch
  <2> QED  BY <1>2, <2>1, <2>2, <2>3 DEF ClientConnects
<1>3. ASSUME NEW arriving, OnConnect(arriving) PROVE Promised'
  <2>1. told' = [s \in C!Subjects |-> None] /\ fragment' = FALSE /\ stub' = None
    BY <1>3 DEF OnConnect, C!OnConnect
  <2>2. \A n \in Names : told'[C!WatchOf(n)] # 0
    BY <2>1, SubjectFacts, NoneIsNothing
  <2> QED  BY <2>1, <2>2 DEF Promised
<1>4. ASSUME NEW c, LoseConnection(c) PROVE Promised'
  BY <1>4, NothingSaid DEF LoseConnection, C!LoseConnection, C!stream, C!Connected, serverVars
<1>5. ASSUME NEW c, OnClose(c) PROVE Promised'
  <2>1. (C!Connected)' => C!Connected
    BY <1>5 DEF OnClose, C!OnClose, C!Detach, C!Connected
  <2> QED  BY <1>5, <2>1, NothingSaid DEF OnClose, C!OnClose, C!stream, serverVars
<1>6. CASE GiveUp
  <2>1. ~(C!Connected)'
    BY <1>6 DEF GiveUp, C!OnError, C!Close, C!Detach, C!Connected
  <2> QED  BY <2>1 DEF Promised
<1>7. CASE LoseLine
  <2>1. ~(C!Connected)'
    BY <1>7 DEF LoseLine, clientVars, C!Connected
  <2> QED  BY <2>1 DEF Promised
<1> QED  BY <1>1, <1>2, <1>3, <1>4, <1>5, <1>6, <1>7

-----------------------------------------------------------------------------
(* The server, line by line.                                               *)

(* Only immediate watches are asked for, so that a poll leaves the table   *)
(* as it is.                                                               *)
AtOnce == \A i \in 1..MaxWatches : watches[i] # Free => watches[i].period = 0

(* A line handled goes from the wire to the request; what the server will  *)
(* come to stays the same.                                                 *)
LEMMA HandleLineMovesAlong ==
    ASSUME LinesTyped, HandleLine
    PROVE  /\ UNCHANGED <<watches, connection, valid, told, fragment, stub>>
           /\ \A n \in Names : Assured(n)' <=> Assured(n)
<1> DEFINE line == Head(toServer)
<1>1. /\ toServer # <<>> /\ request = <<>> /\ UNCHANGED watches
      /\ \/ line.subject = None /\ request' = <<>>
         \/ line # Noise /\ line.subject.kind = "set" /\ request' = <<>>
         \/ line # Noise /\ line.subject.kind = "watch" /\ line.content = Off
            /\ request' = <<UnwatchEntry(line.subject.name)>>
         \/ line # Noise /\ line.subject.kind = "watch" /\ line.content # Off
            /\ request' = <<WatchEntry(line.subject.name)>>
  BY DEF HandleLine, Noise, S!Refuse, S!Assign, S!BeginWatch, S!Idle, S!SetField, S!registryVars
<1>2. /\ Len(toServer) \in Nat \ {0} /\ line = toServer[1]
      /\ line \in Messages \cup {Noise}
      /\ Len(toServer') = Len(toServer) - 1
      /\ \A i \in 1..Len(toServer') : toServer'[i] = toServer[i + 1]
  BY <1>1, HeadTailProperties, EmptySeq DEF HandleLine, LinesTyped
<1>3. UNCHANGED <<connection, valid, told, fragment, stub>>
  BY DEF HandleLine, clientVars
<1> SUFFICES ASSUME NEW n \in Names PROVE Assured(n)' <=> Assured(n)
  BY <1>1, <1>3
<1> HIDE DEF line
<1>4. \A i \in 1..Len(toServer') : i \in Underway(n)' <=> i + 1 \in Underway(n)
  BY <1>2 DEF Underway
<1>5. ASSUME LastAsks(n) PROVE Assured(n)'
  <2>1. PICK i \in Underway(n) : toServer[i].content = 0 /\ \A j \in Underway(n) : j <= i
    BY <1>5 DEF LastAsks
  <2>2. CASE i = 1
    <3>1. Underway(n)' = {}
      BY <1>2, <1>4, <2>1, <2>2 DEF Underway
    <3>2. line.subject = C!WatchOf(n) /\ line.content = 0
      BY <1>2, <2>1, <2>2 DEF Underway
    <3>3. line.subject.kind = "watch" /\ line.subject.name = n /\ line.subject # None
      BY <3>2, SubjectFacts, SubjectsAreApart DEF C!WatchOf
    <3>4. request' = <<WatchEntry(n)>>
      BY <1>1, <3>2, <3>3, OffIsNoPeriod
    <3> QED  BY <3>1, <3>4 DEF Assured
  <2>3. CASE i # 1
    <3>1. i \in 1..Len(toServer) /\ i - 1 \in 1..Len(toServer')
      BY <1>2, <2>1, <2>3 DEF Underway
    <3>2. i - 1 \in Underway(n)' /\ toServer'[i - 1].content = 0
      BY <1>2, <1>4, <2>1, <3>1
    <3>3. ASSUME NEW j \in Underway(n)' PROVE j <= i - 1
      <4>1. j \in 1..Len(toServer') /\ j + 1 \in Underway(n)
        BY <1>4 DEF Underway
      <4> QED  BY <2>1, <3>1, <4>1
    <3> QED  BY <3>2, <3>3 DEF Assured, LastAsks
  <2> QED  BY <2>2, <2>3
<1>6. ASSUME ~LastAsks(n), Assured(n) PROVE Assured(n)'
  <2>1. Underway(n) = {} /\ Watched(n)
    BY <1>1, <1>6 DEF Assured
  <2>2. Underway(n)' = {}
    BY <1>2, <1>4, <2>1 DEF Underway
  <2>3. line.subject # C!WatchOf(n)
    BY <1>2, <2>1 DEF Underway
  <2>4. request' # <<UnwatchEntry(n)>>
    <3>1. ASSUME line # Noise, line.subject.kind = "watch", line.subject.name = n
          PROVE  FALSE
      BY <1>2, <2>3, <3>1 DEF Messages, C!Subjects, C!WatchOf
    <3>2. \A m : <<UnwatchEntry(m)>> = <<UnwatchEntry(n)>> => m = n
      BY DEF UnwatchEntry
    <3>3. \A m : <<WatchEntry(m)>> # <<UnwatchEntry(n)>>
      BY DEF UnwatchEntry, WatchEntry
    <3> QED  BY <1>1, <3>1, <3>2, <3>3
  <2> QED  BY <1>1, <2>1, <2>2, <2>4 DEF Assured, Watched
<1>7. ASSUME LastAsks(n)' PROVE LastAsks(n)
  <2>1. PICK i \in Underway(n)' :
           toServer'[i].content = 0 /\ \A j \in Underway(n)' : j <= i
    BY <1>7 DEF LastAsks
  <2>2. i \in 1..Len(toServer') /\ i + 1 \in Underway(n) /\ toServer[i + 1].content = 0
    BY <1>2, <1>4, <2>1 DEF Underway
  <2>3. ASSUME NEW j \in Underway(n) PROVE j <= i + 1
    <3>1. j \in 1..Len(toServer)
      BY DEF Underway
    <3>2. CASE j > 1
      <4>1. j - 1 \in 1..Len(toServer') /\ (j - 1) + 1 = j
        BY <1>2, <3>1, <3>2
      <4>2. j - 1 \in Underway(n)'
        BY <1>4, <4>1
      <4> QED  BY <2>1, <2>2, <3>1, <4>2
    <3> QED  BY <2>2, <3>1, <3>2
  <2> QED  BY <2>2, <2>3 DEF LastAsks
<1>8. ASSUME ~LastAsks(n)', Assured(n)' PROVE Assured(n)
  <2>1. /\ Underway(n)' = {}
        /\ \/ request' = <<WatchEntry(n)>>
           \/ Watched(n) /\ request' # <<UnwatchEntry(n)>>
    BY <1>1, <1>8 DEF Assured, Watched
  <2>2. ASSUME NEW j \in Underway(n) PROVE j = 1
    <3>1. j \in 1..Len(toServer)
      BY DEF Underway
    <3>2. ASSUME j > 1 PROVE FALSE
      <4>1. j - 1 \in 1..Len(toServer') /\ (j - 1) + 1 = j
        BY <1>2, <3>1, <3>2
      <4> QED  BY <1>4, <2>1, <4>1
    <3> QED  BY <3>1, <3>2
  <2>3. \A m : /\ <<WatchEntry(m)>> # <<UnwatchEntry(n)>> /\ <<UnwatchEntry(m)>> # <<WatchEntry(n)>>
               /\ <<WatchEntry(m)>> = <<WatchEntry(n)>> => m = n
    BY DEF WatchEntry, UnwatchEntry
  <2>4. CASE line.subject = C!WatchOf(n)
    <3>1. line.subject.kind = "watch" /\ line.subject.name = n /\ line.subject # None
      BY <2>4, SubjectFacts, SubjectsAreApart DEF C!WatchOf
    <3>2. line \in Messages
      BY <1>2, <3>1 DEF Noise
    <3>3. line.content \in {0, Off}
      BY <3>1, <3>2 DEF Messages
    <3>4. line.content # Off
      BY <1>1, <2>1, <2>3, <3>1
    <3>5. 1 \in Underway(n) /\ toServer[1].content = 0
      BY <1>2, <2>4, <3>3, <3>4 DEF Underway
    <3> QED  BY <2>2, <3>5 DEF Assured, LastAsks
  <2>5. CASE line.subject # C!WatchOf(n)
    <3>1. Underway(n) = {}
      BY <1>2, <2>2, <2>5 DEF Underway
    <3>2. request' # <<WatchEntry(n)>>
      <4>1. ASSUME line # Noise, line.subject.kind = "watch", line.subject.name = n
            PROVE  FALSE
        BY <1>2, <2>5, <4>1 DEF Messages, C!Subjects, C!WatchOf
      <4> QED  BY <1>1, <2>3, <4>1
    <3>3. request # <<UnwatchEntry(n)>>
      BY <1>1
    <3> QED  BY <2>1, <3>1, <3>2, <3>3 DEF Assured
  <2> QED  BY <2>4, <2>5
<1> QED  BY <1>5, <1>6, <1>7, <1>8 DEF Assured

LEMMA HandleLineKeepsPromises ==
    ASSUME LinesTyped, Promised, HandleLine
    PROVE  Promised' /\ UNCHANGED watches
BY HandleLineMovesAlong DEF Promised, C!Connected

LEMMA WatchBooks ==
    ASSUME SP!TypeOK, SP!WatchNeverRefused, AtOnce, NEW m \in Names, S!Watch(m, 0)
    PROVE  /\ AtOnce' /\ Watched(m)'
           /\ \A n \in Names : n # m => (Watched(n)' <=> Watched(n))
<1>1. \A i \in 1..MaxWatches :
         watches'[i] = IF S!IsTarget(i, m)
                       THEN [id |-> m, period |-> 0, due |-> now + S!PeriodUs(0)] ELSE watches[i]
  BY DEF S!Watch, S!Slots
<1>2. S!SlotsOf(m) # {} \/ S!FreeSlots # {}
  BY DEF SP!WatchNeverRefused, SP!WatchRefused, SP!SlotsOf, SP!FreeSlots, SP!Slots,
    S!SlotsOf, S!FreeSlots, S!Slots
<1>3. ASSUME NEW T \in SUBSET Nat, T # {} PROVE \E i \in T : S!IsFirst(i, T)
  <2>1. \E i \in T : CP!IsFirst(i, T)
    BY <1>3, CP!FirstExists, ClientAssumptions
      DEF CP!SizesAreNumbers, CP!OffIsNoPeriod, CP!NoneIsNothing
  <2> QED  BY <2>1 DEF CP!IsFirst, S!IsFirst
<1>4. S!SlotsOf(m) \subseteq 1..MaxWatches /\ S!FreeSlots \subseteq 1..MaxWatches
      /\ 1..MaxWatches \subseteq Nat
  BY DEF S!SlotsOf, S!FreeSlots, S!Slots
<1>5. \E i \in 1..MaxWatches : S!IsTarget(i, m)
  BY <1>2, <1>3, <1>4 DEF S!IsTarget
<1>6. ASSUME NEW i \in 1..MaxWatches PROVE watches'[i] # Free => watches'[i].period = 0
  BY <1>1 DEF AtOnce
<1>7. Watched(m)'
  <2>1. PICK i \in 1..MaxWatches : S!IsTarget(i, m)
    BY <1>5
  <2>2. watches'[i] = [id |-> m, period |-> 0, due |-> now + S!PeriodUs(0)]
    BY <1>1, <2>1
  <2>3. watches'[i] # Free /\ watches'[i].id = m
    <3>1. now + S!PeriodUs(0) \in Int
      BY DEF SP!TypeOK, S!PeriodUs
    <3>2. watches'[i] \in S!Watches
      BY <2>2, <3>1 DEF S!Watches
    <3> QED  BY <2>2, <3>2, FreeIsNoWatch
  <2> QED  BY <2>3 DEF Watched
<1>8. ASSUME NEW n \in Names, n # m PROVE Watched(n)' <=> Watched(n)
  <2>1. ASSUME Watched(n) PROVE Watched(n)'
    <3>1. PICK i \in 1..MaxWatches : watches[i] # Free /\ watches[i].id = n
      BY <2>1 DEF Watched
    <3>2. ~S!IsTarget(i, m)
      BY <1>8, <3>1 DEF S!IsTarget, S!IsFirst, S!SlotsOf, S!FreeSlots
    <3> QED  BY <1>1, <3>1, <3>2 DEF Watched
  <2>2. ASSUME Watched(n)' PROVE Watched(n)
    <3>1. PICK i \in 1..MaxWatches : watches'[i] # Free /\ watches'[i].id = n
      BY <2>2 DEF Watched
    <3>2. ~S!IsTarget(i, m)
      BY <1>1, <1>8, <3>1
    <3> QED  BY <1>1, <3>1, <3>2 DEF Watched
  <2> QED  BY <2>1, <2>2
<1> QED  BY <1>6, <1>7, <1>8 DEF AtOnce

(* The table takes over what the request says, and nothing else.           *)
LEMMA HandleEntryMovesAlong ==
    ASSUME SP!TypeOK, SP!WatchNeverRefused, ServerTyped, AtOnce, HandleEntry
    PROVE  /\ AtOnce' /\ UNCHANGED <<connection, valid, told, fragment, stub>>
           /\ \A n \in Names : Assured(n)' <=> Assured(n)
<1>1. PICK m \in Names : request = <<WatchEntry(m)>> \/ request = <<UnwatchEntry(m)>>
  <2>1. request # <<>>
    BY DEF HandleEntry, S!HandleEntry, S!FailEntry, S!ListValues, S!UnwatchEntry,
      S!WatchEntry, S!Idle
  <2> QED  BY <2>1 DEF ServerTyped
<1>2. m # "unknown" /\ m # "values"
  BY NamesAreReals
<1>3. ~S!WatchRefused(m)
  BY DEF SP!WatchNeverRefused, SP!WatchRefused, SP!SlotsOf, SP!FreeSlots, SP!Slots,
    S!WatchRefused, S!SlotsOf, S!FreeSlots, S!Slots
<1>4. UNCHANGED <<connection, valid, told, fragment, stub, toServer>>
  BY DEF HandleEntry, clientVars
<1>5. \A n \in Names : Underway(n)' = Underway(n) /\ (LastAsks(n)' <=> LastAsks(n))
  BY <1>4 DEF Underway, LastAsks
<1>6. CASE request = <<WatchEntry(m)>>
  <2>1. Head(request) = WatchEntry(m) /\ Tail(request) = <<>>
    BY <1>6
  <2>2. ~S!EntryFails(Head(request))
    BY <1>2, <1>3, <2>1 DEF S!EntryFails, WatchEntry
  <2>3. S!Watch(m, 0) /\ request' = <<>>
    <3>1. S!HandleEntry
      BY DEF HandleEntry
    <3>2. WatchEntry(m).key = m /\ WatchEntry(m).ask = "every" /\ WatchEntry(m).period = 0
      BY DEF WatchEntry
    <3>3. ~S!FailEntry /\ ~S!ListValues /\ ~S!UnwatchEntry
      BY <1>2, <2>1, <2>2, <3>2 DEF S!FailEntry, S!ListValues, S!UnwatchEntry
    <3> QED  BY <2>1, <3>1, <3>2, <3>3 DEF S!HandleEntry, S!WatchEntry
  <2>4. \A n : request # <<UnwatchEntry(n)>> /\ (request = <<WatchEntry(n)>> <=> n = m)
    BY <1>6 DEF WatchEntry, UnwatchEntry
  <2>5. /\ AtOnce' /\ Watched(m)'
        /\ \A n \in Names : n # m => (Watched(n)' <=> Watched(n))
    BY <2>3, WatchBooks
  <2>6. ASSUME NEW n \in Names PROVE Assured(n)' <=> Assured(n)
    <3>1. \A e : <<e>> # <<>>
      OBVIOUS
    <3> QED  BY <1>5, <2>3, <2>4, <2>5, <3>1 DEF Assured
  <2> QED  BY <1>4, <2>5, <2>6
<1>7. CASE request = <<UnwatchEntry(m)>>
  <2>1. Head(request) = UnwatchEntry(m) /\ Tail(request) = <<>>
    BY <1>7
  <2>2. S!Unwatch(m) /\ request' = <<>>
    <3>1. S!HandleEntry
      BY DEF HandleEntry
    <3>2. UnwatchEntry(m).key = m /\ UnwatchEntry(m).ask = "never"
      BY DEF UnwatchEntry
    <3>3. ~S!FailEntry /\ ~S!ListValues /\ ~S!WatchEntry
      BY <1>2, <2>1, <3>2 DEF S!FailEntry, S!EntryFails, S!ListValues, S!WatchEntry
    <3> QED  BY <1>2, <2>1, <3>1, <3>2, <3>3 DEF S!HandleEntry, S!UnwatchEntry
  <2>3. \A i \in 1..MaxWatches :
           watches'[i] = IF i \in S!SlotsOf(m) THEN Free ELSE watches[i]
    BY <2>2 DEF S!Unwatch, S!Slots
  <2>4. AtOnce'
    BY <2>3 DEF AtOnce
  <2>5. ASSUME NEW n \in Names, n # m PROVE Watched(n)' <=> Watched(n)
    <3>1. \A i \in S!SlotsOf(m) : watches[i] # Free /\ watches[i].id # n
      BY <2>5 DEF S!SlotsOf
    <3> QED  BY <2>3, <3>1 DEF Watched
  <2>6. ~Watched(m)'
    BY <2>3 DEF Watched, S!SlotsOf, S!Slots
  <2>7. \A n : request # <<WatchEntry(n)>> /\ (request = <<UnwatchEntry(n)>> <=> n = m)
    BY <1>7 DEF WatchEntry, UnwatchEntry
  <2>8. ASSUME NEW n \in Names PROVE Assured(n)' <=> Assured(n)
    <3>1. \A e : <<e>> # <<>>
      OBVIOUS
    <3> QED  BY <1>5, <2>2, <2>5, <2>6, <2>7, <3>1 DEF Assured
  <2> QED  BY <1>4, <2>4, <2>8
<1> QED  BY <1>1, <1>6, <1>7

LEMMA HandleEntryKeepsPromises ==
    ASSUME SP!TypeOK, SP!WatchNeverRefused, ServerTyped, Promised, AtOnce, HandleEntry
    PROVE  Promised' /\ AtOnce'
BY HandleEntryMovesAlong DEF Promised, C!Connected

(* Polls, the server's own sets and the client's reading leave what has    *)
(* been said and what the server will serve as it is.                      *)
LEMMA NothingElseSaid ==
    ASSUME SP!TypeOK, AtOnce, Poll \/ ServerSets \/ Read \/ UNCHANGED vars
    PROVE  /\ UNCHANGED <<watches, connection, valid, told, fragment, stub, toServer, request>>
           /\ \A n \in Names : Assured(n)' <=> Assured(n)
<1>1. UNCHANGED watches
  <2>1. CASE Poll
    <3>1. S!DueSlots = {}
      BY DEF S!DueSlots, S!Slots, AtOnce
    <3>2. watches' = [i \in S!Slots |-> watches[i]]
      BY <2>1, <3>1 DEF Poll, S!Poll, S!EmitWatches
    <3>3. watches \in [S!Slots -> SP!Watches \cup {Free}]
      BY DEF SP!TypeOK, SP!Slots, S!Slots
    <3> QED  BY <3>2, <3>3
  <2>2. CASE ServerSets
    BY <2>2 DEF ServerSets, S!SetValue, S!SetField
  <2>3. CASE Read \/ UNCHANGED vars
    BY <2>3 DEF Read, ReadFirstPart, ReadRest, vars, serverVars
  <2> QED  BY <2>1, <2>2, <2>3
<1>2. UNCHANGED <<connection, valid, told, fragment, stub, toServer, request>>
  <2>1. CASE Poll
    BY <2>1 DEF Poll, S!Poll, clientVars
  <2>2. CASE ServerSets
    BY <2>2 DEF ServerSets, S!SetValue, clientVars
  <2>3. CASE Read \/ UNCHANGED vars
    BY <2>3 DEF Read, ReadFirstPart, ReadRest, vars, clientVars, serverVars, wireVars
  <2> QED  BY <2>1, <2>2, <2>3
<1> QED  BY <1>1, <1>2 DEF Assured, LastAsks, Underway, Watched

LEMMA PromisedStep ==
    ASSUME CP!TypeOK, SP!TypeOK, SP!WatchNeverRefused, Typed, Promised, AtOnce, [Next]_vars
    PROVE  Promised' /\ AtOnce'
<1>1. CASE \/ ClientCalls \/ ClientConnects
           \/ \E arriving \in 0..Len(toServer) : OnConnect(arriving)
           \/ \E c \in 1..MaxConnections : LoseConnection(c) \/ OnClose(c)
           \/ GiveUp \/ LoseLine
  <2>1. UNCHANGED watches
    BY <1>1 DEF ClientCalls, ClientConnects, ClientWrites, OnConnect, LoseConnection, OnClose,
      GiveUp, LoseLine, serverVars
  <2> QED  BY <1>1, <2>1, ClientKeepsPromises DEF AtOnce
<1>2. CASE HandleLine
  BY <1>2, HandleLineKeepsPromises DEF Typed, AtOnce
<1>3. CASE HandleEntry
  BY <1>3, HandleEntryKeepsPromises DEF Typed
<1>4. CASE Poll \/ ServerSets \/ Read \/ UNCHANGED vars
  BY <1>4, NothingElseSaid, NothingSaid DEF C!Connected, AtOnce
<1> QED  BY <1>1, <1>2, <1>3, <1>4 DEF Next

LEMMA ClientRemembers == Spec => []CP!RememberedIsTold
<1>1. CP!Spec => []CP!RememberedIsTold
  BY CP!RememberedIsAlwaysTold, ClientAssumptions
    DEF CP!SizesAreNumbers, CP!OffIsNoPeriod, CP!NoneIsNothing
<1> QED  BY <1>1, IsClient, PTL

(* A session restored by a reconnect on which every write was whole is     *)
(* served: when everything said has reached the server, every watch the    *)
(* client remembers stands in the server's table.                          *)
THEOREM RememberedIsAlwaysServed == Spec => []RememberedIsServed
<1>1. Init => Promised /\ AtOnce
  BY DEF Init, C!Init, S!Init, S!RegistryInit, S!Slots, C!Connected, Promised, AtOnce
<1>2. CP!TypeOK /\ (SP!TypeOK /\ SP!WatchNeverRefused) /\ (Typed /\ Genuine)
        /\ (Promised /\ AtOnce) /\ [Next]_vars
        => (Promised /\ AtOnce)'
  BY PromisedStep
<1>3. CP!TypeOK /\ CP!RememberedIsTold /\ Promised => RememberedIsServed
  <2> SUFFICES ASSUME CP!TypeOK, CP!RememberedIsTold, Promised, Settled, healthy,
                      NEW n \in Names, Remembers(n)
               PROVE  Watched(n)
    BY DEF RememberedIsServed
  <2>1. PICK i \in 1..MaxClientWatches : remembered[i] # None /\ remembered[i].name = n
    BY DEF Remembers
  <2>2. remembered[i].period = 0
    BY <2>1 DEF CP!TypeOK, CP!WatchSlots, CP!Remembered
  <2>3. C!Connected /\ CP!Connected /\ CP!Idle /\ toServer = <<>> /\ request = <<>>
    BY DEF Settled, C!Connected, CP!Connected, C!Idle, CP!Idle
  <2>4. told[C!WatchOf(n)] = 0
    BY <2>1, <2>2, <2>3 DEF CP!RememberedIsTold, CP!WatchSlots, CP!WatchOf, C!WatchOf
  <2>5. Assured(n)
    BY <2>3, <2>4 DEF Promised
  <2>6. ~LastAsks(n)
    <3>1. Len(toServer) = 0
      BY <2>3, EmptySeq
    <3> QED  BY <3>1 DEF LastAsks, Underway
  <2> QED  BY <2>3, <2>5, <2>6 DEF Assured
<1>4. Spec => [](Promised /\ AtOnce)
  BY <1>1, <1>2, ClientTypes, ServerFacts, AlwaysTyped, PTL DEF Spec
<1> QED  BY <1>3, <1>4, ClientTypes, ClientRemembers, PTL

-----------------------------------------------------------------------------
(***************************************************************************)
(* What lingers.  Until something is refused, dropped or lost, a watch the *)
(* server will come to is one the client asked for last, or a line about   *)
(* it still waits in the client's queue - and the queue keeps order, so    *)
(* that its last line says what was asked last.                            *)
(***************************************************************************)
Wanted(n) == asked[C!WatchOf(n)] = 0

Waits(n) == \E i \in 1..MaxPendingLines : pending[i] # None /\ pending[i].subject = C!WatchOf(n)

Undisturbed == faultless /\ ~lost

Explained ==
    Undisturbed => /\ stub = None
                   /\ \A n \in Names : Assured(n) => Wanted(n) \/ Waits(n)

(* A whole line at the end of the queue to the server.                     *)
LEMMA LineBehind ==
    ASSUME LinesTyped, NEW line, [subject |-> line.subject, content |-> line.content] \in Messages,
           stub = None, Sends(line, "whole"), UNCHANGED <<request, watches>>
    PROVE  /\ stub' = None
           /\ \A n \in Names :
                Assured(n)' => IF line.subject = C!WatchOf(n) THEN line.content = 0 ELSE Assured(n)
<1> DEFINE bare == [subject |-> line.subject, content |-> line.content]
<1>1. toServer' = Append(toServer, bare) /\ stub' = None
  BY DEF Sends
<1>2. ASSUME NEW n \in Names, line.subject = C!WatchOf(n) PROVE Assured(n)' => line.content = 0
  BY <1>1, <1>2, AskBehind
<1>3. ASSUME NEW n \in Names, line.subject # C!WatchOf(n) PROVE Assured(n)' => Assured(n)
  BY <1>1, <1>3, OtherLineBehind
<1> QED  BY <1>1, <1>2, <1>3

(* A call's line is written whole at once, or waits.                       *)
LEMMA CallExplained ==
    ASSUME CP!TypeOK, LinesTyped, Explained, Undisturbed',
           NEW s \in C!Subjects, NEW content, NEW outcome \in C!Outcomes,
           C!Call(s, content, outcome), ClientWrites(C!CallLine(s, content), outcome),
           content \in C!Contents(s)
    PROVE  Explained'
<1> DEFINE line == C!CallLine(s, content)
<1>1. /\ line.subject = s /\ line.content = content
      /\ line # None /\ [subject |-> s, content |-> content] \in Messages
  <2>1. line \in C!Lines
    <3>1. calls + 1 \in 0..MaxCalls
      BY SizesAreNumbers DEF C!Call, CP!TypeOK
    <3>2. content \in {0} \cup {Off} \cup ClientValues
      BY DEF C!Contents
    <3> QED  BY <3>1, <3>2 DEF C!CallLine, C!Lines
  <2> QED  BY <2>1, NoneIsNothing, WrittenAreMessages DEF C!CallLine
<1> HIDE DEF line
<1>2. C!QueueOrWrite(line, outcome) /\ Sends(line, outcome) /\ UNCHANGED <<request, watches, lost>>
      /\ asked' = [asked EXCEPT ![s] = content]
  BY DEF C!Call, ClientWrites, serverVars, line
<1>3. faultless /\ ~lost
  BY <1>2 DEF C!QueueOrWrite, Undisturbed
<1>4. stub = None /\ \A n \in Names : Assured(n) => Wanted(n) \/ Waits(n)
  BY <1>3 DEF Explained, Undisturbed
<1>5. \A n \in Names : IF s = C!WatchOf(n) THEN Wanted(n)' <=> content = 0 ELSE Wanted(n)' <=> Wanted(n)
  <2>1. s \in DOMAIN asked
    BY DEF CP!TypeOK, CP!Subjects, C!Subjects
  <2> QED  BY <1>2, <2>1, SubjectFacts DEF Wanted, CP!TypeOK
<1>6. CASE C!Connected
  <2>1. outcome = "whole" /\ UNCHANGED pending
    BY <1>2, <1>6 DEF C!QueueOrWrite, Undisturbed
  <2> QED  BY <1>1, <1>2, <1>4, <1>5, <2>1, LineBehind DEF Explained, Waits
<1>7. CASE ~C!Connected
  <2>1. outcome = "none" /\ C!FreeLines # {} /\ C!Enqueue(line)
    BY <1>2, <1>7 DEF C!Outcomes, C!QueueOrWrite, Undisturbed
  <2>2. UNCHANGED <<toServer, stub>>
    BY <1>2, <2>1 DEF Sends, C!Outcomes
  <2>3. \A n \in Names : Assured(n)' <=> Assured(n)
    BY <1>2, <2>2 DEF Assured, LastAsks, Underway, Watched
  <2>4. \A i \in 1..MaxPendingLines :
           pending'[i] = IF C!IsFirst(i, C!FreeLines) THEN line ELSE pending[i]
    BY <2>1 DEF C!Enqueue, C!LineSlots
  <2>5. PICK i \in C!FreeLines : C!IsFirst(i, C!FreeLines)
    <3>1. C!FreeLines \in SUBSET Nat
      BY DEF C!FreeLines, C!LineSlots
    <3>2. \E i \in C!FreeLines : CP!IsFirst(i, C!FreeLines)
      BY <2>1, <3>1, CP!FirstExists, ClientAssumptions
        DEF CP!SizesAreNumbers, CP!OffIsNoPeriod, CP!NoneIsNothing
    <3> QED  BY <3>2 DEF CP!IsFirst, C!IsFirst
  <2>6. ASSUME NEW n \in Names, Waits(n) PROVE Waits(n)'
    <3>1. PICK j \in 1..MaxPendingLines : pending[j] # None /\ pending[j].subject = C!WatchOf(n)
      BY <2>6 DEF Waits
    <3>2. ~C!IsFirst(j, C!FreeLines)
      BY <3>1 DEF C!IsFirst, C!FreeLines
    <3> QED  BY <2>4, <3>1, <3>2 DEF Waits
  <2>7. ASSUME NEW n \in Names, s = C!WatchOf(n) PROVE Waits(n)'
    <3>1. i \in 1..MaxPendingLines /\ pending'[i] = line
      BY <2>4, <2>5 DEF C!FreeLines, C!LineSlots
    <3> QED  BY <1>1, <2>7, <3>1 DEF Waits
  <2> QED  BY <1>4, <1>5, <2>2, <2>3, <2>6, <2>7 DEF Explained
<1> QED  BY <1>6, <1>7

(* A line flushed is what was last asked, or another one waits behind it.  *)
LEMMA FlushExplained ==
    ASSUME CP!TypeOK, CP!OrderInv, LinesTyped, Explained, Undisturbed', NEW outcome,
           C!FlushLine(outcome), ClientWrites(pending[at], outcome)
    PROVE  Explained'
<1> DEFINE line == pending[at]
<1>1. /\ outcome = "whole" /\ faultless /\ ~lost /\ Sends(line, "whole")
      /\ UNCHANGED <<request, watches, asked>> /\ at \in 1..MaxPendingLines
      /\ pending' = [pending EXCEPT ![at] = None]
  BY DEF C!FlushLine, ClientWrites, serverVars, Undisturbed, CP!TypeOK, CP!LineSlots
<1>2. [subject |-> line.subject, content |-> line.content] \in Messages
  BY TablesHoldMessages DEF C!FlushLine
<1>3. stub = None /\ \A n \in Names : Assured(n) => Wanted(n) \/ Waits(n)
  BY <1>1 DEF Explained, Undisturbed
<1>4. /\ stub' = None
      /\ \A n \in Names :
           Assured(n)' => IF line.subject = C!WatchOf(n) THEN line.content = 0 ELSE Assured(n)
  BY <1>1, <1>2, <1>3, LineBehind
<1>5. \A i \in 1..MaxPendingLines : pending'[i] = IF i = at THEN None ELSE pending[i]
  BY <1>1 DEF CP!TypeOK, CP!LineSlots
<1> SUFFICES ASSUME NEW n \in Names, Assured(n)' PROVE Wanted(n)' \/ Waits(n)'
  BY <1>4 DEF Explained
<1>6. CASE line.subject = C!WatchOf(n) /\ CP!LastAbout(at, C!WatchOf(n))
  <2>1. line.content = asked[C!WatchOf(n)]
    BY <1>1, <1>6, SubjectFacts
      DEF CP!OrderInv, CP!QueueInOrder, CP!LineSlots, CP!Subjects, C!Subjects
  <2> QED  BY <1>1, <1>4, <1>6, <2>1 DEF Wanted
<1>7. CASE line.subject = C!WatchOf(n) /\ ~CP!LastAbout(at, C!WatchOf(n))
  <2>1. PICK j \in 1..MaxPendingLines : CP!About(j, C!WatchOf(n)) /\ ~(j <= at)
    BY <1>1, <1>7 DEF CP!LastAbout, CP!About, CP!LineSlots, C!FlushLine
  <2> QED  BY <1>1, <1>5, <2>1 DEF CP!About, Waits
<1>8. CASE line.subject # C!WatchOf(n)
  <2>1. Wanted(n) \/ Waits(n)
    BY <1>3, <1>4, <1>8
  <2>2. Waits(n) => Waits(n)'
    BY <1>5, <1>8 DEF Waits
  <2> QED  BY <1>1, <2>1, <2>2 DEF Wanted
<1> QED  BY <1>6, <1>7, <1>8

(* What is replayed is remembered, and what is remembered was asked.       *)
LEMMA ReplayExplained ==
    ASSUME CP!TypeOK, CP!OrderInv, LinesTyped, Explained, Undisturbed', NEW outcome,
           C!ReplayWatch(outcome), ClientWrites(C!ReplayLine, outcome)
    PROVE  Explained'
<1> DEFINE line == C!ReplayLine
<1>1. UNCHANGED <<request, watches, asked, lost>> /\ Sends(line, outcome)
      /\ C!QueueOrWrite(line, outcome)
  BY DEF C!ReplayWatch, ClientWrites, serverVars
<1>2. faultless /\ ~lost
  BY <1>1 DEF Undisturbed, C!QueueOrWrite
<1>3. C!Connected
  BY <1>2 DEF CP!OrderInv, CP!PeerInOrder, CP!Connected, C!Connected, CP!Idle, C!ReplayWatch
<1>4. outcome = "whole" /\ UNCHANGED pending
  BY <1>1, <1>3 DEF Undisturbed, C!QueueOrWrite
<1>5. [subject |-> line.subject, content |-> line.content] \in Messages
  BY TablesHoldMessages DEF C!ReplayWatch
<1>6. at \in CP!WatchSlots /\ remembered[at] # None
  BY DEF C!ReplayWatch, CP!TypeOK
<1>7. line.subject = C!WatchOf(remembered[at].name) /\ line.content = remembered[at].period
  BY DEF C!ReplayLine
<1>8. asked[line.subject] = line.content
  BY <1>6, <1>7 DEF CP!OrderInv, CP!WatchesAsked, CP!WatchOf, C!WatchOf
<1>9. stub = None /\ \A n \in Names : Assured(n) => Wanted(n) \/ Waits(n)
  BY <1>2 DEF Explained, Undisturbed
<1>10. /\ stub' = None
       /\ \A n \in Names :
            Assured(n)' => IF line.subject = C!WatchOf(n) THEN line.content = 0 ELSE Assured(n)
  BY <1>1, <1>4, <1>5, <1>9, LineBehind
<1> QED  BY <1>1, <1>4, <1>8, <1>9, <1>10 DEF Explained, Wanted, Waits

(* What neither speaks to the server nor loses anything changes nothing.   *)
LEMMA SilentExplained ==
    ASSUME Explained, UNCHANGED <<asked, pending, faultless>>, ~lost' => ~lost,
           stub' \in {stub, None}, \A n \in Names : ~lost' => (Assured(n)' => Assured(n))
    PROVE  Explained'
BY DEF Explained, Undisturbed, Wanted, Waits

LEMMA ExplainedStep ==
    ASSUME CP!TypeOK, CP!OrderInv, SP!TypeOK, SP!WatchNeverRefused, Typed, AtOnce, Explained,
           [Next]_vars
    PROVE  Explained'
<1> USE DEF Typed
<1>1. CASE ClientCalls
  <2>1. PICK n \in Names, outcome \in C!Outcomes :
           \/ C!Watch(n, 0, outcome) /\ ClientWrites(C!CallLine(C!WatchOf(n), 0), outcome)
           \/ C!Unwatch(n, outcome) /\ ClientWrites(C!CallLine(C!WatchOf(n), Off), outcome)
           \/ \E v \in ClientValues :
                C!Set(n, v, outcome) /\ ClientWrites(C!CallLine(C!ValueOf(n), v), outcome)
    BY <1>1 DEF ClientCalls
  <2>2. \E s \in C!Subjects : \E content \in C!Contents(s) :
           C!Call(s, content, outcome) /\ ClientWrites(C!CallLine(s, content), outcome)
    <3>1. /\ {0, Off} \subseteq C!Contents(C!WatchOf(n))
          /\ ClientValues \subseteq C!Contents(C!ValueOf(n))
      BY SubjectFacts DEF C!Contents
    <3> QED  BY <2>1, <3>1, SubjectFacts DEF C!Watch, C!Unwatch, C!Set
  <2>3. CASE Undisturbed'
    BY <2>2, <2>3, CallExplained
  <2> QED  BY <2>3 DEF Explained
<1>2. CASE ClientConnects
  <2>1. CASE (C!FlushEmpty \/ C!ReplayEmpty) /\ UNCHANGED <<serverVars, wireVars>>
    BY <2>1, SilentExplained DEF C!FlushEmpty, C!ReplayEmpty, C!tables, C!history, serverVars,
      wireVars, Assured, LastAsks, Underway, Watched
  <2>2. ASSUME NEW outcome, C!FlushLine(outcome), ClientWrites(pending[at], outcome)
        PROVE  Explained'
    BY <2>2, FlushExplained DEF Explained
  <2>3. ASSUME NEW outcome, C!ReplayWatch(outcome), ClientWrites(C!ReplayLine, outcome)
        PROVE  Explained'
    BY <2>3, ReplayExplained DEF Explained
  <2> QED  BY <1>2, <2>1, <2>2, <2>3 DEF ClientConnects
<1>3. ASSUME NEW arriving \in 0..Len(toServer), OnConnect(arriving) PROVE Explained'
  <2>1. ASSUME ~lost' PROVE UNCHANGED toServer
    <3>1. ~(arriving < Len(toServer))
      BY <1>3, <2>1, Zenon DEF OnConnect
    <3>2. arriving = Len(toServer)
      BY <3>1, LenProperties DEF LinesTyped
    <3> QED  BY <1>3, <3>2, SubSeqFull DEF OnConnect, LinesTyped
  <2>2. ~lost' => ~lost
    BY <1>3, Zenon DEF OnConnect
  <2> QED  BY <1>3, <2>1, <2>2, SilentExplained DEF OnConnect, C!OnConnect, C!tables, C!history,
             serverVars, Assured, LastAsks, Underway, Watched
<1>4. ASSUME NEW c, LoseConnection(c) \/ OnClose(c) PROVE Explained'
  BY <1>4, SilentExplained DEF LoseConnection, C!LoseConnection, OnClose, C!OnClose, C!tables,
    C!history, serverVars, Assured, LastAsks, Underway, Watched
<1>5. CASE GiveUp
  BY <1>5, SilentExplained DEF GiveUp, C!OnError, C!Close, C!tables, C!history, serverVars,
    Assured, LastAsks, Underway, Watched
<1>6. CASE LoseLine
  BY <1>6 DEF LoseLine, Explained, Undisturbed
<1>7. CASE HandleLine
  BY <1>7, HandleLineMovesAlong, SilentExplained DEF HandleLine, clientVars
<1>8. CASE HandleEntry
  BY <1>8, HandleEntryMovesAlong, SilentExplained DEF HandleEntry, clientVars
<1>9. CASE Poll \/ ServerSets \/ Read \/ UNCHANGED vars
  <2>1. UNCHANGED <<asked, pending, faultless, lost>>
    BY <1>9 DEF Poll, ServerSets, Read, ReadFirstPart, ReadRest, vars, clientVars, wireVars
  <2> QED  BY <1>9, <2>1, NothingElseSaid, SilentExplained
<1> QED  BY <1>1, <1>2, <1>3, <1>4, <1>5, <1>6, <1>7, <1>8, <1>9 DEF Next

(* Where the client's table has room for every name, what it asked for it  *)
(* remembers.                                                              *)
RoomForNames == MaxClientWatches >= Cardinality(Names)

WantedIsRemembered == \A n \in Names : Wanted(n) => Remembers(n)

LEMMA NamesAreFinite == IsFiniteSet(Names)
<1> DEFINE three == {"ap.heading_command", "rudder.offset", "rudder.range"}
       name == [i \in 1..3 |-> <<"ap.heading_command", "rudder.offset", "rudder.range">>[i]]
<1>1. name \in Surjection(1..3, three)
  BY DEF Surjection
<1>2. IsFiniteSet(three)
  <2>1. \A k \in Int : IsFiniteSet(1..k)
    BY FS_Interval
  <2>2. 3 \in Int
    OBVIOUS
  <2>3. IsFiniteSet(1..3)
    BY <2>1, <2>2, Zenon
  <2> HIDE DEF name, three
  <2> QED  BY <1>1, <2>3, FS_Surjection
<1> QED  BY <1>2, NamesAreReals, FS_Subset

(* Were no slot free and none the name's, MaxClientWatches slots would     *)
(* remember fewer names than there are, each once.                         *)
LEMMA RoomToRemember ==
    ASSUME RoomForNames, CP!TypeOK, CP!NamesOnce, NEW n \in Names
    PROVE  C!NameSlots(n) # {} \/ C!FreeWatches # {}
<1> SUFFICES ASSUME C!NameSlots(n) = {}, C!FreeWatches = {} PROVE FALSE
  OBVIOUS
<1> DEFINE others == Names \ {n}
           slots == 1..MaxClientWatches
           holder == [i \in slots |-> remembered[i].name]
<1>1. \A i \in slots : remembered[i] # None /\ remembered[i].name \in others
  BY DEF C!NameSlots, C!FreeWatches, C!WatchSlots, CP!TypeOK, CP!WatchSlots, CP!Remembered
<1>2. holder \in [slots -> others]
  BY <1>1
<1>3. IsFiniteSet(others) /\ Cardinality(others) = Cardinality(Names) - 1
  BY NamesAreFinite, FS_RemoveElement
<1>4. IsFiniteSet(slots) /\ Cardinality(slots) = MaxClientWatches
  BY SizesAreNumbers, FS_Interval
<1>5. Cardinality(Names) \in Nat
  BY NamesAreFinite, FS_CardinalityType
<1>6. Cardinality(others) < Cardinality(slots)
  BY <1>3, <1>4, <1>5, SizesAreNumbers DEF RoomForNames
<1> HIDE DEF others, slots, holder
<1>7. \E i, j \in slots : i # j /\ holder[i] = holder[j]
  BY <1>2, <1>3, <1>4, <1>6, FS_PigeonHole
<1> QED  BY <1>1, <1>7 DEF CP!NamesOnce, CP!WatchSlots, slots, holder

LEMMA WatchRemembers ==
    ASSUME RoomForNames, CP!TypeOK, CP!NamesOnce, NEW n \in Names, C!Remember(n, 0)
    PROVE  /\ Remembers(n)'
           /\ \A m \in Names : Remembers(m) => Remembers(m)'
<1> DEFINE candidates == IF C!NameSlots(n) # {} THEN C!NameSlots(n) ELSE C!FreeWatches
<1>1. candidates \in SUBSET Nat /\ candidates \subseteq 1..MaxClientWatches /\ candidates # {}
  BY RoomToRemember DEF C!NameSlots, C!FreeWatches, C!WatchSlots
<1>2. PICK i \in candidates : C!IsFirst(i, candidates)
  <2> HIDE DEF candidates
  <2>1. \E i \in candidates : CP!IsFirst(i, candidates)
    BY <1>1, CP!FirstExists, ClientAssumptions
      DEF CP!SizesAreNumbers, CP!OffIsNoPeriod, CP!NoneIsNothing
  <2> QED  BY <2>1 DEF CP!IsFirst, C!IsFirst
<1>3. \A j \in 1..MaxClientWatches :
         remembered'[j] = IF C!IsFirst(j, candidates) THEN [name |-> n, period |-> 0] ELSE remembered[j]
  BY DEF C!Remember, C!WatchSlots
<1>4. [name |-> n, period |-> 0] # None
  BY NoneIsNothing DEF C!Remembered
<1>5. Remembers(n)'
  BY <1>1, <1>2, <1>3, <1>4 DEF Remembers
<1>6. ASSUME NEW m \in Names, m # n, Remembers(m) PROVE Remembers(m)'
  <2>1. PICK j \in 1..MaxClientWatches : remembered[j] # None /\ remembered[j].name = m
    BY <1>6 DEF Remembers
  <2>2. ~C!IsFirst(j, candidates)
    BY <1>6, <2>1 DEF C!IsFirst, C!NameSlots, C!FreeWatches
  <2> QED  BY <1>3, <2>1, <2>2 DEF Remembers
<1> QED  BY <1>5, <1>6

LEMMA RememberedStep ==
    ASSUME RoomForNames, CP!TypeOK, CP!NamesOnce, WantedIsRemembered, [Next]_vars
    PROVE  WantedIsRemembered'
<1>1. ASSUME NEW s \in C!Subjects, NEW content, NEW outcome, C!Call(s, content, outcome)
      PROVE  \A m \in Names : Wanted(m)' <=> IF s = C!WatchOf(m) THEN content = 0 ELSE Wanted(m)
  <2>1. asked' = [asked EXCEPT ![s] = content] /\ s \in DOMAIN asked
    BY <1>1 DEF C!Call, CP!TypeOK, CP!Subjects, C!Subjects
  <2> QED  BY <2>1, SubjectFacts DEF Wanted, CP!TypeOK
<1>2. CASE ClientCalls
  <2>1. PICK n \in Names, outcome \in C!Outcomes :
           C!Watch(n, 0, outcome) \/ C!Unwatch(n, outcome)
             \/ \E v \in ClientValues : C!Set(n, v, outcome)
    BY <1>2 DEF ClientCalls
  <2>2. CASE C!Watch(n, 0, outcome)
    <3>1. \A m \in Names : m # n => (Wanted(m)' <=> Wanted(m))
      BY <1>1, <2>2, SubjectFacts, SubjectsAreApart DEF C!Watch
    <3>2. Remembers(n)' /\ \A m \in Names : Remembers(m) => Remembers(m)'
      BY <2>2, WatchRemembers DEF C!Watch
    <3> QED  BY <3>1, <3>2 DEF WantedIsRemembered
  <2>3. CASE C!Unwatch(n, outcome)
    <3>1. ~Wanted(n)' /\ \A m \in Names : m # n => (Wanted(m)' <=> Wanted(m))
      BY <1>1, <2>3, SubjectFacts, SubjectsAreApart, OffIsNoPeriod DEF C!Unwatch
    <3>2. \A i \in 1..MaxClientWatches :
             remembered'[i] = IF i \in C!NameSlots(n) THEN None ELSE remembered[i]
      BY <2>3 DEF C!Unwatch, C!Forget, C!WatchSlots
    <3>3. ASSUME NEW m \in Names, m # n, Remembers(m) PROVE Remembers(m)'
      <4>1. PICK i \in 1..MaxClientWatches : remembered[i] # None /\ remembered[i].name = m
        BY <3>3 DEF Remembers
      <4>2. i \notin C!NameSlots(n)
        BY <3>3, <4>1 DEF C!NameSlots
      <4> QED  BY <3>2, <4>1, <4>2 DEF Remembers
    <3> QED  BY <3>1, <3>3 DEF WantedIsRemembered
  <2>4. ASSUME NEW v, C!Set(n, v, outcome) PROVE WantedIsRemembered'
    <3>1. UNCHANGED remembered /\ C!Call(C!ValueOf(n), v, outcome)
      BY <2>4 DEF C!Set
    <3>2. \A m \in Names : C!ValueOf(n) # C!WatchOf(m)
      BY DEF C!ValueOf, C!WatchOf
    <3>3. \A m \in Names : Wanted(m)' <=> Wanted(m)
      BY <1>1, <3>1, <3>2, SubjectFacts
    <3> QED  BY <3>1, <3>3 DEF WantedIsRemembered, Remembers
  <2> QED  BY <2>1, <2>2, <2>3, <2>4
<1>3. CASE ~ClientCalls
  <2>1. UNCHANGED <<remembered, asked>>
    <3>1. CASE ClientConnects
      BY <3>1 DEF ClientConnects, C!FlushEmpty, C!ReplayEmpty, C!FlushLine, C!ReplayWatch,
        C!tables, C!history
    <3>2. CASE GiveUp \/ \E k \in 0..Len(toServer) : OnConnect(k)
      BY <3>2 DEF GiveUp, OnConnect, C!OnConnect, C!OnError, C!Close, C!tables, C!history
    <3>3. CASE \E c \in 1..MaxConnections : LoseConnection(c) \/ OnClose(c)
      BY <3>3 DEF LoseConnection, OnClose, C!LoseConnection, C!OnClose, C!tables, C!history
    <3>4. CASE LoseLine \/ HandleLine \/ HandleEntry \/ Poll \/ ServerSets \/ Read
                 \/ UNCHANGED vars
      BY <3>4 DEF LoseLine, HandleLine, HandleEntry, Poll, ServerSets, Read, ReadFirstPart,
        ReadRest, vars, clientVars
    <3> QED  BY <1>3, <3>1, <3>2, <3>3, <3>4 DEF Next
  <2> QED  BY <2>1 DEF WantedIsRemembered, Wanted, Remembers
<1> QED  BY <1>2, <1>3

LEMMA ClientInOrder == Spec => []CP!OrderInv
<1>1. CP!Spec => []CP!OrderInv
  BY CP!AlwaysInOrder, ClientAssumptions
    DEF CP!SizesAreNumbers, CP!OffIsNoPeriod, CP!NoneIsNothing
<1> QED  BY <1>1, IsClient, PTL

(* Where the client's table has room for every name: unless a line was     *)
(* refused, dropped or lost under way, the server serves nothing the       *)
(* client has given up, over any number of reconnects, although an unwatch *)
(* is not replayed.                                                        *)
THEOREM NothingEverLingers == ASSUME RoomForNames PROVE Spec => []NothingLingers
<1>1. Init => (Explained /\ WantedIsRemembered) /\ AtOnce /\ Promised
  <2>1. Init => Explained
    BY EmptySeq DEF Init, S!Init, S!RegistryInit, S!Slots, Explained, Assured, LastAsks, Underway,
      Watched
  <2>2. Init => WantedIsRemembered
    BY SubjectFacts, NoneIsNothing DEF Init, C!Init, WantedIsRemembered, Wanted
  <2>3. Init => AtOnce /\ Promised
    BY DEF Init, C!Init, S!Init, S!RegistryInit, S!Slots, C!Connected, Promised, AtOnce
  <2> QED  BY <2>1, <2>2, <2>3
<1>2. CP!TypeOK /\ CP!OrderInv /\ (SP!TypeOK /\ SP!WatchNeverRefused) /\ (Typed /\ Genuine)
        /\ ((Explained /\ WantedIsRemembered) /\ AtOnce /\ Promised) /\ [Next]_vars
        => ((Explained /\ WantedIsRemembered) /\ AtOnce /\ Promised)'
  BY ExplainedStep, RememberedStep, PromisedStep DEF CP!OrderInv
<1>3. CP!OrderInv /\ Explained /\ WantedIsRemembered => NothingLingers
  <2> SUFFICES ASSUME CP!OrderInv, Explained, WantedIsRemembered, Settled, faultless, ~lost,
                      NEW n \in Names, Watched(n)
               PROVE  Remembers(n)
    BY DEF NothingLingers
  <2>1. C!Idle /\ C!Connected /\ toServer = <<>> /\ request = <<>>
    BY DEF Settled
  <2>2. ~Waits(n)
    BY <2>1 DEF CP!OrderInv, CP!QueueInOrder, CP!NothingWaits, CP!LineSlots, CP!Idle, C!Idle,
      CP!Connected, C!Connected, Waits
  <2>3. Assured(n)
    <3>1. Len(toServer) = 0
      BY <2>1, EmptySeq
    <3>2. Underway(n) = {} /\ request # <<UnwatchEntry(n)>>
      BY <2>1, <3>1 DEF Underway
    <3> QED  BY <3>2 DEF Assured
  <2> QED  BY <2>2, <2>3 DEF Explained, Undisturbed, WantedIsRemembered
<1>4. Spec => []((Explained /\ WantedIsRemembered) /\ AtOnce /\ Promised)
  BY <1>1, <1>2, ClientTypes, ClientInOrder, ServerFacts, AlwaysTyped, PTL DEF Spec
<1> QED  BY <1>3, <1>4, ClientInOrder, PTL
=============================================================================
