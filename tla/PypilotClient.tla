--------------------------- MODULE PypilotClient ---------------------------
(***************************************************************************)
(* PypilotClient, outbound: the calls of an application (watch, unwatch,   *)
(* set_..., pop_outgoing, close), the connections that come and go under   *)
(* it, and the two tables that carry a session over a reconnect - the      *)
(* watches it remembers and the lines it could not write.                  *)
(*                                                                         *)
(* A line is about a subject: the watch on a name or the value of a name.  *)
(* Its content is a period, Off, or a value.  Names fit MaxNameSize and    *)
(* lines fit MaxLineSize.                                                  *)
(*                                                                         *)
(* on_connect writes a line per pending slot and a line per watch.  Each   *)
(* write is a step of the model (task is "flush", then "replay"), and no   *)
(* other action is enabled in between: the handler runs to its end on the  *)
(* only thread.  A connection is assumed not to call on_close or on_error  *)
(* from within write, which would take it away under on_connect's feet.    *)
(***************************************************************************)
EXTENDS Integers, FiniteSets

CONSTANTS
    Names,             \* names the application watches and sets
    Periods,           \* periods it watches them with
    Values,            \* values it sets them to
    Off,               \* the content of an unwatch line
    MaxClientWatches,  \* slots for remembered watches (32)
    MaxPendingLines,   \* slots for unwritten lines (16)
    None,              \* no connection, no line
    MaxConnections,    \* bound: connections in a behaviour
    MaxCalls           \* bound: calls that produce a line

Subjects == [kind : {"watch", "set"}, name : Names]
Contents(s) == IF s.kind = "watch" THEN Periods \cup {Off} ELSE Values
WatchOf(n) == [kind |-> "watch", name |-> n]
ValueOf(n) == [kind |-> "set", name |-> n]

Connections == 1..MaxConnections
Calls == 1..MaxCalls
WatchSlots == 1..MaxClientWatches
LineSlots == 1..MaxPendingLines

(* A replayed watch belongs to no call: its number is 0.                   *)
Lines == {l \in [subject : Subjects, content : Periods \cup {Off} \cup Values, call : 0..MaxCalls] :
            l.content \in Contents(l.subject)}
Remembered == [name : Names, period : Periods]

ASSUME SizesAreNumbers ==
    /\ MaxClientWatches \in Nat \ {0} /\ MaxPendingLines \in Nat \ {0}
    /\ MaxConnections \in Nat /\ MaxCalls \in Nat
ASSUME OffIsNoPeriod == Off \notin Periods
ASSUME NoneIsNothing ==
    None \notin Connections \cup Lines \cup Remembered \cup Periods \cup Values \cup {Off}

VARIABLES
    connection,  \* connection_: a connection or None
    valid,       \* connections whose valid() is true
    opened,      \* connections made so far
    lineEvent,   \* line_event_: the handle of the poll reading a connection, or 0
    events,      \* polls of this client active in the event loop
    watches,     \* watches_: slot -> None or [name, period]
    pending,     \* pending_: slot -> None or a line
    task, at,    \* what on_connect is at: "idle", or "flush" / "replay" of slot at
    calls,       \* history: calls made so far
    asked,       \* history: subject -> content of the last call about it
    told,        \* history: subject -> content of the last whole line about
                 \* it on the current connection
    fragment,    \* the current connection's stream ends within a line
    healthy,     \* history: every write on the current connection was whole
    faultless,   \* history: every write ever was, and no line was popped or dropped
    sent, dropped, popped  \* history: calls whose line was written whole, found
                           \* the queue full, was taken by pop_outgoing

link == <<connection, valid, opened, lineEvent, events>>
tables == <<watches, pending>>
stream == <<told, fragment, healthy>>
history == <<calls, asked, faultless, sent, dropped, popped>>
vars == <<link, tables, task, at, stream, history>>

Init ==
    /\ connection = None /\ valid = {} /\ opened = 0
    /\ lineEvent = 0 /\ events = {}
    /\ watches = [i \in WatchSlots |-> None]
    /\ pending = [i \in LineSlots |-> None]
    /\ task = "idle" /\ at = 0
    /\ calls = 0 /\ asked = [s \in Subjects |-> None]
    /\ told = [s \in Subjects |-> None]
    /\ fragment = FALSE /\ healthy = TRUE /\ faultless = TRUE
    /\ sent = {} /\ dropped = {} /\ popped = {}

Idle == task = "idle"
Connected == connection # None /\ connection \in valid

IsFirst(i, S) == i \in S /\ \A j \in S : i <= j
FreeLines == {i \in LineSlots : pending[i] = None}

-----------------------------------------------------------------------------
(***************************************************************************)
(* One write on the current connection.  ITcpConnection::write returns how *)
(* much it took: the whole line, a part of it, or nothing, and the         *)
(* connection may turn out to be lost.  A line that follows a fragment is  *)
(* read as one line with it: the server is not told what the line says.    *)
(***************************************************************************)
Outcomes == IF Connected THEN {"whole", "short", "none", "lost"} ELSE {"none"}

Transmit(line, outcome) ==
    /\ told' = IF outcome = "whole" /\ ~fragment
               THEN [told EXCEPT ![line.subject] = line.content] ELSE told
    /\ fragment' = (outcome # "whole" /\ (fragment \/ outcome = "short"))
    /\ healthy' = (healthy /\ outcome = "whole")
    /\ sent' = IF outcome = "whole" THEN sent \cup ({line.call} \ {0}) ELSE sent
    /\ valid' = IF outcome = "lost" THEN valid \ {connection} ELSE valid

(* queue_line: the first free slot; a full queue drops the line.           *)
EnqueueFromTheBack(line) ==
    /\ pending' = [i \in LineSlots |->
                     IF i \in FreeLines /\ \A j \in FreeLines : j <= i THEN line ELSE pending[i]]
    /\ dropped' = IF FreeLines = {} THEN dropped \cup ({line.call} \ {0}) ELSE dropped

Enqueue(line) ==
    /\ pending' = [i \in LineSlots |-> IF IsFirst(i, FreeLines) THEN line ELSE pending[i]]
    /\ dropped' = IF FreeLines = {} THEN dropped \cup ({line.call} \ {0}) ELSE dropped

(* queue_or_write                                                          *)
QueueOrWriteTwice(line, outcome) ==
    IF Connected
    THEN /\ Transmit(line, outcome)
         /\ faultless' = (faultless /\ outcome = "whole")
         /\ Enqueue(line)
    ELSE /\ Enqueue(line)
         /\ faultless' = (faultless /\ FreeLines # {})
         /\ UNCHANGED <<stream, sent, valid>>

QueueOrWrite(line, outcome) ==
    IF Connected
    THEN /\ Transmit(line, outcome)
         /\ faultless' = (faultless /\ outcome = "whole")
         /\ IF outcome = "whole" THEN UNCHANGED <<pending, dropped>> ELSE Enqueue(line)
    ELSE /\ Enqueue(line)
         /\ faultless' = (faultless /\ FreeLines # {})
         /\ UNCHANGED <<stream, sent, valid>>

-----------------------------------------------------------------------------
(* The application's calls.                                                *)

CallLine(s, content) == [subject |-> s, content |-> content, call |-> calls + 1]

Call(s, content, outcome) ==
    /\ Idle
    /\ outcome \in Outcomes
    /\ calls < MaxCalls
    /\ calls' = calls + 1
    /\ asked' = [asked EXCEPT ![s] = content]
    /\ QueueOrWrite(CallLine(s, content), outcome)
    /\ UNCHANGED <<connection, opened, lineEvent, events, task, at, popped>>

(* remember_watch: the name's slot, or the first free one, or nowhere.     *)
NameSlots(n) == {i \in WatchSlots : watches[i] # None /\ watches[i].name = n}
FreeWatches == {i \in WatchSlots : watches[i] = None}

Remember(n, p) ==
    watches' = [i \in WatchSlots |->
                  IF IsFirst(i, IF NameSlots(n) # {} THEN NameSlots(n) ELSE FreeWatches)
                  THEN [name |-> n, period |-> p]
                  ELSE watches[i]]

Watch(n, p, outcome) == Remember(n, p) /\ Call(WatchOf(n), p, outcome)

Forget(n) == watches' = [i \in WatchSlots |-> IF i \in NameSlots(n) THEN None ELSE watches[i]]

Unwatch(n, outcome) == Forget(n) /\ Call(WatchOf(n), Off, outcome)

Set(n, v, outcome) == Call(ValueOf(n), v, outcome) /\ UNCHANGED watches

(* pop_outgoing: the first pending line leaves by the application's hands. *)
PopOutgoing ==
    /\ Idle
    /\ \E i \in LineSlots :
         /\ IsFirst(i, LineSlots \ FreeLines)
         /\ popped' = popped \cup ({pending[i].call} \ {0})
         /\ pending' = [pending EXCEPT ![i] = None]
    /\ faultless' = FALSE
    /\ UNCHANGED <<link, watches, task, at, stream, calls, asked, sent, dropped>>

-----------------------------------------------------------------------------
(* Connections.                                                            *)

(* The client lets go of its connection: the reading poll is cancelled.    *)
Detach ==
    /\ connection' = None
    /\ lineEvent' = 0
    /\ events' = events \ {lineEvent}

(* on_connect, up to flush_pending: an older connection is forgotten, not  *)
(* closed.  room says whether the event loop has a slot for the poll.      *)
OnConnectLeaks(room) ==
    /\ Idle
    /\ opened < MaxConnections
    /\ opened' = opened + 1
    /\ connection' = opened + 1
    /\ valid' = valid \cup {opened + 1}
    /\ lineEvent' = IF room THEN opened + 1 ELSE 0
    /\ events' = IF room THEN events \cup {opened + 1} ELSE events
    /\ told' = [s \in Subjects |-> None] /\ fragment' = FALSE /\ healthy' = TRUE
    /\ task' = "flush" /\ at' = 1
    /\ UNCHANGED <<tables, history>>

OnConnect(room) ==
    /\ Idle
    /\ opened < MaxConnections
    /\ opened' = opened + 1
    /\ connection' = opened + 1
    /\ valid' = valid \cup {opened + 1}
    /\ lineEvent' = IF room THEN opened + 1 ELSE 0
    /\ events' = (events \ {lineEvent}) \cup (IF room THEN {opened + 1} ELSE {})
    /\ told' = [s \in Subjects |-> None] /\ fragment' = FALSE /\ healthy' = TRUE
    /\ task' = "flush" /\ at' = 1
    /\ UNCHANGED <<tables, history>>

(* flush_pending, slot by slot; a line is kept unless it went out whole.   *)
AfterFlushSkipReplay ==
    IF at < MaxPendingLines THEN task' = "flush" /\ at' = at + 1
                            ELSE task' = "idle" /\ at' = 0

AfterFlushPastTheEnd ==
    IF at <= MaxPendingLines THEN task' = "flush" /\ at' = at + 1
                             ELSE task' = "replay" /\ at' = 1

AfterFlush ==
    IF at < MaxPendingLines THEN task' = "flush" /\ at' = at + 1
                            ELSE task' = "replay" /\ at' = 1

FlushEmpty ==
    /\ task = "flush" /\ pending[at] = None
    /\ AfterFlush
    /\ UNCHANGED <<link, tables, stream, history>>

FlushLine(outcome) ==
    /\ task = "flush" /\ pending[at] # None
    /\ outcome \in Outcomes
    /\ Transmit(pending[at], outcome)
    /\ faultless' = (faultless /\ outcome = "whole")
    /\ pending' = IF outcome = "whole" THEN [pending EXCEPT ![at] = None] ELSE pending
    /\ AfterFlush
    /\ UNCHANGED <<connection, opened, lineEvent, events, watches,
                   calls, asked, dropped, popped>>

(* replay_watches, slot by slot.                                           *)
AfterReplay ==
    IF at < MaxClientWatches THEN task' = "replay" /\ at' = at + 1
                             ELSE task' = "idle" /\ at' = 0

ReplayEmpty ==
    /\ task = "replay" /\ watches[at] = None
    /\ AfterReplay
    /\ UNCHANGED <<link, tables, stream, history>>

ReplayLine == [subject |-> WatchOf(watches[at].name), content |-> watches[at].period, call |-> 0]

ReplayWatch(outcome) ==
    /\ task = "replay" /\ watches[at] # None
    /\ outcome \in Outcomes
    /\ QueueOrWrite(ReplayLine, outcome)
    /\ AfterReplay
    /\ UNCHANGED <<connection, opened, lineEvent, events, watches, calls, asked, popped>>

(* The transport loses a connection before it says so.                     *)
LoseConnection(c) ==
    /\ Idle
    /\ c \in valid
    /\ valid' = valid \ {c}
    /\ UNCHANGED <<connection, opened, lineEvent, events, tables, task, at, stream, history>>

(* on_close, of the current connection or of one given up before.          *)
OnClose(c) ==
    /\ Idle
    /\ c <= opened
    /\ valid' = valid \ {c}
    /\ IF c = connection THEN Detach ELSE UNCHANGED <<connection, lineEvent, events>>
    /\ UNCHANGED <<opened, tables, task, at, stream, history>>

(* on_error names no connection: whatever failed, the current one goes.    *)
OnError ==
    /\ Idle
    /\ Detach
    /\ UNCHANGED <<valid, opened, tables, task, at, stream, history>>

Close ==
    /\ Idle
    /\ valid' = valid \ {connection}
    /\ Detach
    /\ UNCHANGED <<opened, tables, task, at, stream, history>>

Handler ==
    \/ FlushEmpty
    \/ ReplayEmpty
    \/ \E outcome \in Outcomes : FlushLine(outcome) \/ ReplayWatch(outcome)

Next ==
    \/ \E n \in Names : \E outcome \in Outcomes :
          \/ \E p \in Periods : Watch(n, p, outcome)
          \/ Unwatch(n, outcome)
          \/ \E v \in Values : Set(n, v, outcome)
    \/ PopOutgoing
    \/ \E room \in BOOLEAN : OnConnect(room)
    \/ Handler
    \/ \E c \in Connections : LoseConnection(c) \/ OnClose(c)
    \/ OnError
    \/ Close

Spec == Init /\ [][Next]_vars

-----------------------------------------------------------------------------
(***************************************************************************)
(* Properties                                                              *)
(***************************************************************************)

(* Every variable keeps its type.                                          *)
TypeOK ==
    /\ connection \in Connections \cup {None}
    /\ valid \subseteq Connections
    /\ opened \in 0..MaxConnections
    /\ lineEvent \in Connections \cup {0}
    /\ events \subseteq Connections
    /\ watches \in [WatchSlots -> Remembered \cup {None}]
    /\ pending \in [LineSlots -> Lines \cup {None}]
    /\ \/ task = "idle" /\ at = 0
       \/ task = "flush" /\ at \in LineSlots
       \/ task = "replay" /\ at \in WatchSlots
    /\ calls \in 0..MaxCalls
    /\ DOMAIN asked = Subjects /\ DOMAIN told = Subjects
    /\ \A s \in Subjects : /\ asked[s] \in Contents(s) \cup {None}
                           /\ told[s] \in Contents(s) \cup {None}
    /\ fragment \in BOOLEAN /\ healthy \in BOOLEAN /\ faultless \in BOOLEAN
    /\ sent \subseteq Calls /\ dropped \subseteq Calls /\ popped \subseteq Calls

(* A reconnect restores the session: once on_connect is done, and as long  *)
(* as every write on the connection was whole, the last line about the     *)
(* watch of a remembered name on that connection carries its remembered    *)
(* period - whatever older lines about the name the queue still held.      *)
RememberedIsTold ==
    Idle /\ Connected /\ healthy
      => \A i \in WatchSlots :
           watches[i] # None => told[WatchOf(watches[i].name)] = watches[i].period

(* Without a fault the queue keeps order over any number of reconnects:    *)
(* what a connection was last told of a subject is what the application    *)
(* last asked of it.                                                       *)
OrderIsKept ==
    Idle /\ Connected /\ faultless
      => \A s \in Subjects : told[s] \in {None, asked[s]}

(* A call's line is in exactly one place - written, waiting, popped, or    *)
(* dropped by the full queue - and waits in one slot: nothing is lost and  *)
(* nothing goes out twice, whatever writes fail half way.                  *)
PlacesOf(c) == Cardinality({i \in LineSlots : pending[i] # None /\ pending[i].call = c})
               + Cardinality({S \in {<<1, sent>>, <<2, dropped>>, <<3, popped>>} : c \in S[2]})

EveryCallIsSomewhere == \A c \in 1..calls : PlacesOf(c) = 1

(* The client never leaves a poll behind in the event loop's table: at     *)
(* most the one in line_event_, and none without a connection.             *)
NoEventLeaks ==
    /\ events \subseteq {lineEvent}
    /\ connection = None => events = {}
=============================================================================
