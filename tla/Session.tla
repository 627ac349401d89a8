------------------------------ MODULE Session ------------------------------
(***************************************************************************)
(* One PypilotClient and one PypilotServer over connections that come and  *)
(* go: the client's calls and tables, the lines on their way in either     *)
(* direction, the server's watch table, and the client's own copy of the   *)
(* values, which handle_line fills.                                        *)
(*                                                                         *)
(* Both ends are the modules of their own, taken as instances.  What joins *)
(* them is external to src/: a transport that carries bytes in order while *)
(* a connection lives, loses the end of what is under way when it dies,    *)
(* hands the server the lines of an older connection before those of a     *)
(* newer one, and puts the server's output on the connection in use.       *)
(*                                                                         *)
(* The names are fields that only the registry writes, so that the control *)
(* objects have no part in the session.  The client watches immediately    *)
(* (period 0, "true" on the wire) and does not take lines out of its queue *)
(* by hand.  Lines fit the reader's buffer, and the event loop has a slot  *)
(* for the reading poll whenever a connection comes.                       *)
(***************************************************************************)
EXTENDS Integers, SequencesExt

CONSTANTS
    Names,             \* writable real fields no control object writes
    Reals,             \* their values
    ClientValues,      \* those of them the client sets
    ServerValues,      \* those of them the server's application sets
    Cuts,              \* value -> the numbers its text may be cut short to
    Off, None, Free,   \* as in the two modules
    MaxClientWatches, MaxPendingLines, MaxWatches,
    MaxConnections,    \* bound: connections in a behaviour
    MaxCalls,          \* bound: calls of the client
    MaxUnread          \* bound: the server's own sets wait while the client
                       \* has this many lines to read

ASSUME NamesAreReals ==
    Names \subseteq {"ap.heading_command", "rudder.offset", "rudder.range"}
ASSUME RealsAreNumbers == Reals \subseteq Int /\ 0 \in Reals
ASSUME SetsAreReals == ClientValues \cup ServerValues \subseteq Reals
ASSUME CutsAreReals == Cuts \in [Reals -> SUBSET Reals]
ASSUME SizesAreNumbers ==
    /\ MaxClientWatches \in Nat \ {0} /\ MaxPendingLines \in Nat \ {0}
    /\ MaxWatches \in Nat /\ MaxWatches >= Cardinality(Names)
    /\ MaxConnections \in Nat /\ MaxCalls \in Nat
ASSUME OffIsNoPeriod == Off # 0

VARIABLES
    \* the client
    connection, valid, opened, lineEvent, events, remembered, pending, task, at,
    calls, asked, told, fragment, healthy, faultless, sent, dropped, popped,
    \* the server
    value, angleValid, watches, dirty, now, midLine, reported, request,
    \* between them
    toServer,  \* lines written by the client and not handled yet
    stub,      \* the line the current connection's last short write began, or None
    toClient,  \* lines written by the server and not read yet
    begun,     \* the first part of the first of them has been read
    buffer,    \* line_reader_: the lines whose first parts stand in its buffer
    mirror,    \* the client's own value of each name
    lost,      \* history: a line was lost on its way to the server
    held       \* history: the values each name has had at the server

clientVars == <<connection, valid, opened, lineEvent, events, remembered, pending, task, at,
                calls, asked, told, fragment, healthy, faultless, sent, dropped, popped>>
serverVars == <<value, angleValid, watches, dirty, now, midLine, reported, request>>
wireVars == <<toServer, stub, toClient, begun, buffer, mirror, lost, held>>
vars == <<clientVars, serverVars, wireVars>>

WatchEntry(n) == [key |-> n, ask |-> "every", period |-> 0]
UnwatchEntry(n) == [key |-> n, ask |-> "never", period |-> 0]

C == INSTANCE PypilotClient WITH
    Periods <- {0},
    Values <- ClientValues,
    watches <- remembered

S == INSTANCE PypilotServer WITH
    Fields <- Names,
    Texts <- {"compass"},
    DefaultText <- "compass",
    MaxTime <- 0,
    UnknownName <- "unknown",
    WatchRequests <- {<<e>> : e \in {WatchEntry(n) : n \in Names} \cup {UnwatchEntry(n) : n \in Names}}

ASSUME NoneIsNothing ==
    None \notin C!Connections \cup C!Subjects \cup C!Lines \cup C!Remembered
                \cup {0, Off} \cup ClientValues \cup [subject : C!Subjects, content : Reals \cup {0, Off}]
ASSUME FreeIsNoWatch == Free \notin S!Watches \cup [period : Int, due : Int]

Noise == [subject |-> None, content |-> None]  \* a line the server cannot use

Init ==
    /\ C!Init
    /\ S!Init
    /\ toServer = <<>> /\ stub = None
    /\ toClient = <<>> /\ begun = FALSE /\ buffer = <<>>
    /\ mirror = [n \in Names |-> 0]
    /\ lost = FALSE
    /\ held = [n \in Names |-> {0}]

-----------------------------------------------------------------------------
(***************************************************************************)
(* From client to server.  A line that follows a short write is glued to   *)
(* what was written of the earlier one.  The server's parse_real reads a   *)
(* number and ignores what comes after it, so that a cut assignment is     *)
(* carried out with a cut value; of a cut watch request it can make        *)
(* nothing, "true" being no number.                                        *)
(***************************************************************************)
Glued(cut) ==
    {Noise} \cup IF cut.subject.kind = "set"
                 THEN {[cut EXCEPT !.content = c] : c \in Cuts[cut.content]} ELSE {}

Sends(line, outcome) ==
    LET bare == [subject |-> line.subject, content |-> line.content]
    IN  /\ \/ outcome = "whole" /\ stub = None /\ toServer' = Append(toServer, bare)
           \/ outcome = "whole" /\ stub # None
              /\ \E read \in Glued(stub) : toServer' = Append(toServer, read)
           \/ outcome # "whole" /\ UNCHANGED toServer
        /\ stub' = CASE outcome = "whole" -> None
                     [] outcome = "short" /\ stub = None -> bare
                     [] OTHER -> stub

(* Once the client gave up a connection or finds it dead, nothing more is  *)
(* read from it.                                                           *)
LinkFollows ==
    IF connection' # connection \/ ~(C!Connected)'
    THEN toClient' = <<>> /\ begun' = FALSE
    ELSE UNCHANGED <<toClient, begun>>

ClientWrites(line, outcome) ==
    /\ Sends(line, outcome)
    /\ LinkFollows
    /\ UNCHANGED <<serverVars, buffer, mirror, lost, held>>

ClientCalls ==
    \E n \in Names : \E outcome \in C!Outcomes :
      \/ C!Watch(n, 0, outcome) /\ ClientWrites(C!CallLine(C!WatchOf(n), 0), outcome)
      \/ C!Unwatch(n, outcome) /\ ClientWrites(C!CallLine(C!WatchOf(n), Off), outcome)
      \/ \E v \in ClientValues :
           C!Set(n, v, outcome) /\ ClientWrites(C!CallLine(C!ValueOf(n), v), outcome)

ClientConnects ==  \* the rest of on_connect
    \/ C!FlushEmpty /\ UNCHANGED <<serverVars, wireVars>>
    \/ C!ReplayEmpty /\ UNCHANGED <<serverVars, wireVars>>
    \/ \E outcome \in C!Outcomes :
         \/ C!FlushLine(outcome) /\ ClientWrites(pending[at], outcome)
         \/ C!ReplayWatch(outcome) /\ ClientWrites(C!ReplayLine, outcome)

(* Every handler that takes or gives up a connection resets the reader.    *)
ResetNever == UNCHANGED buffer

ResetReader == buffer' = <<>>

OnConnect(arriving) ==
    /\ C!OnConnect(TRUE)
    /\ ResetReader
    /\ toServer' = SubSeq(toServer, 1, arriving)
    /\ lost' = (lost \/ arriving < Len(toServer))
    /\ stub' = None
    /\ LinkFollows
    /\ UNCHANGED <<serverVars, mirror, held>>

LoseConnection(c) ==
    /\ C!LoseConnection(c)
    /\ LinkFollows
    /\ UNCHANGED <<serverVars, toServer, stub, buffer, mirror, lost, held>>

OnClose(c) ==
    /\ C!OnClose(c)
    /\ IF c = connection THEN ResetReader ELSE UNCHANGED buffer
    /\ LinkFollows
    /\ UNCHANGED <<serverVars, toServer, stub, mirror, lost, held>>

GiveUp ==
    /\ C!OnError \/ C!Close
    /\ ResetReader
    /\ LinkFollows
    /\ UNCHANGED <<serverVars, toServer, stub, mirror, lost, held>>

(* What a dead connection had under way is lost from its end.              *)
LoseLine ==
    /\ ~C!Connected
    /\ toServer # <<>>
    /\ toServer' = Front(toServer)
    /\ lost' = TRUE
    /\ UNCHANGED <<clientVars, serverVars, stub, toClient, begun, buffer, mirror, held>>

-----------------------------------------------------------------------------
(* The server.  Its error lines name no field and change nothing at the    *)
(* client; they are left out of toClient.                                  *)

Post(names) ==
    toClient' = IF C!Connected
                THEN toClient \o [i \in DOMAIN names |-> [name |-> names[i], value |-> value[names[i]]]]
                ELSE toClient

Hold == held' = [n \in Names |-> held[n] \cup {value'[n]}]

HandleLine ==
    /\ toServer # <<>>
    /\ LET line == Head(toServer)
       IN  \/ line = Noise /\ S!Refuse
           \/ line # Noise /\ line.subject.kind = "set" /\ S!Assign(line.subject.name, line.content)
           \/ line # Noise /\ line.subject.kind = "watch" /\ line.content = Off
              /\ S!BeginWatch(<<UnwatchEntry(line.subject.name)>>)
           \/ line # Noise /\ line.subject.kind = "watch" /\ line.content # Off
              /\ S!BeginWatch(<<WatchEntry(line.subject.name)>>)
    /\ toServer' = Tail(toServer)
    /\ Hold
    /\ UNCHANGED <<clientVars, stub, toClient, begun, buffer, mirror, lost>>

HandleEntry ==
    /\ S!HandleEntry
    /\ IF Head(request).ask = "every" THEN Post(<<Head(request).key>>) ELSE UNCHANGED toClient
    /\ UNCHANGED <<clientVars, toServer, stub, begun, buffer, mirror, lost, held>>

Poll ==
    /\ S!Poll
    /\ \E lines \in [1..Cardinality(S!ChangedLines) -> S!ChangedLines] :
         /\ \A i, j \in DOMAIN lines : i < j => lines[i][1] < lines[j][1]
         /\ Post([i \in DOMAIN lines |-> lines[i][2]])
    /\ UNCHANGED <<clientVars, toServer, stub, begun, buffer, mirror, lost, held>>

ServerSets ==
    /\ Len(toClient) < MaxUnread
    /\ \E n \in Names : \E v \in ServerValues : S!SetValue(n, v)
    /\ Hold
    /\ UNCHANGED <<clientVars, toServer, stub, toClient, begun, buffer, mirror, lost>>

-----------------------------------------------------------------------------
(***************************************************************************)
(* The client reads: poll_line_reader, from the loop's poll (which needs   *)
(* lineEvent) or from on_data.  A line may arrive in two parts, and stands *)
(* in the reader's buffer between them.  A line that completes what was    *)
(* left of another is read as one: parse_record cuts at the first '=', and *)
(* parse_real reads as far as the older number goes.                       *)
(***************************************************************************)
Readable == C!Idle /\ C!Connected /\ toClient # <<>>

ReadFirstPart ==
    /\ Readable /\ ~begun
    /\ begun' = TRUE
    /\ buffer' = Append(buffer, Head(toClient))
    /\ UNCHANGED <<clientVars, serverVars, toServer, stub, toClient, mirror, lost, held>>

(* What the lines in the buffer are read as, taken together.               *)
Reading ==
    LET line == Head(buffer)
    IN  {[name |-> line.name, value |-> v] :
           v \in IF Len(buffer) = 1 THEN {line.value} ELSE Cuts[line.value]}

ReadRestKeepsBuffer ==
    /\ Readable /\ begun
    /\ \E read \in Reading : mirror' = [mirror EXCEPT ![read.name] = read.value]
    /\ begun' = FALSE
    /\ toClient' = Tail(toClient)
    /\ UNCHANGED <<clientVars, serverVars, toServer, stub, buffer, lost, held>>

ReadRest ==
    /\ Readable /\ begun
    /\ \E read \in Reading : mirror' = [mirror EXCEPT ![read.name] = read.value]
    /\ buffer' = <<>>
    /\ begun' = FALSE
    /\ toClient' = Tail(toClient)
    /\ UNCHANGED <<clientVars, serverVars, toServer, stub, lost, held>>

Read == ReadFirstPart \/ ReadRest

Next ==
    \/ ClientCalls
    \/ ClientConnects
    \/ \E arriving \in 0..Len(toServer) : OnConnect(arriving)
    \/ \E c \in 1..MaxConnections : LoseConnection(c) \/ OnClose(c)
    \/ GiveUp
    \/ LoseLine
    \/ HandleLine
    \/ HandleEntry
    \/ Poll
    \/ ServerSets
    \/ Read

Spec == Init /\ [][Next]_vars

(* on_connect runs to its end; the server's main loop handles what has     *)
(* arrived and polls; the client's loop calls the poll that reads, if the  *)
(* client has one.                                                         *)
FairSpec ==
    /\ Spec
    /\ WF_vars(ClientConnects)
    /\ WF_vars(HandleLine) /\ WF_vars(HandleEntry) /\ WF_vars(Poll)
    /\ WF_vars(lineEvent # 0 /\ Read)

-----------------------------------------------------------------------------
(***************************************************************************)
(* Properties                                                              *)
(***************************************************************************)

(* The types of what joins the two ends.                                   *)
TypeOK ==
    /\ \A i \in DOMAIN toServer : toServer[i] = Noise \/ toServer[i].subject \in C!Subjects
    /\ \A i \in DOMAIN toClient : toClient[i] \in [name : Names, value : Reals]
    /\ begun \in BOOLEAN /\ (begun => toClient # <<>> /\ Len(buffer) = 1)
    /\ mirror \in [Names -> Reals]
    /\ held \in [Names -> SUBSET Reals]

(* Everything the client said has reached the server.                      *)
Settled == C!Idle /\ C!Connected /\ toServer = <<>> /\ request = <<>>

Watched(n) == \E i \in 1..MaxWatches : watches[i] # Free /\ watches[i].id = n
Remembers(n) == \E i \in 1..MaxClientWatches : remembered[i] # None /\ remembered[i].name = n

(* End to end, a reconnect restores the session: once a connection on      *)
(* which every write was whole has settled, the server serves every watch  *)
(* the client remembers, whatever was lost, cut or queued before.          *)
RememberedIsServed == Settled /\ healthy => \A n \in Names : Remembers(n) => Watched(n)

(* Unless a line was refused, dropped or lost under way, the server serves *)
(* nothing the client has given up, over any number of reconnects: what is *)
(* not replayed - the unwatch - is not lost by the queue either.           *)
NothingLingers ==
    Settled /\ faultless /\ ~lost => \A n \in Names : Watched(n) => Remembers(n)

(* The client never shows a value that the server has not had: no line is  *)
(* put together from the parts of two, although connections die within     *)
(* lines and the reader outlives them.                                     *)
MirrorIsGenuine == \A n \in Names : mirror[n] \in held[n]

(* The client's copy of a value it watches catches up with the server's,   *)
(* once a sound connection lasts and the value does.                       *)
MirrorConverges ==
    \A n \in Names : \A v \in Reals :
      <>[](C!Connected /\ healthy /\ lineEvent # 0 /\ Remembers(n) /\ value[n] = v)
        => <>[](mirror[n] = v)
=============================================================================
