----------------------------- MODULE LineReader -----------------------------
(***************************************************************************)
(* LineProtocolReader, with the options PypilotClient leaves at their      *)
(* defaults: the delimiter ends a line, one CR is stripped, and an         *)
(* overflow empties the buffer.                                            *)
(*                                                                         *)
(* poll reads byte after byte while the stream has any; each byte is a     *)
(* step, because the stream may run dry after any of them and the callback *)
(* may close the client, which resets the reader.  The statistics, which   *)
(* nothing reads, are left out.                                            *)
(***************************************************************************)
EXTENDS Naturals, Sequences

CONSTANTS
    Chars,       \* characters that are not the delimiter
    CR,          \* one of them: '\r'
    Delimiter,
    BufferSize,
    Nothing,     \* no line was delivered yet
    MaxAhead,    \* bound: bytes the stream holds unread
    MaxLine      \* bound: characters without a delimiter

ASSUME DelimiterIsApart == Delimiter \notin Chars
ASSUME SizeIsNumber == BufferSize \in Nat \ {0}

VARIABLES
    stream,      \* bytes of the stream not read yet
    buffer,      \* the first size_ bytes of buffer_
    delivered,   \* the last line the callback was given
    line,        \* history: the characters read since the last delimiter or reset
    skipped      \* history: how many of them an overflow has thrown away

vars == <<stream, buffer, delivered, line, skipped>>

Init ==
    /\ stream = <<>>
    /\ buffer = <<>>
    /\ delivered = Nothing
    /\ line = <<>> /\ skipped = 0

Arrive ==
    /\ Len(stream) < MaxAhead
    /\ \E c \in Chars \cup {Delimiter} : stream' = Append(stream, c)
    /\ UNCHANGED <<buffer, delivered, line, skipped>>

(* emit_line                                                               *)
Strip(l) ==
    IF l # <<>> /\ l[Len(l)] = CR THEN [i \in 1..(Len(l) - 1) |-> l[i]] ELSE l

EmitLineKeepsBuffer ==
    /\ delivered' = Strip(buffer)
    /\ line' = <<>> /\ skipped' = 0
    /\ UNCHANGED buffer

EmitLine ==
    /\ delivered' = Strip(buffer)
    /\ buffer' = <<>>
    /\ line' = <<>> /\ skipped' = 0

(* consume, of anything but the delimiter                                  *)
StoreOneTooMany(c) ==
    /\ IF Len(buffer) > BufferSize
       THEN buffer' = <<>> /\ skipped' = Len(line) + 1
       ELSE buffer' = Append(buffer, c) /\ UNCHANGED skipped
    /\ line' = Append(line, c)
    /\ UNCHANGED delivered

StoreKeepsTheStart(c) ==
    /\ buffer' = IF Len(buffer) >= BufferSize THEN buffer ELSE Append(buffer, c)
    /\ line' = Append(line, c)
    /\ UNCHANGED <<delivered, skipped>>

Store(c) ==
    /\ IF Len(buffer) >= BufferSize
       THEN buffer' = <<>> /\ skipped' = Len(line) + 1
       ELSE buffer' = Append(buffer, c) /\ UNCHANGED skipped
    /\ line' = Append(line, c)
    /\ UNCHANGED delivered

Consume ==
    /\ stream # <<>>
    /\ stream' = Tail(stream)
    /\ IF Head(stream) = Delimiter THEN EmitLine
       ELSE Len(line) < MaxLine /\ Store(Head(stream))

Reset ==
    /\ buffer' = <<>>
    /\ line' = <<>> /\ skipped' = 0
    /\ UNCHANGED <<stream, delivered>>

Next == Arrive \/ Consume \/ Reset

Spec == Init /\ [][Next]_vars

-----------------------------------------------------------------------------
(***************************************************************************)
(* Properties                                                              *)
(***************************************************************************)

(* Every variable keeps its type; the buffer never outgrows its array.     *)
TypeOK ==
    /\ stream \in Seq(Chars \cup {Delimiter})
    /\ buffer \in Seq(Chars) /\ Len(buffer) <= BufferSize
    /\ delivered = Nothing \/ delivered \in Seq(Chars)
    /\ line \in Seq(Chars)
    /\ skipped \in Nat

(* The buffer always holds the end of the line begun and of no other,      *)
(* however often it overflowed; and as long as the line fits, all of it.   *)
BufferIsTheEnd ==
    /\ Len(line) = skipped + Len(buffer)
    /\ \A i \in 1..Len(buffer) : buffer[i] = line[skipped + i]
    /\ skipped = 0 \/ skipped > BufferSize

(* The reader keeps the promise of LineFeed, the bytes ahead aside.        *)
Feed == INSTANCE LineFeed WITH Capacity <- BufferSize

FeedsLines == Feed!Spec
=============================================================================
