------------------------------ MODULE LineFeed ------------------------------
(***************************************************************************)
(* What a reader of lines promises whoever handles them: a line that fits  *)
(* is delivered whole and once, of one that does not fit at most an end of *)
(* it is, and nothing of one line is ever delivered with another.  A reset *)
(* gives up the line begun.                                                *)
(***************************************************************************)
EXTENDS Naturals, Sequences

CONSTANTS
    Chars,       \* characters of lines, the delimiter not among them
    CR,          \* the one that is stripped off the end
    Capacity,    \* a line of as many characters fits
    Nothing      \* no line was delivered yet

VARIABLES
    line,        \* what the stream said since the last delimiter or reset
    delivered    \* the last line delivered

Strip(l) ==
    IF l # <<>> /\ l[Len(l)] = CR THEN [i \in 1..(Len(l) - 1) |-> l[i]] ELSE l

EndOf(l, skipped) == [i \in 1..(Len(l) - skipped) |-> l[skipped + i]]

Deliverable(l) ==
    IF Len(l) <= Capacity THEN {Strip(l)}
    ELSE {Strip(EndOf(l, k)) : k \in (Capacity + 1)..Len(l)}

Init == line = <<>> /\ delivered = Nothing

Extend == (\E c \in Chars : line' = Append(line, c)) /\ UNCHANGED delivered

Deliver == delivered' \in Deliverable(line) /\ line' = <<>>

GiveUp == line' = <<>> /\ UNCHANGED delivered

Next == Extend \/ Deliver \/ GiveUp

Spec == Init /\ [][Next]_<<line, delivered>>
=============================================================================
