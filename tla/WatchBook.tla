----------------------------- MODULE WatchBook -----------------------------
(***************************************************************************)
(* What the watch table promises, without slots: for each field at most    *)
(* one watch, which the last request for the field decides, and a schedule *)
(* that serves a due watch once and keeps its beat.                        *)
(***************************************************************************)
EXTENDS Integers

CONSTANTS
    Names,     \* fields that can be watched
    Periods,   \* the periods clients ask for
    Unwatched  \* the entry of a field nobody watches

VARIABLES
    book,  \* name -> Unwatched or [period, due]
    clock

Step(p) == IF p <= 0 THEN 0 ELSE p \div 2  \* a period counts half ticks

Start == book = [n \in Names |-> Unwatched] /\ clock = 0

Ask(n, p) ==
    /\ book' = [book EXCEPT ![n] = [period |-> p, due |-> clock + Step(p)]]
    /\ UNCHANGED clock

Forget(n) == book' = [book EXCEPT ![n] = Unwatched] /\ UNCHANGED clock

IsDue(n) == book[n] # Unwatched /\ book[n].period > 0 /\ book[n].due <= clock

(* A served watch is next due at the first beat after the present.         *)
NextBeat(w, due) ==
    IF Step(w.period) = 0 THEN due = w.due
    ELSE /\ clock < due /\ due <= clock + Step(w.period)
         /\ (due - w.due) % Step(w.period) = 0

Serve ==
    /\ \A n \in Names :
         IF IsDue(n)
         THEN /\ book'[n].period = book[n].period
              /\ NextBeat(book[n], book'[n].due)
         ELSE book'[n] = book[n]
    /\ UNCHANGED clock

Pass == clock' = clock + 1 /\ UNCHANGED book

Change ==
    \/ \E n \in Names : Forget(n) \/ \E p \in Periods : Ask(n, p)
    \/ Serve
    \/ Pass

Promise == Start /\ [][Change]_<<book, clock>>
=============================================================================
