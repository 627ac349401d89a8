-------------------------- MODULE LineReaderProofs --------------------------
(***************************************************************************)
(* The line reader's types, its invariant and its promise, for every       *)
(* alphabet, every size of the buffer and every length of line.            *)
(***************************************************************************)
EXTENDS LineReader, SequenceTheorems, TLAPS

LEMMA AppendFacts ==
    ASSUME NEW l \in Seq(Chars), NEW c \in Chars
    PROVE  /\ Append(l, c) \in Seq(Chars)
           /\ Len(Append(l, c)) = Len(l) + 1
           /\ Append(l, c)[Len(l) + 1] = c
           /\ \A i \in 1..Len(l) : Append(l, c)[i] = l[i]
BY AppendProperties

LEMMA StripType ==
    ASSUME NEW l \in Seq(Chars)
    PROVE  Strip(l) \in Seq(Chars)
<1>1. CASE l # <<>> /\ l[Len(l)] = CR
  <2>1. Len(l) - 1 \in Nat
    BY <1>1, EmptySeq, LenProperties, SMT
  <2>2. \A i \in 1..(Len(l) - 1) : l[i] \in Chars
    BY <2>1, ElementOfSeq, LenProperties, SMT
  <2>3. [i \in 1..(Len(l) - 1) |-> l[i]] \in Seq(Chars)
    BY <2>1, <2>2, IsASeq
  <2> QED  BY <1>1, <2>3 DEF Strip
<1>2. CASE ~(l # <<>> /\ l[Len(l)] = CR)
  BY <1>2 DEF Strip
<1> QED  BY <1>1, <1>2

-----------------------------------------------------------------------------
(* The reader's variables keep their types and its buffer never outgrows   *)
(* its array, for any size of it.                                          *)
THEOREM TypeCorrect == Spec => []TypeOK
<1>1. Init => TypeOK
  BY SizeIsNumber DEF Init, TypeOK
<1>2. TypeOK /\ [Next]_vars => TypeOK'
  <2> SUFFICES ASSUME TypeOK, [Next]_vars PROVE TypeOK'
    OBVIOUS
  <2> USE SizeIsNumber DEF TypeOK
  <2>1. CASE Arrive
    <3>1. PICK c \in Chars \cup {Delimiter} : stream' = Append(stream, c)
      BY <2>1 DEF Arrive
    <3>2. stream' \in Seq(Chars \cup {Delimiter})
      BY <3>1, AppendProperties
    <3> QED  BY <2>1, <3>2 DEF Arrive
  <2>2. CASE Consume
    <3>1. Head(stream) \in Chars \cup {Delimiter} /\ stream' \in Seq(Chars \cup {Delimiter})
      BY <2>2, HeadTailProperties DEF Consume
    <3>2. CASE EmitLine
      <4>1. delivered' \in Seq(Chars)
        BY <3>2, StripType DEF EmitLine
      <4> QED  BY <3>1, <3>2, <4>1 DEF EmitLine
    <3>3. CASE Head(stream) \in Chars /\ Store(Head(stream))
      <4>1. line' \in Seq(Chars) /\ Len(line) \in Nat /\ Len(buffer) \in Nat
        BY <3>3, AppendFacts, LenProperties DEF Store
      <4>2. CASE Len(buffer) >= BufferSize
        BY <3>1, <3>3, <4>1, <4>2 DEF Store
      <4>3. CASE ~(Len(buffer) >= BufferSize)
        <5>1. buffer' \in Seq(Chars) /\ Len(buffer') = Len(buffer) + 1
          BY <3>3, <4>3, AppendFacts DEF Store
        <5> QED  BY <3>1, <3>3, <4>1, <4>3, <5>1 DEF Store
      <4> QED  BY <4>2, <4>3
    <3> QED  BY <2>2, <3>1, <3>2, <3>3 DEF Consume
  <2>3. CASE Reset
    BY <2>3 DEF Reset
  <2>4. CASE UNCHANGED vars
    BY <2>4 DEF vars
  <2> QED  BY <2>1, <2>2, <2>3, <2>4 DEF Next
<1> QED  BY <1>1, <1>2, PTL DEF Spec

-----------------------------------------------------------------------------
(* Between two delimiters the buffer holds the end of what was read, and   *)
(* all of it until the first overflow.                                     *)
THEOREM BufferIsAlwaysTheEnd == Spec => []BufferIsTheEnd
<1>1. Init => BufferIsTheEnd
  BY DEF Init, BufferIsTheEnd
<1>2. TypeOK /\ BufferIsTheEnd /\ [Next]_vars => BufferIsTheEnd'
  <2> SUFFICES ASSUME TypeOK, BufferIsTheEnd, [Next]_vars PROVE BufferIsTheEnd'
    OBVIOUS
  <2> USE SizeIsNumber DEF TypeOK, BufferIsTheEnd
  <2>1. CASE Arrive
    BY <2>1 DEF Arrive
  <2>2. CASE Consume
    <3>1. CASE EmitLine
      BY <3>1 DEF EmitLine
    <3>2. CASE Head(stream) \in Chars /\ Store(Head(stream))
      <4> DEFINE c == Head(stream)
      <4>1. /\ line' \in Seq(Chars) /\ Len(line') = Len(line) + 1
            /\ line'[Len(line) + 1] = c
            /\ \A i \in 1..Len(line) : line'[i] = line[i]
        BY <3>2, AppendFacts DEF Store
      <4>2. Len(line) \in Nat /\ Len(buffer) \in Nat
        BY LenProperties
      <4>3. CASE Len(buffer) >= BufferSize
        BY <3>2, <4>1, <4>2, <4>3 DEF Store
      <4>4. CASE ~(Len(buffer) >= BufferSize)
        <5>1. /\ Len(buffer') = Len(buffer) + 1
              /\ buffer'[Len(buffer) + 1] = c
              /\ \A i \in 1..Len(buffer) : buffer'[i] = buffer[i]
              /\ skipped' = skipped
          BY <3>2, <4>4, AppendFacts DEF Store
        <5>2. \A i \in 1..Len(buffer') : buffer'[i] = line'[skipped' + i]
          <6> SUFFICES ASSUME NEW i \in 1..(Len(buffer) + 1)
                       PROVE  buffer'[i] = line'[skipped + i]
            BY <5>1
          <6>1. CASE i = Len(buffer) + 1
            BY <4>1, <4>2, <5>1, <6>1
          <6>2. CASE i # Len(buffer) + 1
            <7>1. i \in 1..Len(buffer) /\ skipped + i \in 1..Len(line)
              BY <4>2, <6>2
            <7> QED  BY <4>1, <5>1, <7>1
          <6> QED  BY <6>1, <6>2
        <5> QED  BY <4>1, <4>2, <5>1, <5>2
      <4> QED  BY <4>3, <4>4
    <3>3. Head(stream) \in Chars \cup {Delimiter}
      BY <2>2, HeadTailProperties DEF Consume
    <3> QED  BY <2>2, <3>1, <3>2, <3>3 DEF Consume
  <2>3. CASE Reset
    BY <2>3 DEF Reset
  <2>4. CASE UNCHANGED vars
    BY <2>4 DEF vars
  <2> QED  BY <2>1, <2>2, <2>3, <2>4 DEF Next
<1> QED  BY <1>1, <1>2, TypeCorrect, PTL DEF Spec

-----------------------------------------------------------------------------
(* What the buffer holds at a delimiter is something LineFeed may deliver. *)
LEMMA BufferIsDeliverable ==
    ASSUME TypeOK, BufferIsTheEnd
    PROVE  Strip(buffer) \in Feed!Deliverable(line)
<1> USE SizeIsNumber DEF TypeOK, BufferIsTheEnd
<1>0. Len(line) \in Nat /\ Len(buffer) \in Nat
  BY LenProperties
<1>1. CASE Len(line) <= BufferSize
  <2>1. skipped = 0 /\ Len(line) = Len(buffer)
    BY <1>0, <1>1
  <2>2. buffer = line
    BY <1>0, <2>1, SeqEqual
  <2> QED  BY <1>1, <2>2 DEF Strip, Feed!Strip, Feed!Deliverable
<1>2. CASE ~(Len(line) <= BufferSize)
  <2>1. skipped \in (BufferSize + 1)..Len(line)
    BY <1>0, <1>2
  <2>2. Feed!EndOf(line, skipped) = buffer
    <3>1. Len(line) - skipped = Len(buffer)
      BY <1>0
    <3>2. [i \in 1..Len(buffer) |-> buffer[i]] = buffer
      BY LenProperties
    <3>3. [i \in 1..Len(buffer) |-> line[skipped + i]] = [i \in 1..Len(buffer) |-> buffer[i]]
      OBVIOUS
    <3> QED  BY <3>1, <3>2, <3>3 DEF Feed!EndOf
  <2>3. Strip(buffer) = Feed!Strip(Feed!EndOf(line, skipped))
    BY <2>2 DEF Strip, Feed!Strip
  <2> QED  BY <1>2, <2>1, <2>3 DEF Feed!Deliverable
<1> QED  BY <1>1, <1>2

(* The reader implements LineFeed: whole lines as long as they fit, ends   *)
(* of the others, never a mixture of two.                                  *)
THEOREM ImplementsLineFeed == Spec => FeedsLines
<1>1. Init => Feed!Init
  BY DEF Init, Feed!Init
<1>2. TypeOK /\ BufferIsTheEnd /\ [Next]_vars => [Feed!Next]_<<line, delivered>>
  <2> SUFFICES ASSUME TypeOK, BufferIsTheEnd, [Next]_vars
               PROVE  [Feed!Next]_<<line, delivered>>
    OBVIOUS
  <2>1. CASE Arrive
    BY <2>1 DEF Arrive
  <2>2. CASE Consume
    <3>1. Head(stream) \in Chars \cup {Delimiter}
      BY <2>2, HeadTailProperties DEF Consume, TypeOK
    <3>2. CASE EmitLine
      BY <3>2, BufferIsDeliverable DEF EmitLine, Feed!Next, Feed!Deliver
    <3>3. CASE Head(stream) \in Chars /\ Store(Head(stream))
      BY <3>3 DEF Store, Feed!Next, Feed!Extend
    <3> QED  BY <2>2, <3>1, <3>2, <3>3 DEF Consume
  <2>3. CASE Reset
    BY <2>3 DEF Reset, Feed!Next, Feed!GiveUp
  <2>4. CASE UNCHANGED vars
    BY <2>4 DEF vars
  <2> QED  BY <2>1, <2>2, <2>3, <2>4 DEF Next
<1> QED
  BY <1>1, <1>2, TypeCorrect, BufferIsAlwaysTheEnd, PTL DEF Spec, FeedsLines, Feed!Spec
=============================================================================
