------------------------------ MODULE Nmea0183 ------------------------------
(***************************************************************************)
(* The text of NMEA 0183 sentences: the checksum, the cut into fields, and *)
(* what parse_line makes of a line.  A line is a sequence of characters    *)
(* out of digits, letters and the few signs sentences use, already without *)
(* CR and LF.  Numbers are integers in hundredths: strtof without its      *)
(* exponents, and without the decimals beyond the second.                  *)
(***************************************************************************)
EXTENDS Integers, SequencesExt, Bytes

Digits == <<"0", "1", "2", "3", "4", "5", "6", "7", "8", "9">>
Upper == <<"A", "B", "C", "D", "E", "F", "G", "H", "I", "J", "K", "L", "M",
           "N", "O", "P", "Q", "R", "S", "T", "U", "V", "W", "X", "Y", "Z">>
Lower == <<"a", "b", "c", "d", "e", "f">>
Signs == <<"*", "+", ",", "-", ".">>

(* The characters of sentences.                                            *)
Alphabet == {"$"} \cup {Signs[i] : i \in 1..5} \cup {Digits[i] : i \in 1..10}
                   \cup {Upper[i] : i \in 1..26} \cup {Lower[i] : i \in 1..6}

PlaceIn(seq, c) == CHOOSE i \in DOMAIN seq : seq[i] = c
IsIn(seq, c) == \E i \in DOMAIN seq : seq[i] = c

IsCode(n, c) ==
    \/ n = 36 /\ c = "$"
    \/ n \in 42..46 /\ c = Signs[n - 41]
    \/ n \in 48..57 /\ c = Digits[n - 47]
    \/ n \in 65..90 /\ c = Upper[n - 64]
    \/ n \in 97..102 /\ c = Lower[n - 96]

Ascii(c) == CHOOSE n \in 36..102 : IsCode(n, c)

(* The exclusive or of all characters: a bit of it is set when an odd      *)
(* number of them has that bit.                                            *)
Having(body, k) == {i \in DOMAIN body : Bits(Ascii(body[i]))[k] = 1}

ChecksumBody(body) == FromBits([k \in 1..8 |-> Cardinality(Having(body, k)) % 2])

HexValue(c) ==
    CASE IsIn(Digits, c) -> PlaceIn(Digits, c) - 1
      [] IsIn(Upper, c) /\ PlaceIn(Upper, c) <= 6 -> PlaceIn(Upper, c) + 9
      [] IsIn(Lower, c) -> PlaceIn(Lower, c) + 9
      [] OTHER -> -1

SplitFields(body) ==
    LET commas == {i \in DOMAIN body : body[i] = ","}
        cuts == SetToSortSeq(commas \cup {0, Len(body) + 1}, <)
    IN  [k \in 1..(Len(cuts) - 1) |-> SubSeq(body, cuts[k] + 1, cuts[k + 1] - 1)]

(* Position of the first '*', or 0.                                        *)
StarOf(line) ==
    LET stars == {i \in DOMAIN line : line[i] = "*"}
    IN  IF stars = {} THEN 0 ELSE CHOOSE i \in stars : \A j \in stars : i <= j

BodyOf(line) == SubSeq(line, 2, IF StarOf(line) = 0 THEN Len(line) ELSE StarOf(line) - 1)

ChecksumOkWithoutStar(line) ==
    LET star == StarOf(line)
    IN  star # 0 => /\ star + 2 <= Len(line)
                    /\ HexValue(line[star + 1]) >= 0 /\ HexValue(line[star + 2]) >= 0
                    /\ ChecksumBody(BodyOf(line)) =
                         16 * HexValue(line[star + 1]) + HexValue(line[star + 2])

ChecksumOk(line) ==
    LET star == StarOf(line)
    IN  /\ star # 0 /\ star + 2 <= Len(line)
        /\ HexValue(line[star + 1]) >= 0 /\ HexValue(line[star + 2]) >= 0
        /\ ChecksumBody(BodyOf(line)) =
             16 * HexValue(line[star + 1]) + HexValue(line[star + 2])

ParseLine(line) ==
    LET parts == SplitFields(BodyOf(line))
        header == parts[1]
    IN  [ok |-> line # <<>> /\ line[1] = "$" /\ Len(header) >= 3,
         talker |-> SubSeq(header, 1, Len(header) - 3),
         type |-> SubSeq(header, IF Len(header) > 3 THEN Len(header) - 2 ELSE 1, Len(header)),
         fields |-> Tail(parts),
         checksum_ok |-> ChecksumOk(line)]

(* parse_real: the number a field starts with.                             *)
RunEnd(f, i) ==
    CHOOSE j \in i..(Len(f) + 1) :
      /\ \A k \in i..(j - 1) : IsIn(Digits, f[k])
      /\ j = Len(f) + 1 \/ ~IsIn(Digits, f[j])

Number(digits) == FoldLeft(LAMBDA n, c : 10 * n + PlaceIn(Digits, c) - 1, 0, digits)

ParseReal(f) ==
    LET start == IF f # <<>> /\ f[1] \in {"+", "-"} THEN 2 ELSE 1
        dot == RunEnd(f, start)
        pointed == dot <= Len(f) /\ f[dot] = "."
        decimals == IF pointed THEN SubSeq(f, dot + 1, RunEnd(f, dot + 1) - 1) ELSE <<>>
        hundredths == Number(SubSeq(decimals \o <<"0", "0">>, 1, 2))
        size == 100 * Number(SubSeq(f, start, dot - 1)) + hundredths
    IN  [ok |-> dot > start \/ decimals # <<>>,
         value |-> IF f # <<>> /\ f[1] = "-" THEN -size ELSE size]
=============================================================================
