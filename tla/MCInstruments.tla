--------------------------- MODULE MCInstruments ---------------------------
(* Bursts of one bit and of eight, within bytes and across them.           *)
(* The heading of 53 degrees starts with the checksum of its own header,   *)
(* the one of 6.49 has in 49 the checksum of what stands before its point. *)
(* Rudder 32731 sent twice gives, without its third byte, a packet that    *)
(* passes and says 3291.                                                   *)
EXTENDS Instruments

MCRanges == {45, -45}

MCTelemetry == {<<"rudder", 32731>>, <<"flags", 8>>, <<"flags", 0>>}

Mask(bits) ==  \* bits of the 32 of a packet, as its four bytes
    [i \in 1..4 |-> FoldLeft(LAMBDA a, b : a + b, 0,
                      [k \in 1..8 |-> IF 8 * (i - 1) + k \in bits THEN 2^(8 - k) ELSE 0])]

MCBursts == {Mask({b}) : b \in {1, 24, 32}}
            \cup {Mask({b, b + 3, b + 7}) : b \in {3, 13, 22}}

MCSentences ==
    {<<"$", "H", "C", "H", "D", "T", ",", "5", "3", "*", "7", "9">>,
     <<"$", "H", "C", "H", "D", "T", ",", "6", ".", "4", "9", ",", "T", "*", "1", "2">>,
     <<"$", "I", "I", "R", "S", "A", ",", "-", "7", ",", "A", "*", "1", "B">>,
     <<"$", "W", "I", "M", "W", "V", ",", "9", ",", "R", ",", "2", ",", "N", "*", "4", "5">>,
     <<"$", "G", "P", "A", "P", "B", ",", "A", "*", "2", "9">>}

(* What the theorem on genuine checksums asks of the sentences.            *)
ASSUME SentencesConform == \A s \in Sentences : Conforming(s)
ASSUME DamageStaysText == DamageChars \subseteq Alphabet
=============================================================================
