------------------------------- MODULE PixelLut -------------------------------
(***************************************************************************)
(* The look-up tables that undo the Medipix3RX's pseudo-random counters,   *)
(* filled by a shift register that walks through all codes (lutInit, the   *)
(* same in FramebuilderThread), and lutBugFix, which uses both on the      *)
(* words that some firmware has decoded by mistake.                        *)
(***************************************************************************)
EXTENDS Integers, Sequences, FiniteSets

CONSTANT Widths     \* of the counters, 6 and 12
ASSUME WidthsAssumption == Widths \subseteq {6, 12}

VARIABLES
    width,
    count, code,    \* i and pixcode
    lut, enc        \* code -> count, and count -> code

lutVars == <<width, count, code, lut, enc>>

(* The bits of the code that the next one's first bit depends on. *)
TapsVariant(w) == IF w = 6 THEN {1, 5} ELSE {0, 3, 5, 11}
Taps(w) == IF w = 6 THEN {0, 5} ELSE {0, 3, 5, 11}
Bit(n, b) == (n \div (2^b)) % 2
NextCode(c, w) ==
    LET ones == {b \in Taps(w) : Bit(c, b) = 1}
        flip == IF c % (2^(w - 1)) = 0 THEN 1 ELSE 0
    IN  (2 * c + ((Cardinality(ones) + flip) % 2)) % (2^w)

Codes == 0 .. 2^width - 1
LutInit ==
    /\ width \in Widths /\ count = 0 /\ code = 0
    /\ lut = [c \in Codes |-> 0] /\ enc = [i \in Codes |-> 0]

(* One turn of the loop. *)
LutStep ==
    /\ count \in Codes /\ count' = count + 1
    /\ lut' = [lut EXCEPT ![code] = count] /\ enc' = [enc EXCEPT ![count] = code]
    /\ code' = NextCode(code, width) /\ UNCHANGED width
Filled == count = 2^width

(* The pixels of a word that ends a row, first pixel first: some were not  *)
(* decoded and the row and frame numbers in the last ones were.            *)
lutBugFix(word) ==
    IF width = 12
    THEN [word EXCEPT ![1] = lut[@], ![5] = enc[@]]
    ELSE [i \in 1 .. 10 |-> IF i <= 4 THEN lut[word[i]]
                            ELSE IF i > 6 THEN enc[word[i]] ELSE word[i]]

(* What such firmware makes of a word (external): the counter values come  *)
(* as codes, and what is no counter value has been looked up.              *)
LutBug(word) ==
    IF width = 12
    THEN [word EXCEPT ![1] = enc[@], ![5] = lut[@]]
    ELSE [i \in 1 .. 10 |-> IF i <= 4 THEN enc[word[i]]
                            ELSE IF i > 6 THEN lut[word[i]] ELSE word[i]]

(* The walk comes back to where it began no sooner than it has met all codes. *)
WalkMeetsAll == code = 0 => count = 0 \/ Filled

(* Filled, the tables are each other's inverse on all codes, so that the   *)
(* fix undoes the bug whatever the word ("un-mangle it").                  *)
FixUndoesBug ==
    Filled =>
        \A n \in Codes :
            LET word == [i \in 1 .. 60 \div width |-> n]
            IN  lutBugFix(LutBug(word)) = word
=============================================================================
