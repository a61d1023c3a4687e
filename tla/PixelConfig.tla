------------------------------ MODULE PixelConfig ------------------------------
(***************************************************************************)
(* The pixel configuration that the controller collects and then sends,    *)
(* row by row as planes of bits (SpidrController.cpp).  A configuration    *)
(* word is its set of bits that are one.                                   *)
(***************************************************************************)
EXTENDS Integers

CONSTANTS
    Size,        \* pixels of a row, and rows; also the value ALL_PIXELS
    Thresholds,  \* values for the threshold parameters, valid or not
    MaxConfigs   \* bound: calls

ASSUME PixelAssumption == Size \in Nat \ {0}

VARIABLES
    chip,        \* "MPX3" or "MPX3RX"
    pixelConfig, \* _pixelConfig: pixel -> word
    asked,       \* pixel -> what was last asked for it, for the property
    configs      \* calls done

pixelVars == <<chip, pixelConfig, asked, configs>>

ALL_PIXELS == Size
Line == 0 .. Size - 1
Pixels == Line \X Line      \* x and y
MASKBIT == IF chip = "MPX3" THEN 9 ELSE 0
TESTBIT == IF chip = "MPX3" THEN 3 ELSE 11

BitsOf(n) == {b \in 0 .. 4 : (n \div <<1, 2, 4, 8, 16>>[b + 1]) % 2 = 1}
Flag(b, on) == IF on THEN {b} ELSE {}

(* The pixels that coordinates mean: none if they are not valid. *)
Coordinates == -1 .. ALL_PIXELS
validXandY(x, y) ==
    {p \in Pixels : (x = ALL_PIXELS \/ p[1] = x) /\ (y = ALL_PIXELS \/ p[2] = y)}

PixelInit ==
    /\ chip \in {"MPX3", "MPX3RX"} /\ configs = 0
    /\ pixelConfig = [p \in Pixels |-> {}]
    /\ asked = [p \in Pixels |-> [a |-> 0, b |-> 0, test |-> FALSE, mask |-> FALSE]]

ConfigureVariant(x, y, word, request) ==
    /\ pixelConfig' = [p \in Pixels |->
           IF p \in validXandY(x, y) THEN word ELSE pixelConfig[p]]
    /\ asked' = [p \in Pixels |->
           IF p \in validXandY(x, y) THEN [request EXCEPT !.mask = asked[p].mask]
                                     ELSE asked[p]]
Configure(x, y, word, request) ==
    /\ pixelConfig' = [p \in Pixels |->
           IF p \in validXandY(x, y) THEN (pixelConfig[p] \cap {MASKBIT}) \cup word
                                     ELSE pixelConfig[p]]
    /\ asked' = [p \in Pixels |->
           IF p \in validXandY(x, y) THEN [request EXCEPT !.mask = asked[p].mask]
                                     ELSE asked[p]]

(* The bits of the two thresholds of an MPX3, the fifth ones included: some *)
(* share a place, as those of the second counter are shifted into the first.*)
GAINMODE == 8
THA == <<5, 5, 6, 7, 7>>
THB == <<6, 10, 8, 4, 4>>
configPixelMpx3(x, y, a, b, gain, testbit) ==
    /\ chip = "MPX3" /\ a \in 0 .. 31 /\ b \in 0 .. 31
    /\ Configure(x, y, {THA[i + 1] : i \in BitsOf(a)} \cup {THB[i + 1] : i \in BitsOf(b)}
                           \cup Flag(GAINMODE, gain) \cup Flag(TESTBIT, testbit),
                 [a |-> a, b |-> b, test |-> testbit, mask |-> FALSE])
configPixelMpx3rx(x, y, discl, disch, testbit) ==
    /\ chip = "MPX3RX" /\ discl \in 0 .. 31 /\ disch \in 0 .. 31
    /\ Configure(x, y, {i + 1 : i \in BitsOf(discl)} \cup {i + 6 : i \in BitsOf(disch)}
                           \cup Flag(TESTBIT, testbit),
                 [a |-> discl, b |-> disch, test |-> testbit, mask |-> FALSE])
setPixelBit(x, y, on) ==
    /\ pixelConfig' = [p \in Pixels |->
           IF p \notin validXandY(x, y) THEN pixelConfig[p]
           ELSE IF on THEN pixelConfig[p] \cup {MASKBIT} ELSE pixelConfig[p] \ {MASKBIT}]
    /\ asked' = [p \in Pixels |->
           IF p \in validXandY(x, y) THEN [asked[p] EXCEPT !.mask = on] ELSE asked[p]]
resetPixelConfig ==
    /\ pixelConfig' = [p \in Pixels |-> {}]
    /\ asked' = [p \in Pixels |-> [a |-> 0, b |-> 0, test |-> FALSE, mask |-> FALSE]]

PixelNext ==
    /\ configs < MaxConfigs /\ configs' = configs + 1 /\ UNCHANGED chip
    /\ \/ \E x, y \in Coordinates, a, b \in Thresholds, gain, testbit \in BOOLEAN :
              configPixelMpx3(x, y, a, b, gain, testbit)
       \/ \E x, y \in Coordinates, a, b \in Thresholds, testbit \in BOOLEAN :
              configPixelMpx3rx(x, y, a, b, testbit)
       \/ \E x, y \in Coordinates, on \in BOOLEAN : setPixelBit(x, y, on)
       \/ resetPixelConfig

(* A row as it is sent, to counter 0 or 1: the bits that are one, from the *)
(* plane of the most significant bit on.                                   *)
pixelrow(row, counter) ==
    LET ones == {bc \in (0 .. 11) \X Line :
                    bc[1] + 12 * counter \in pixelConfig[<<bc[2], row>>]}
    IN  {(11 - bc[1]) * Size + bc[2] : bc \in ones}

(* What an MPX3RX takes from its rows: bit b of pixel p. *)
Received(p, b) == ((11 - b) * Size + p[1]) \in pixelrow(p[2], 0)

(* The mask and the test bit of a pixel are those last asked for it, and   *)
(* an MPX3RX receives them and its thresholds, whatever calls for other    *)
(* pixels, rows or columns came in between.                                *)
PixelsAsAsked ==
    \A p \in Pixels :
        /\ asked[p].mask = (MASKBIT \in pixelConfig[p])
        /\ asked[p].test = (TESTBIT \in pixelConfig[p])
        /\ chip = "MPX3RX" =>
               /\ asked[p].mask = Received(p, 0) /\ asked[p].test = Received(p, 11)
               /\ BitsOf(asked[p].a) = {i \in 0 .. 4 : Received(p, i + 1)}
               /\ BitsOf(asked[p].b) = {i \in 0 .. 4 : Received(p, i + 6)}
=============================================================================
