----------------------------- MODULE LayoutsProofs -----------------------------
(***************************************************************************)
(* Theorems about the register, for any sequence of settings, about the    *)
(* pixel configuration, for any size of a row, and about the tables of     *)
(* counter values.                                                         *)
(***************************************************************************)
EXTENDS Layouts, FiniteSetTheorems, TLAPS

-----------------------------------------------------------------------------
(* The register.                                                           *)

Fields == {"Mode", "Polarity", "CountL", "InfoHeader"}
RegisterInv ==
    /\ content \subseteq 0 .. 63
    /\ given = [f \in Fields \cup {"HighR"} |-> given[f]]
    /\ \A f \in Fields : /\ given[f] \subseteq Mask[f]
                         /\ \A b \in Mask[f] : b \in given[f] <=> b + Shift[f] \in content
    /\ given["HighR"] \subseteq 0 .. 15
    /\ ~lowAfterHigh => \A b \in 0 .. 15 : b \in given["HighR"] <=> 47 - b \in content

LEMMA FieldsAre ==
    /\ DOMAIN Shift = Fields /\ DOMAIN Mask = Fields
    /\ \A f \in Fields : Mask[f] \subseteq 0 .. 2 /\ Shift[f] \in {0, 4, 9, 22}
    (* Their places are apart. *)
    /\ \A f, g \in Fields : \A b \in Mask[f], c \in Mask[g] :
           b + Shift[f] = c + Shift[g] => f = g /\ b = c
BY DEF Shift, Mask, Fields

LEMMA ShiftedIs == ASSUME NEW word, NEW n, NEW b PROVE b \in ShiftedBy(word, n) <=> \E c \in word : b = c + n
BY DEF ShiftedBy

LEMMA ReversedIs ==
    ASSUME NEW word, word \subseteq 0 .. 15, NEW b
    PROVE  b \in reverse(ShiftedBy(word, 16)) <=> \E c \in word : b = 15 - c
<1>1. b \in reverse(ShiftedBy(word, 16)) <=> \E d \in ShiftedBy(word, 16) : b = 31 - d
  BY DEF reverse
<1>2. \A d : d \in ShiftedBy(word, 16) <=> \E c \in word : d = c + 16
  BY ShiftedIs
<1>3. \A c \in word : 31 - (c + 16) = 15 - c
  OBVIOUS
<1>4. ASSUME b \in reverse(ShiftedBy(word, 16)) PROVE \E c \in word : b = 15 - c
  <2>1. PICK d \in ShiftedBy(word, 16) : b = 31 - d
    BY <1>1, <1>4
  <2>2. PICK c \in word : d = c + 16
    BY <1>2
  <2> QED
    BY <2>1, <2>2, <1>3
<1>5. ASSUME NEW c \in word, b = 15 - c PROVE b \in reverse(ShiftedBy(word, 16))
  <2>1. c + 16 \in ShiftedBy(word, 16) /\ b = 31 - (c + 16)
    BY <1>2, <1>3, <1>5
  <2> QED
    BY <2>1, <1>1
<1> QED
  BY <1>4, <1>5

(* What setting some bits does to each. *)
LEMMA WithBitsIs ==
    ASSUME NEW val, NEW shift \in 0 .. 32, NEW mask, mask \subseteq 0 .. 15
    PROVE  \A b \in Int : b \in WithBits(val, shift, mask) <=>
               IF b - shift \in mask THEN b - shift \in val ELSE b \in content
<1> TAKE b \in Int
<1>1. 31 \notin mask /\ 31 \notin val \cap mask
  OBVIOUS
<1>2. ToLong(mask) = mask /\ ToLong(val \cap mask) = val \cap mask
  BY <1>1 DEF ToLong
<1>3. ASSUME NEW word \in SUBSET Int PROVE b \in ShiftedBy(word, shift) <=> b - shift \in word
  <2>1. b \in ShiftedBy(word, shift) <=> \E c \in word : b = c + shift
    BY DEF ShiftedBy
  <2>2. \A c \in word : b = c + shift <=> c = b - shift
    OBVIOUS
  <2> QED
    BY <2>1, <2>2
<1>4. b \in ShiftedBy(mask, shift) <=> b - shift \in mask
  BY <1>3
<1>5. b \in ShiftedBy(val \cap mask, shift) <=> b - shift \in val \cap mask
  BY <1>3
<1> QED
  BY <1>2, <1>4, <1>5 DEF WithBits

(* What the register's functions read. *)
LEMMA FieldReads ==
    ASSUME RegisterInv, NEW f \in Fields PROVE getField(f) = given[f]
<1>1. \A b \in Int : b \in ShiftedBy(content, -Shift[f]) <=> b + Shift[f] \in content
  BY ShiftedIs, FieldsAre DEF RegisterInv
<1>2. \A b : b \in getField(f) <=> b \in Mask[f] /\ b + Shift[f] \in content
  BY <1>1, FieldsAre DEF getField, bits
<1> QED
  BY <1>2 DEF RegisterInv

LEMMA HighReads ==
    ASSUME RegisterInv, ~lowAfterHigh PROVE getHighR = given["HighR"]
<1>1. \A b \in Int : b \in bits(32, 0 .. 15) <=> b \in 0 .. 15 /\ b + 32 \in content
  BY ShiftedIs DEF RegisterInv, bits
<1>2. bits(32, 0 .. 15) \subseteq 0 .. 15
  BY DEF bits
<1>3. \A b : b \in getHighR <=> \E c \in bits(32, 0 .. 15) : b = 15 - c
  BY <1>2, ReversedIs DEF getHighR
<1>4. \A b : b \in getHighR <=> b \in 0 .. 15 /\ 47 - b \in content
  <2>1. ASSUME NEW b, b \in getHighR PROVE b \in 0 .. 15 /\ 47 - b \in content
    BY <2>1, <1>1, <1>2, <1>3
  <2>2. ASSUME NEW b \in 0 .. 15, 47 - b \in content PROVE b \in getHighR
    <3>1. 15 - b \in bits(32, 0 .. 15) /\ b = 15 - (15 - b)
      BY <2>2, <1>1
    <3> QED
      BY <3>1, <1>3
  <2> QED
    BY <2>1, <2>2
<1> QED
  BY <1>4 DEF RegisterInv

LEMMA FieldKeeps ==
    ASSUME RegisterInv, NEW f \in Fields, NEW val, val \subseteq Mask[f], setField(f, val)
    PROVE  RegisterInv'
<1> USE FieldsAre
<1>1. \A b \in Int : b \in content' <=>
          IF b - Shift[f] \in Mask[f] THEN b - Shift[f] \in val ELSE b \in content
  <2> DEFINE shift == Shift[f]
             mask == Mask[f]
  <2>1. shift \in 0 .. 32 /\ mask \subseteq 0 .. 15
    OBVIOUS
  <2>2. content' = WithBits(val, shift, mask)
    BY DEF setField
  <2> HIDE DEF shift, mask
  <2>3. \A b \in Int : b \in content' <=>
            IF b - shift \in mask THEN b - shift \in val ELSE b \in content
    BY <2>1, <2>2, WithBitsIs
  <2> QED
    BY <2>3 DEF shift, mask
<1>2. content' \subseteq 0 .. 63
  <2>1. content' \subseteq Int
    BY DEF setField, WithBits, ToLong, ShiftedBy, RegisterInv
  <2> QED
    BY <1>1, <2>1 DEF RegisterInv
<1>3. /\ given' = [g \in Fields \cup {"HighR"} |-> given'[g]]
      /\ \A g \in Fields \cup {"HighR"} : given'[g] = IF g = f THEN val ELSE given[g]
  BY DEF setField, RegisterInv
<1>4. "HighR" \notin Fields
  BY DEF Fields
<1>5. ASSUME NEW g \in Fields
      PROVE  /\ given'[g] \subseteq Mask[g]
             /\ \A b \in Mask[g] : b \in given'[g] <=> b + Shift[g] \in content'
  <2>1. CASE g = f
    BY <1>1, <1>3, <2>1
  <2>2. CASE g # f
    <3>1. \A b \in Mask[g] : b + Shift[g] - Shift[f] \notin Mask[f]
      BY <2>2
    <3>2. \A b \in Mask[g] : b + Shift[g] \in Int
      OBVIOUS
    <3>3. \A b \in Mask[g] : b + Shift[g] \in content' <=> b + Shift[g] \in content
      BY <1>1, <3>1, <3>2
    <3>4. given'[g] = given[g]
      BY <1>3, <2>2
    <3> QED
      BY <3>3, <3>4 DEF RegisterInv
  <2> QED
    BY <2>1, <2>2
<1>6. ~lowAfterHigh' => \A b \in 0 .. 15 : b \in given'["HighR"] <=> 47 - b \in content'
  <2>1. \A b \in 0 .. 15 : 47 - b - Shift[f] \notin Mask[f]
    OBVIOUS
  <2> QED
    BY <1>1, <1>3, <1>4, <2>1 DEF RegisterInv, setField
<1>7. given'["HighR"] \subseteq 0 .. 15
  <2>1. given'["HighR"] = given["HighR"]
    BY <1>3, <1>4, Zenon
  <2> QED
    BY <2>1, Zenon DEF RegisterInv
<1>8. given' = [g \in Fields \cup {"HighR"} |-> given'[g]]
  BY <1>3
<1> QED
  BY <1>2, <1>5, <1>6, <1>7, <1>8, Zenon DEF RegisterInv

LEMMA HighKeeps ==
    ASSUME RegisterInv, NEW a, a \subseteq 0 .. 31, setHighR(a) PROVE RegisterInv'
<1> DEFINE val == reverse(ShiftedBy(a \cap (0 .. 15), 16))
<1>1. \A c : c \in val <=> \E b \in a \cap (0 .. 15) : c = 15 - b
  BY ReversedIs
<1>2. \A b \in 0 .. 15 : 15 - b \in val <=> b \in a
  BY <1>1
<1>3. content' = WithBits(val, 32, 0 .. 15) /\ val \subseteq 0 .. 15
  BY <1>1 DEF setHighR
<1> HIDE DEF val
<1>4. \A b \in Int : b \in content' <=>
          IF b - 32 \in 0 .. 15 THEN b - 32 \in val ELSE b \in content
  <2> DEFINE shift == 32
             mask == 0 .. 15
  <2>1. shift \in 0 .. 32 /\ mask \subseteq 0 .. 15
    OBVIOUS
  <2>2. content' = WithBits(val, shift, mask)
    BY <1>3
  <2> HIDE DEF shift, mask
  <2>3. \A b \in Int : b \in content' <=>
            IF b - shift \in mask THEN b - shift \in val ELSE b \in content
    BY <2>1, <2>2, WithBitsIs
  <2> QED
    BY <2>3 DEF shift, mask
<1>5. content' \subseteq 0 .. 63
  <2>1. content' \subseteq Int
    BY <1>3 DEF WithBits, ToLong, ShiftedBy, RegisterInv
  <2> QED
    BY <1>4, <2>1 DEF RegisterInv
<1>6. /\ given' = [g \in Fields \cup {"HighR"} |-> given'[g]] /\ "HighR" \notin Fields
      /\ \A g \in Fields \cup {"HighR"} :
             given'[g] = IF g = "HighR" THEN a \cap (0 .. 15) ELSE given[g]
  BY DEF setHighR, RegisterInv, Fields
<1>7. \A g \in Fields : \A b \in Mask[g] : b + Shift[g] \in content' <=> b + Shift[g] \in content
  BY <1>4, FieldsAre
<1>8. \A b \in 0 .. 15 : 47 - b \in content' <=> b \in a
  BY <1>4, <1>2
<1>9. \A g \in Fields : given'[g] = given[g]
  BY <1>6
<1>10. \A g \in Fields : /\ given'[g] \subseteq Mask[g]
                         /\ \A b \in Mask[g] : b \in given'[g] <=> b + Shift[g] \in content'
  BY <1>7, <1>9 DEF RegisterInv
<1>11. given'["HighR"] = a \cap (0 .. 15)
  BY <1>6
<1> QED
  BY <1>5, <1>6, <1>8, <1>10, <1>11 DEF RegisterInv

LEMMA LowKeeps ==
    ASSUME RegisterInv, NEW a, a \subseteq 0 .. 31, setLowR(a) PROVE RegisterInv'
<1> DEFINE val == reverse(a)
<1>1. val \subseteq 0 .. 31
  BY DEF reverse
<1>2. val \cap (0 .. 31) = val
  BY <1>1
<1>3. content' = (content \ ShiftedBy(ToLong(0 .. 31), 0)) \cup ShiftedBy(ToLong(val), 0)
  BY <1>2 DEF setLowR, WithBits
<1>4. ToLong(0 .. 31) = 0 .. 63 /\ ToLong(val) \subseteq 0 .. 63
      /\ \A b \in 0 .. 31 : b \in ToLong(val) <=> b \in val
  BY <1>1 DEF ToLong
<1>5. ASSUME NEW word, word \subseteq 0 .. 63 PROVE ShiftedBy(word, 0) = word
  <2>1. \A b : b \in ShiftedBy(word, 0) <=> \E c \in word : b = c + 0
    BY ShiftedIs
  <2>2. \A c \in word : c + 0 = c
    BY <1>5
  <2>3. ASSUME NEW b PROVE b \in ShiftedBy(word, 0) <=> b \in word
    <3>1. (\E c \in word : b = c + 0) <=> b \in word
      BY <2>2
    <3> QED
      BY <2>1, <3>1
  <2> QED
    BY <2>3
<1>6. content' = ToLong(val)
  BY <1>3, <1>4, <1>5 DEF RegisterInv
<1> HIDE DEF val
<1>7. /\ given' = [g \in Fields \cup {"HighR"} |-> given'[g]] /\ "HighR" \notin Fields
      /\ given'["HighR"] = given["HighR"] /\ lowAfterHigh'
      /\ \A g \in Fields : given'[g] = ShiftedBy(val, -Shift[g]) \cap Mask[g]
  BY DEF setLowR, RegisterInv, Fields, val
<1>8. ASSUME NEW g \in Fields, NEW b \in Mask[g]
      PROVE  b \in given'[g] <=> b + Shift[g] \in content'
  <2>1. b \in given'[g] <=> b + Shift[g] \in val
    BY <1>1, <1>7, ShiftedIs, FieldsAre
  <2>2. b + Shift[g] \in 0 .. 31
    BY FieldsAre
  <2> QED
    BY <2>1, <2>2, <1>4, <1>6
<1> QED
  BY <1>4, <1>6, <1>7, <1>8 DEF RegisterInv

LEMMA RegisterKeeps == ASSUME RegisterInv, OmrNext PROVE RegisterInv'
<1>1. \A f \in DOMAIN Shift : \A val \in SUBSET Mask[f] : setField(f, val) => RegisterInv'
  BY FieldKeeps, FieldsAre
<1>2. \A a \in Words : setHighR(a) \/ setLowR(a) => RegisterInv'
  BY HighKeeps, LowKeeps, RegisterAssumption
<1> QED
  BY <1>1, <1>2 DEF OmrNext

LEMMA RegisterBegins == ASSUME OmrInit PROVE RegisterInv
BY FieldsAre DEF OmrInit, RegisterInv

-----------------------------------------------------------------------------
(* The pixel configuration.                                                *)

Asked == [a : 0 .. 31, b : 0 .. 31, test : BOOLEAN, mask : BOOLEAN]
(* The word of an MPX3RX with its two thresholds. *)
Thresholded(word, a, b) ==
    /\ BitsOf(a) = {i \in 0 .. 4 : i + 1 \in word}
    /\ BitsOf(b) = {i \in 0 .. 4 : i + 6 \in word}
(* A pixel's word and what was asked for it. *)
Agree(word, request) ==
    /\ word \subseteq 0 .. 11 /\ request \in Asked
    /\ request.mask <=> MASKBIT \in word
    /\ request.test <=> TESTBIT \in word
    /\ chip = "MPX3RX" => Thresholded(word, request.a, request.b)
PixelInv ==
    /\ chip \in {"MPX3", "MPX3RX"}
    /\ pixelConfig = [p \in Pixels |-> pixelConfig[p]] /\ asked = [p \in Pixels |-> asked[p]]
    /\ \A p \in Pixels : Agree(pixelConfig[p], asked[p])

LEMMA PlacesApart ==
    ASSUME NEW i \in 0 .. 11, NEW k \in 0 .. 11, NEW x \in Line, NEW y \in Line,
           i * Size + x = k * Size + y
    PROVE  i = k /\ x = y
<1>1. Size \in Nat /\ Size > 0 /\ x \in 0 .. Size - 1 /\ y \in 0 .. Size - 1
  BY PixelAssumption DEF Line
<1>2. \A n, m \in 0 .. 11 : n < m => n * Size + Size <= m * Size
  BY <1>1
<1>3. i * Size \in Int /\ k * Size \in Int
  BY <1>1
<1>4. ~ i < k /\ ~ k < i
  BY <1>1, <1>2, <1>3
<1>5. i = k
  BY <1>4
<1> QED
  BY <1>1, <1>3, <1>5

(* What an MPX3RX receives is the word. *)
LEMMA ReceivedIs ==
    ASSUME NEW p \in Pixels, NEW b \in 0 .. 11
    PROVE  Received(p, b) <=> b \in pixelConfig[p]
<1>1. p[1] \in Line /\ p[2] \in Line /\ p = <<p[1], p[2]>>
  BY DEF Pixels
<1>2. \A n \in Int : n + 12 * 0 = n
  OBVIOUS
<1> DEFINE ones == {bc \in (0 .. 11) \X Line : bc[1] \in pixelConfig[<<bc[2], p[2]>>]}
<1>3. pixelrow(p[2], 0) = {(11 - bc[1]) * Size + bc[2] : bc \in ones}
  BY <1>2 DEF pixelrow
<1>4. ASSUME Received(p, b) PROVE b \in pixelConfig[p]
  <2>1. PICK bc \in ones : (11 - b) * Size + p[1] = (11 - bc[1]) * Size + bc[2]
    BY <1>3, <1>4 DEF Received
  <2>2. bc[1] \in 0 .. 11 /\ bc[2] \in Line /\ bc[1] \in pixelConfig[<<bc[2], p[2]>>]
    OBVIOUS
  <2>3. 11 - b = 11 - bc[1] /\ p[1] = bc[2]
    <3>1. 11 - b \in 0 .. 11 /\ 11 - bc[1] \in 0 .. 11
      BY <2>2
    <3> QED
      BY <3>1, <2>1, <2>2, <1>1, PlacesApart
  <2> QED
    BY <2>2, <2>3, <1>1
<1>5. ASSUME b \in pixelConfig[p] PROVE Received(p, b)
  <2>1. <<b, p[1]>> \in ones
    BY <1>1, <1>5
  <2> QED
    BY <1>3, <2>1 DEF Received
<1> QED
  BY <1>4, <1>5

LEMMA NoBits == BitsOf(0) = {}
<1>1. ASSUME NEW b \in 0 .. 4 PROVE (0 \div <<1, 2, 4, 8, 16>>[b + 1]) % 2 = 0
  <2>1. PICK k \in {1, 2, 4, 8, 16} : <<1, 2, 4, 8, 16>>[b + 1] = k
    OBVIOUS
  <2>2. 0 \div k = 0
    BY <2>1
  <2> QED
    BY <2>1, <2>2
<1> QED
  BY <1>1 DEF BitsOf

LEMMA NothingAsked ==
    Agree({}, [a |-> 0, b |-> 0, test |-> FALSE, mask |-> FALSE])
BY NoBits DEF Agree, Asked, Thresholded

LEMMA BitsApart ==
    /\ TESTBIT # MASKBIT /\ MASKBIT \in {0, 9}
    /\ chip = "MPX3" => MASKBIT = 9 /\ TESTBIT = 3
    /\ chip = "MPX3RX" => MASKBIT = 0 /\ TESTBIT = 11
BY DEF MASKBIT, TESTBIT

(* A word that replaces another but for the mask bit. *)
LEMMA NewAgrees ==
    ASSUME NEW word, NEW request, Agree(word, request),
           NEW new, NEW a \in 0 .. 31, NEW b \in 0 .. 31, NEW testbit \in BOOLEAN,
           new \subseteq 0 .. 11, MASKBIT \notin new, TESTBIT \in new <=> testbit,
           chip = "MPX3RX" => Thresholded(new, a, b)
    PROVE  Agree((word \cap {MASKBIT}) \cup new,
                 [[a |-> a, b |-> b, test |-> testbit, mask |-> FALSE]
                     EXCEPT !.mask = request.mask])
<1> DEFINE r == [[a |-> a, b |-> b, test |-> testbit, mask |-> FALSE]
                    EXCEPT !.mask = request.mask]
           all == (word \cap {MASKBIT}) \cup new
<1>1. request.mask \in BOOLEAN /\ (request.mask <=> MASKBIT \in word)
  BY DEF Agree, Asked
<1>2. r \in Asked /\ r.mask = request.mask /\ r.test = testbit /\ r.a = a /\ r.b = b
  BY <1>1 DEF Asked
<1>3. all \subseteq 0 .. 11 /\ (MASKBIT \in all <=> MASKBIT \in word)
  <2>1. MASKBIT \in 0 .. 11
    BY BitsApart
  <2>2. all \subseteq 0 .. 11
    BY <2>1
  <2>3. MASKBIT \in all <=> MASKBIT \in word
    OBVIOUS
  <2> QED
    BY <2>2, <2>3
<1>4. \A c : c # MASKBIT => (c \in all <=> c \in new)
  OBVIOUS
<1> HIDE DEF r, all
<1>5. TESTBIT \in all <=> testbit
  BY <1>4, BitsApart
<1>6. ASSUME chip = "MPX3RX" PROVE Thresholded(all, a, b)
  <2>1. \A i \in 0 .. 4 : i + 1 # MASKBIT /\ i + 6 # MASKBIT
    BY <1>6, BitsApart
  <2>2. \A i \in 0 .. 4 : (i + 1 \in all <=> i + 1 \in new) /\ (i + 6 \in all <=> i + 6 \in new)
    BY <2>1, <1>4, Zenon
  <2>3. Thresholded(new, a, b)
    BY <1>6
  <2> QED
    BY <2>2, <2>3, Zenon DEF Thresholded
<1>7. (r.mask <=> MASKBIT \in all) /\ (r.test <=> TESTBIT \in all)
  BY <1>1, <1>2, <1>3, <1>5, Zenon
<1>8. chip = "MPX3RX" => Thresholded(all, r.a, r.b)
  BY <1>2, <1>6
<1>9. Agree(all, r)
  BY <1>2, <1>3, <1>7, <1>8 DEF Agree
<1> QED
  BY <1>9 DEF r, all

LEMMA Mpx3Agrees ==
    ASSUME chip = "MPX3", NEW word, NEW request, Agree(word, request),
           NEW a \in 0 .. 31, NEW b \in 0 .. 31, NEW gain \in BOOLEAN, NEW testbit \in BOOLEAN
    PROVE  Agree((word \cap {MASKBIT}) \cup ({THA[i + 1] : i \in BitsOf(a)}
                     \cup {THB[i + 1] : i \in BitsOf(b)}
                     \cup Flag(GAINMODE, gain) \cup Flag(TESTBIT, testbit)),
                 [[a |-> a, b |-> b, test |-> testbit, mask |-> FALSE]
                     EXCEPT !.mask = request.mask])
<1> DEFINE new == {THA[i + 1] : i \in BitsOf(a)} \cup {THB[i + 1] : i \in BitsOf(b)}
                      \cup Flag(GAINMODE, gain) \cup Flag(TESTBIT, testbit)
<1>1. MASKBIT = 9 /\ TESTBIT = 3 /\ GAINMODE = 8
  BY BitsApart DEF GAINMODE
<1>2. BitsOf(a) \subseteq 0 .. 4 /\ BitsOf(b) \subseteq 0 .. 4
  BY DEF BitsOf
<1>3. \A i \in 0 .. 4 : THA[i + 1] \in {5, 6, 7} /\ THB[i + 1] \in {4, 6, 8, 10}
  BY DEF THA, THB
<1>4. Flag(GAINMODE, gain) \subseteq {8}
  BY <1>1 DEF Flag
<1>5. Flag(TESTBIT, testbit) = IF testbit THEN {3} ELSE {}
  BY <1>1 DEF Flag
<1>6. new \subseteq 0 .. 11 /\ 9 \notin new /\ (3 \in new <=> testbit)
  BY <1>2, <1>3, <1>4, <1>5
<1> HIDE DEF new
<1>7. Agree((word \cap {MASKBIT}) \cup new,
            [[a |-> a, b |-> b, test |-> testbit, mask |-> FALSE] EXCEPT !.mask = request.mask])
  BY <1>1, <1>6, NewAgrees, Zenon
<1> QED
  BY <1>7 DEF new

LEMMA RxAgrees ==
    ASSUME chip = "MPX3RX", NEW word, NEW request, Agree(word, request),
           NEW discl \in 0 .. 31, NEW disch \in 0 .. 31, NEW testbit \in BOOLEAN
    PROVE  Agree((word \cap {MASKBIT}) \cup ({i + 1 : i \in BitsOf(discl)}
                     \cup {i + 6 : i \in BitsOf(disch)} \cup Flag(TESTBIT, testbit)),
                 [[a |-> discl, b |-> disch, test |-> testbit, mask |-> FALSE]
                     EXCEPT !.mask = request.mask])
<1> DEFINE low == {i + 1 : i \in BitsOf(discl)}
           high == {i + 6 : i \in BitsOf(disch)}
           new == low \cup high \cup Flag(TESTBIT, testbit)
<1>1. MASKBIT = 0 /\ TESTBIT = 11
  BY BitsApart
<1>2. BitsOf(discl) \subseteq 0 .. 4 /\ BitsOf(disch) \subseteq 0 .. 4
  BY DEF BitsOf
<1>3. Flag(TESTBIT, testbit) = IF testbit THEN {11} ELSE {}
  BY <1>1 DEF Flag
<1>4. low \subseteq 1 .. 5 /\ high \subseteq 6 .. 10
  BY <1>2
<1>5. \A i \in 0 .. 4 : /\ i \in BitsOf(discl) <=> i + 1 \in low
                        /\ i \in BitsOf(disch) <=> i + 6 \in high
  <2> TAKE i \in 0 .. 4
  <2>1. \A k \in 0 .. 4 : (i + 1 = k + 1 => i = k) /\ (i + 6 = k + 6 => i = k)
    OBVIOUS
  <2> QED
    BY <1>2, <2>1
<1> HIDE DEF low, high
<1>6. new \subseteq 0 .. 11 /\ 0 \notin new /\ (11 \in new <=> testbit)
  BY <1>3, <1>4
<1>7. Thresholded(new, discl, disch)
  <2>1. \A i \in 0 .. 4 : /\ i \in BitsOf(discl) <=> i + 1 \in new
                          /\ i \in BitsOf(disch) <=> i + 6 \in new
    BY <1>3, <1>4, <1>5
  <2>2. BitsOf(discl) = {i \in 0 .. 4 : i + 1 \in new}
    BY <1>2, <2>1, Zenon
  <2>3. BitsOf(disch) = {i \in 0 .. 4 : i + 6 \in new}
    BY <1>2, <2>1, Zenon
  <2> QED
    BY <2>2, <2>3 DEF Thresholded
<1> HIDE DEF new
<1>8. Agree((word \cap {MASKBIT}) \cup new,
            [[a |-> discl, b |-> disch, test |-> testbit, mask |-> FALSE]
                EXCEPT !.mask = request.mask])
  BY <1>1, <1>6, <1>7, NewAgrees, Zenon
<1> QED
  BY <1>8 DEF new, low, high

LEMMA MaskAgrees ==
    ASSUME chip \in {"MPX3", "MPX3RX"}, NEW word, NEW request, Agree(word, request),
           NEW on \in BOOLEAN
    PROVE  Agree(IF on THEN word \cup {MASKBIT} ELSE word \ {MASKBIT},
                 [request EXCEPT !.mask = on])
<1> DEFINE new == IF on THEN word \cup {MASKBIT} ELSE word \ {MASKBIT}
<1>1. MASKBIT \in {0, 9} /\ TESTBIT # MASKBIT /\ (chip = "MPX3RX" => MASKBIT = 0)
  BY DEF MASKBIT, TESTBIT
<1>2. \A c : c \in new <=> IF c = MASKBIT THEN on ELSE c \in word
  OBVIOUS
<1>3. new \subseteq 0 .. 11
  BY <1>1, <1>2 DEF Agree
<1> HIDE DEF new
<1>4. [request EXCEPT !.mask = on] \in Asked
  BY DEF Agree, Asked
<1> DEFINE r == [request EXCEPT !.mask = on]
<1>5. r.mask = on /\ r.test = request.test /\ r.a = request.a /\ r.b = request.b
  BY DEF Agree, Asked
<1> HIDE DEF r
<1>6. (r.mask <=> MASKBIT \in new) /\ (r.test <=> TESTBIT \in new)
  <2>1. request.test <=> TESTBIT \in word
    BY DEF Agree
  <2> QED
    BY <1>1, <1>2, <1>5, <2>1, Zenon
<1>7. ASSUME chip = "MPX3RX" PROVE Thresholded(new, r.a, r.b)
  <2>1. \A i \in 0 .. 4 : i + 1 # MASKBIT /\ i + 6 # MASKBIT
    BY <1>1, <1>7
  <2>2. \A i \in 0 .. 4 : (i + 1 \in new <=> i + 1 \in word) /\ (i + 6 \in new <=> i + 6 \in word)
    BY <2>1, <1>2, Zenon
  <2>3. Thresholded(word, r.a, r.b)
    BY <1>5, <1>7 DEF Agree
  <2> QED
    BY <2>2, <2>3, Zenon DEF Thresholded
<1>8. r \in Asked
  BY <1>4 DEF r
<1>9. Agree(new, r)
  BY <1>3, <1>6, <1>7, <1>8 DEF Agree
<1> QED
  BY <1>9 DEF new, r

LEMMA ConfigureKeeps ==
    ASSUME PixelInv, UNCHANGED chip, NEW x, NEW y, NEW word, NEW request,
           Configure(x, y, word, request),
           \A p \in Pixels : Agree((pixelConfig[p] \cap {MASKBIT}) \cup word,
                                  [request EXCEPT !.mask = asked[p].mask])
    PROVE  PixelInv'
<1>1. ASSUME NEW p \in Pixels PROVE Agree(pixelConfig'[p], asked'[p])
  BY DEF Configure, PixelInv
<1>2. ASSUME NEW p \in Pixels PROVE Agree(pixelConfig[p], asked[p])'
  BY <1>1 DEF Agree, MASKBIT, TESTBIT
<1>3. (\A p \in Pixels : Agree(pixelConfig[p], asked[p]))'
  BY <1>2 DEF Pixels, Line
<1> QED
  BY <1>3 DEF PixelInv, Configure, Pixels, Line

LEMMA SetBitKeeps ==
    ASSUME PixelInv, UNCHANGED chip, NEW x, NEW y, NEW on \in BOOLEAN, setPixelBit(x, y, on)
    PROVE  PixelInv'
<1>1. ASSUME NEW p \in Pixels PROVE Agree(pixelConfig'[p], asked'[p])
  <2>1. CASE p \in validXandY(x, y)
    <3>1. /\ pixelConfig'[p] = IF on THEN pixelConfig[p] \cup {MASKBIT} ELSE pixelConfig[p] \ {MASKBIT}
          /\ asked'[p] = [asked[p] EXCEPT !.mask = on]
      BY <2>1 DEF setPixelBit
    <3>2. chip \in {"MPX3", "MPX3RX"} /\ Agree(pixelConfig[p], asked[p])
      BY DEF PixelInv
    <3>3. Agree(IF on THEN pixelConfig[p] \cup {MASKBIT} ELSE pixelConfig[p] \ {MASKBIT},
                [asked[p] EXCEPT !.mask = on])
      BY <3>2, MaskAgrees, Zenon
    <3> QED
      BY <3>1, <3>3
  <2>2. CASE p \notin validXandY(x, y)
    BY <2>2 DEF setPixelBit, PixelInv
  <2> QED
    BY <2>1, <2>2
<1>2. ASSUME NEW p \in Pixels PROVE Agree(pixelConfig[p], asked[p])'
  BY <1>1 DEF Agree, MASKBIT, TESTBIT
<1>3. (\A p \in Pixels : Agree(pixelConfig[p], asked[p]))'
  BY <1>2 DEF Pixels, Line
<1> QED
  BY <1>3 DEF PixelInv, setPixelBit, Pixels, Line

LEMMA ResetKeeps == ASSUME PixelInv, UNCHANGED chip, resetPixelConfig PROVE PixelInv'
<1>1. ASSUME NEW p \in Pixels PROVE Agree(pixelConfig'[p], asked'[p])
  BY NothingAsked DEF resetPixelConfig
<1>2. ASSUME NEW p \in Pixels PROVE Agree(pixelConfig[p], asked[p])'
  BY <1>1 DEF Agree, MASKBIT, TESTBIT
<1>3. (\A p \in Pixels : Agree(pixelConfig[p], asked[p]))'
  BY <1>2 DEF Pixels, Line
<1> QED
  BY <1>3 DEF PixelInv, resetPixelConfig, Pixels, Line

LEMMA PixelKeeps == ASSUME PixelInv, PixelNext PROVE PixelInv'
<1>1. ASSUME NEW x, NEW y, NEW a, NEW b, NEW gain \in BOOLEAN, NEW testbit \in BOOLEAN,
             configPixelMpx3(x, y, a, b, gain, testbit)
      PROVE  PixelInv'
  <2>1. chip = "MPX3" /\ a \in 0 .. 31 /\ b \in 0 .. 31
    BY <1>1 DEF configPixelMpx3
  <2>2. \A p \in Pixels :
            Agree((pixelConfig[p] \cap {MASKBIT}) \cup ({THA[i + 1] : i \in BitsOf(a)}
                      \cup {THB[i + 1] : i \in BitsOf(b)}
                      \cup Flag(GAINMODE, gain) \cup Flag(TESTBIT, testbit)),
                  [[a |-> a, b |-> b, test |-> testbit, mask |-> FALSE]
                      EXCEPT !.mask = asked[p].mask])
    BY <2>1, Mpx3Agrees, Zenon DEF PixelInv
  <2> QED
    BY <1>1, <2>2, ConfigureKeeps DEF configPixelMpx3, PixelNext
<1>2. ASSUME NEW x, NEW y, NEW a, NEW b, NEW testbit \in BOOLEAN,
             configPixelMpx3rx(x, y, a, b, testbit)
      PROVE  PixelInv'
  <2>1. chip = "MPX3RX" /\ a \in 0 .. 31 /\ b \in 0 .. 31
    BY <1>2 DEF configPixelMpx3rx
  <2>2. \A p \in Pixels :
            Agree((pixelConfig[p] \cap {MASKBIT}) \cup ({i + 1 : i \in BitsOf(a)}
                      \cup {i + 6 : i \in BitsOf(b)} \cup Flag(TESTBIT, testbit)),
                  [[a |-> a, b |-> b, test |-> testbit, mask |-> FALSE]
                      EXCEPT !.mask = asked[p].mask])
    BY <2>1, RxAgrees, Zenon DEF PixelInv
  <2> QED
    BY <1>2, <2>2, ConfigureKeeps DEF configPixelMpx3rx, PixelNext
<1> QED
  BY <1>1, <1>2, SetBitKeeps, ResetKeeps DEF PixelNext

LEMMA PixelBegins == ASSUME PixelInit PROVE PixelInv
BY NothingAsked DEF PixelInit, PixelInv

LEMMA SameTruth == \A p, q \in BOOLEAN : (p <=> q) => p = q
OBVIOUS

LEMMA PixelsAgree == ASSUME PixelInv PROVE PixelsAsAsked
<1> SUFFICES ASSUME NEW p \in Pixels
             PROVE  /\ asked[p].mask = (MASKBIT \in pixelConfig[p])
                    /\ asked[p].test = (TESTBIT \in pixelConfig[p])
                    /\ chip = "MPX3RX" =>
                           /\ asked[p].mask = Received(p, 0) /\ asked[p].test = Received(p, 11)
                           /\ BitsOf(asked[p].a) = {i \in 0 .. 4 : Received(p, i + 1)}
                           /\ BitsOf(asked[p].b) = {i \in 0 .. 4 : Received(p, i + 6)}
  BY Zenon DEF PixelsAsAsked
<1>1. Agree(pixelConfig[p], asked[p])
  BY DEF PixelInv
<1>2. /\ asked[p].mask \in BOOLEAN /\ asked[p].test \in BOOLEAN
      /\ asked[p].mask <=> MASKBIT \in pixelConfig[p]
      /\ asked[p].test <=> TESTBIT \in pixelConfig[p]
  BY <1>1 DEF Agree, Asked
<1>3. /\ asked[p].mask = (MASKBIT \in pixelConfig[p])
      /\ asked[p].test = (TESTBIT \in pixelConfig[p])
  BY <1>2, SameTruth
<1>4. ASSUME chip = "MPX3RX"
      PROVE  /\ asked[p].mask = Received(p, 0) /\ asked[p].test = Received(p, 11)
             /\ BitsOf(asked[p].a) = {i \in 0 .. 4 : Received(p, i + 1)}
             /\ BitsOf(asked[p].b) = {i \in 0 .. 4 : Received(p, i + 6)}
  <2>1. MASKBIT = 0 /\ TESTBIT = 11
    BY <1>4, BitsApart
  <2>2. Received(p, 0) <=> 0 \in pixelConfig[p]
    BY ReceivedIs
  <2>3. Received(p, 11) <=> 11 \in pixelConfig[p]
    BY ReceivedIs
  <2>4. \A i \in 0 .. 4 : /\ Received(p, i + 1) <=> i + 1 \in pixelConfig[p]
                          /\ Received(p, i + 6) <=> i + 6 \in pixelConfig[p]
    BY ReceivedIs
  <2>5. asked[p].mask = Received(p, 0) /\ asked[p].test = Received(p, 11)
    <3>1. Received(p, 0) \in BOOLEAN /\ Received(p, 11) \in BOOLEAN
      BY DEF Received
    <3>2. asked[p].mask <=> Received(p, 0)
      BY <1>2, <2>1, <2>2
    <3>3. asked[p].test <=> Received(p, 11)
      BY <1>2, <2>1, <2>3
    <3> QED
      BY <1>2, <3>1, <3>2, <3>3, SameTruth
  <2>6. Thresholded(pixelConfig[p], asked[p].a, asked[p].b)
    BY <1>1, <1>4 DEF Agree
  <2>7. /\ BitsOf(asked[p].a) = {i \in 0 .. 4 : Received(p, i + 1)}
        /\ BitsOf(asked[p].b) = {i \in 0 .. 4 : Received(p, i + 6)}
    <3>1. {i \in 0 .. 4 : Received(p, i + 1)} = {i \in 0 .. 4 : i + 1 \in pixelConfig[p]}
      BY <2>4, Zenon
    <3>2. {i \in 0 .. 4 : Received(p, i + 6)} = {i \in 0 .. 4 : i + 6 \in pixelConfig[p]}
      BY <2>4, Zenon
    <3> QED
      BY <2>6, <3>1, <3>2 DEF Thresholded
  <2> QED
    BY <2>5, <2>7, Zenon
<1> QED
  BY <1>3, <1>4

-----------------------------------------------------------------------------
LEMMA LayoutsInv == Spec => [](RegisterInv /\ PixelInv)
<1>1. Init => RegisterInv /\ PixelInv
  BY RegisterBegins, PixelBegins DEF Init
<1>2. RegisterInv /\ PixelInv /\ [Next]_<<lutVars, omrVars, pixelVars, part>>
          => (RegisterInv /\ PixelInv)'
  <2>1. ASSUME RegisterInv, PixelInv, UNCHANGED omrVars PROVE RegisterInv'
    BY <2>1 DEF RegisterInv, omrVars
  <2>2. ASSUME PixelInv, UNCHANGED pixelVars PROVE PixelInv'
    BY <2>2 DEF PixelInv, pixelVars, Agree, Pixels, Line, MASKBIT, TESTBIT
  <2> QED
    BY <2>1, <2>2, RegisterKeeps, PixelKeeps DEF Next
<1> QED
  BY <1>1, <1>2, PTL DEF Spec

(* OMR: every field of the register reads as it was last set, by itself or *)
(* as part of a half, whatever was set in between; the high part too, until *)
(* the low part overwrites it.                                             *)
THEOREM FieldsAreKept == Spec => []FieldsKept
<1>1. RegisterInv => FieldsKept
  BY FieldReads, HighReads, FieldsAre DEF FieldsKept
<1> QED
  BY <1>1, LayoutsInv, PTL

(* SpidrController: for a row of any size, mask and test bit of each pixel *)
(* are those last asked for it, and the planes of a row carry them and the *)
(* thresholds to an MPX3RX in the places it takes them from.               *)
THEOREM PixelsGetWhatWasAsked == Spec => []PixelsAsAsked
BY PixelsAgree, LayoutsInv, PTL

-----------------------------------------------------------------------------
(* The look-up tables. *)

(* The number of codes of a width, and half of it. *)
All(w) == 2^w
Half(w) == 2^(w - 1)
(* One table is the other's inverse as far as it is filled, and the codes  *)
(* follow each other.                                                      *)
LutInv ==
    /\ width \in {6, 12} /\ count \in 0 .. All(width) /\ code \in Codes
    /\ enc \in [Codes -> Codes] /\ lut = [c \in Codes |-> lut[c]]
    /\ \A i \in Codes : i < count =>
           /\ lut[enc[i]] = i
           /\ i > 0 => enc[i] = NextCode(enc[i - 1], width)
    /\ count > 0 => enc[0] = 0
    /\ code = IF count = 0 THEN 0 ELSE NextCode(enc[count - 1], width)

LEMMA Powers == 2^0 = 1 /\ 2^3 = 8 /\ 2^5 = 32 /\ 2^11 = 2048
OBVIOUS

LEMMA AllIs == All(6) = 64 /\ All(12) = 4096 /\ Half(6) = 32 /\ Half(12) = 2048
<1>1. 2^6 = 64 /\ 2^12 = 4096 /\ 2^5 = 32 /\ 2^11 = 2048 /\ 6 - 1 = 5 /\ 12 - 1 = 11
  OBVIOUS
<1> QED
  BY <1>1 DEF All, Half

LEMMA CodesAre ==
    /\ Codes = 0 .. All(width) - 1 /\ (Filled <=> count = All(width))
    /\ width \in {6, 12} => All(width) \in Nat /\ All(width) > 1
<1>1. Codes = 0 .. All(width) - 1 /\ (Filled <=> count = All(width))
  BY DEF Codes, Filled, All
<1>2. width \in {6, 12} => All(width) \in Nat /\ All(width) > 1
  BY AllIs
<1> QED
  BY <1>1, <1>2

(* The bits that are tapped, of codes of the two widths. *)
Ones(c, w) == {b \in Taps(w) : Bit(c, b) = 1}
Flip(c, w) == IF c % Half(w) = 0 THEN 1 ELSE 0
Fed(c, w) == (Cardinality(Ones(c, w)) + Flip(c, w)) % 2

LEMMA OnesFinite ==
    ASSUME NEW w \in {6, 12}, NEW c
    PROVE  IsFiniteSet(Ones(c, w)) /\ Cardinality(Ones(c, w)) \in Nat
<1>1. IsFiniteSet({0, 3, 5, 11})
  <2>1. 0 \in Int /\ 11 \in Int /\ {0, 3, 5, 11} \subseteq 0 .. 11
    OBVIOUS
  <2>2. IsFiniteSet(0 .. 11)
    BY <2>1, FS_Interval
  <2> QED
    BY <2>1, <2>2, FS_Subset
<1>2. Ones(c, w) \subseteq {0, 3, 5, 11}
  BY DEF Ones, Taps
<1> QED
  BY <1>1, <1>2, FS_Subset, FS_CardinalityType

LEMMA NextIs ==
    ASSUME NEW w \in {6, 12}, NEW c \in Int
    PROVE  /\ Fed(c, w) \in {0, 1}
           /\ NextCode(c, w) = (2 * c + Fed(c, w)) % All(w)
<1>1. Cardinality(Ones(c, w)) \in Nat /\ Flip(c, w) \in {0, 1}
  BY OnesFinite DEF Flip
<1>2. Fed(c, w) \in {0, 1}
  BY <1>1 DEF Fed
<1> QED
  BY <1>2 DEF NextCode, Fed, Flip, Ones, All, Half

(* Two codes that differ in the last bit differ in no other tapped one. *)
LEMMA OtherHalf6 ==
    ASSUME NEW d \in 0 .. 31, NEW c, c = d + 32
    PROVE  Ones(c, 6) = Ones(d, 6) \cup {5} /\ 5 \notin Ones(d, 6) /\ Flip(c, 6) = Flip(d, 6)
<1>1. Taps(6) = {0, 5}
  BY DEF Taps
<1>2. Bit(c, 0) = Bit(d, 0) /\ Bit(c, 5) = 1 /\ Bit(d, 5) = 0
  BY Powers DEF Bit
<1>3. Flip(c, 6) = Flip(d, 6)
  BY AllIs DEF Flip
<1> QED
  BY <1>1, <1>2, <1>3 DEF Ones

LEMMA OtherHalf12 ==
    ASSUME NEW d \in Nat, d < 2048, NEW c, c = d + 2048
    PROVE  Ones(c, 12) = Ones(d, 12) \cup {11} /\ 11 \notin Ones(d, 12) /\ Flip(c, 12) = Flip(d, 12)
<1>1. Taps(12) = {0, 3, 5, 11}
  BY DEF Taps
<1>2. /\ Bit(c, 0) = Bit(d, 0) /\ Bit(c, 3) = Bit(d, 3) /\ Bit(c, 5) = Bit(d, 5)
      /\ Bit(c, 11) = 1 /\ Bit(d, 11) = 0
  BY Powers DEF Bit
<1>3. Flip(c, 12) = Flip(d, 12)
  BY AllIs DEF Flip
<1> QED
  BY <1>1, <1>2, <1>3 DEF Ones

(* Hence what is fed to their next codes differs. *)
LEMMA FedDiffers ==
    ASSUME NEW w \in {6, 12}, NEW d \in 0 .. Half(w) - 1, NEW c, c = d + Half(w)
    PROVE  Fed(c, w) # Fed(d, w)
<1>1. \E b : Ones(c, w) = Ones(d, w) \cup {b} /\ b \notin Ones(d, w) /\ Flip(c, w) = Flip(d, w)
  <2>1. CASE w = 6
    <3>1. d \in 0 .. 31 /\ c = d + 32
      BY <2>1, AllIs
    <3> QED
      BY <2>1, <3>1, OtherHalf6
  <2>2. CASE w = 12
    <3>1. d \in Nat /\ d < 2048 /\ c = d + 2048
      BY <2>2, AllIs
    <3>2. Ones(c, 12) = Ones(d, 12) \cup {11} /\ 11 \notin Ones(d, 12) /\ Flip(c, 12) = Flip(d, 12)
      BY <3>1, OtherHalf12
    <3> QED
      BY <2>2, <3>2
  <2> QED
    BY <2>1, <2>2
<1>2. Cardinality(Ones(c, w)) = Cardinality(Ones(d, w)) + 1
  BY <1>1, OnesFinite, FS_AddElement
<1>3. Flip(d, w) \in {0, 1} /\ Cardinality(Ones(d, w)) \in Nat
  BY OnesFinite DEF Flip
<1> QED
  BY <1>1, <1>2, <1>3 DEF Fed

(* Codes with the same next one are the same but for the last bit. *)
LEMMA Doubled6 ==
    ASSUME NEW c \in 0 .. 63, NEW d \in 0 .. 63, NEW e \in {0, 1}, NEW f \in {0, 1},
           (2 * c + e) % 64 = (2 * d + f) % 64
    PROVE  e = f /\ (c = d \/ c = d + 32 \/ d = c + 32)
OBVIOUS
LEMMA Doubled12 ==
    ASSUME NEW c \in Nat, c < 4096, NEW d \in Nat, d < 4096, NEW e \in {0, 1}, NEW f \in {0, 1},
           (2 * c + e) % 4096 = (2 * d + f) % 4096
    PROVE  e = f /\ (c = d \/ c = d + 2048 \/ d = c + 2048)
<1>1. (2 * c + e) % 4096 = IF c < 2048 THEN 2 * c + e ELSE 2 * c + e - 4096
  <2>1. CASE c < 2048
    BY <2>1
  <2>2. CASE ~ (c < 2048)
    BY <2>2
  <2> QED
    BY <2>1, <2>2
<1>2. (2 * d + f) % 4096 = IF d < 2048 THEN 2 * d + f ELSE 2 * d + f - 4096
  <2>1. CASE d < 2048
    BY <2>1
  <2>2. CASE ~ (d < 2048)
    BY <2>2
  <2> QED
    BY <2>1, <2>2
<1> QED
  BY <1>1, <1>2

(* No code follows two. *)
LEMMA NextInjective ==
    ASSUME NEW w \in {6, 12}, NEW c \in 0 .. All(w) - 1, NEW d \in 0 .. All(w) - 1,
           NextCode(c, w) = NextCode(d, w)
    PROVE  c = d
<1>1. c \in Int /\ d \in Int
  BY AllIs
<1>2. PICK e \in {0, 1} : e = Fed(c, w)
  BY <1>1, NextIs
<1>3. PICK f \in {0, 1} : f = Fed(d, w)
  BY <1>1, NextIs
<1>4. (2 * c + e) % All(w) = (2 * d + f) % All(w)
  <2>1. NextCode(c, w) = (2 * c + e) % All(w)
    BY <1>1, <1>2, NextIs
  <2>2. NextCode(d, w) = (2 * d + f) % All(w)
    BY <1>1, <1>3, NextIs
  <2> QED
    BY <2>1, <2>2
<1>5. e = f /\ (c = d \/ c = d + Half(w) \/ d = c + Half(w))
  <2>1. CASE w = 6
    <3>1. c \in 0 .. 63 /\ d \in 0 .. 63 /\ (2 * c + e) % 64 = (2 * d + f) % 64
      BY <1>4, <2>1, AllIs
    <3> QED
      BY <2>1, <3>1, Doubled6, AllIs
  <2>2. CASE w = 12
    <3>1. c \in Nat /\ c < 4096 /\ d \in Nat /\ d < 4096 /\ (2 * c + e) % 4096 = (2 * d + f) % 4096
      BY <1>4, <2>2, AllIs
    <3>2. e = f /\ (c = d \/ c = d + 2048 \/ d = c + 2048)
      BY <3>1, Doubled12
    <3> QED
      BY <2>2, <3>2, AllIs
  <2> QED
    BY <2>1, <2>2
<1>6. ASSUME c = d + Half(w) PROVE FALSE
  <2>1. d \in 0 .. Half(w) - 1
    BY <1>1, <1>6, AllIs
  <2> QED
    BY <1>2, <1>3, <1>5, <1>6, <2>1, FedDiffers
<1>7. ASSUME d = c + Half(w) PROVE FALSE
  <2>1. c \in 0 .. Half(w) - 1
    BY <1>1, <1>7, AllIs
  <2> QED
    BY <1>2, <1>3, <1>5, <1>7, <2>1, FedDiffers
<1> QED
  BY <1>5, <1>6, <1>7

LEMMA NextType ==
    ASSUME NEW w \in {6, 12}, NEW c \in Int PROVE NextCode(c, w) \in 0 .. All(w) - 1
<1>1. PICK e \in {0, 1} : NextCode(c, w) = (2 * c + e) % All(w)
  BY NextIs
<1>2. CASE w = 6
  BY <1>1, <1>2, AllIs
<1>3. CASE w = 12
  BY <1>1, <1>3, AllIs
<1> QED
  BY <1>2, <1>3

(* A turn of the loop meets a code that was not met before. *)
LEMMA LutKeeps == ASSUME LutInv, WalkMeetsAll, LutStep PROVE LutInv'
<1>1. /\ count \in Codes /\ count' = count + 1 /\ width' = width
      /\ lut' = [lut EXCEPT ![code] = count] /\ enc' = [enc EXCEPT ![count] = code]
      /\ code' = NextCode(code, width)
  BY DEF LutStep
<1>2. /\ width \in {6, 12} /\ All(width) \in Nat /\ All(width) > 1 /\ Codes = 0 .. All(width) - 1
      /\ code \in Codes /\ enc \in [Codes -> Codes] /\ count \in Nat
  BY <1>1, CodesAre DEF LutInv
<1>3. ASSUME NEW i \in Codes, i < count PROVE enc[i] # code
  <2>1. CASE i = 0
    <3>1. enc[0] = 0 /\ count > 0 /\ count < All(width)
      BY <1>1, <1>2, <1>3, <2>1 DEF LutInv
    <3> QED
      BY <2>1, <3>1, <1>2, CodesAre DEF WalkMeetsAll
  <2>2. CASE i > 0
    <3>1. i - 1 \in Codes /\ count - 1 \in Codes /\ i - 1 < count /\ count - 1 < count
      BY <1>1, <1>2, <1>3, <2>2
    <3>2. enc[i] = NextCode(enc[i - 1], width)
      BY <1>3, <2>2 DEF LutInv
    <3>5. code = NextCode(enc[count - 1], width)
      BY <1>2, <1>3, <2>2 DEF LutInv
    <3>3. lut[enc[i - 1]] = i - 1 /\ lut[enc[count - 1]] = count - 1
      BY <3>1 DEF LutInv
    <3>4. enc[i - 1] # enc[count - 1]
      BY <1>2, <1>3, <3>3
    <3> QED
      BY <1>2, <3>1, <3>2, <3>4, <3>5, NextInjective
  <2> QED
    BY <1>2, <1>3, <2>1, <2>2
<1>4. code' \in Codes /\ Codes' = Codes
  <2>1. code \in Int /\ Codes' = Codes
    BY <1>1, <1>2 DEF Codes
  <2> QED
    BY <1>1, <1>2, <2>1, NextType
<1>5. enc' \in [Codes -> Codes] /\ lut' = [c \in Codes |-> lut'[c]]
  BY <1>1, <1>2 DEF LutInv
<1>6. \A i \in Codes : enc'[i] = IF i = count THEN code ELSE enc[i]
  BY <1>1, <1>2
<1>7. \A c \in Codes : lut'[c] = IF c = code THEN count ELSE lut[c]
  BY <1>1, <1>2 DEF LutInv
<1>8. ASSUME NEW i \in Codes, i < count + 1
      PROVE  lut'[enc'[i]] = i /\ (i > 0 => enc'[i] = NextCode(enc'[i - 1], width))
  <2>1. CASE i < count
    <3>1. lut[enc[i]] = i /\ (i > 0 => enc[i] = NextCode(enc[i - 1], width))
      BY <2>1 DEF LutInv
    <3>2. enc'[i] = enc[i] /\ enc[i] \in Codes /\ enc[i] # code
      BY <1>2, <1>3, <1>6, <2>1
    <3>3. i > 0 => i - 1 \in Codes /\ i - 1 # count
      BY <1>2, <2>1
    <3> QED
      BY <1>6, <1>7, <3>1, <3>2, <3>3
  <2>2. CASE i = count
    <3>1. i > 0 => i - 1 \in Codes /\ i - 1 # count /\ code = NextCode(enc[i - 1], width)
      BY <1>2, <2>2 DEF LutInv
    <3> QED
      BY <1>2, <1>6, <1>7, <2>2, <3>1
  <2> QED
    BY <1>2, <1>8, <2>1, <2>2
<1>9. enc'[0] = 0
  <2>1. 0 \in Codes
    BY <1>2
  <2> QED
    BY <1>2, <1>6, <2>1 DEF LutInv
<1>10. code' = NextCode(enc'[count], width) /\ count' # 0 /\ count' - 1 = count
  BY <1>1, <1>2, <1>6
<1>11. count' \in 0 .. All(width) /\ All(width') = All(width)
  BY <1>1, <1>2
<1>12. \A i \in Codes' : i < count' =>
           lut'[enc'[i]] = i /\ (i > 0 => enc'[i] = NextCode(enc'[i - 1], width'))
  BY <1>1, <1>4, <1>8
<1> QED
  BY <1>1, <1>2, <1>4, <1>5, <1>9, <1>10, <1>11, <1>12 DEF LutInv

(* Filled, they are inverse on all codes: as many are met as there are. *)
LEMMA AllMet ==
    ASSUME LutInv, Filled
    PROVE  \A n \in Codes : lut[enc[n]] = n /\ enc[lut[n]] = n
<1>1. /\ All(width) \in Nat /\ Codes = 0 .. All(width) - 1 /\ enc \in [Codes -> Codes]
      /\ \A i \in Codes : lut[enc[i]] = i
  <2>1. width \in {6, 12} /\ All(width) \in Nat /\ Codes = 0 .. All(width) - 1 /\ count = All(width)
    BY CodesAre DEF LutInv
  <2>2. \A i \in Codes : i < count
    BY <2>1
  <2> QED
    BY <2>1, <2>2 DEF LutInv
<1>2. IsFiniteSet(Codes)
  BY <1>1, FS_Interval
<1>3. ASSUME NEW n \in Codes PROVE \E i \in Codes : enc[i] = n
  <2>1. SUFFICES ASSUME \A i \in Codes : enc[i] # n PROVE FALSE
    OBVIOUS
  <2>2. enc \in [Codes -> Codes \ {n}]
    BY <1>1, <2>1
  <2>3. IsFiniteSet(Codes \ {n}) /\ Cardinality(Codes \ {n}) < Cardinality(Codes)
    <3>1. IsFiniteSet(Codes \ {n}) /\ Cardinality(Codes \ {n}) = Cardinality(Codes) - 1
      BY <1>2, FS_RemoveElement
    <3>2. Cardinality(Codes) \in Nat
      BY <1>2, FS_CardinalityType
    <3> QED
      BY <3>1, <3>2
  <2>4. \E x, y \in Codes : x # y /\ enc[x] = enc[y]
    BY <1>2, <2>2, <2>3, FS_PigeonHole
  <2> QED
    BY <1>1, <2>4
<1> QED
  BY <1>1, <1>3

LEMMA InverseFixes ==
    ASSUME width \in {6, 12}, \A n \in Codes : lut[enc[n]] = n /\ enc[lut[n]] = n
    PROVE  FixUndoesBug
<1> SUFFICES ASSUME NEW n \in Codes
             PROVE  lutBugFix(LutBug([i \in 1 .. 60 \div width |-> n]))
                        = [i \in 1 .. 60 \div width |-> n]
  BY DEF FixUndoesBug
<1>1. CASE width = 12
  <2> DEFINE word == [i \in 1 .. 5 |-> n]
             bug == [word EXCEPT ![1] = enc[n], ![5] = lut[n]]
  <2>1. 60 \div width = 5
    BY <1>1
  <2>2. LutBug(word) = bug
    BY <1>1 DEF LutBug
  <2>3. lutBugFix(bug) = [bug EXCEPT ![1] = lut[enc[n]], ![5] = enc[lut[n]]]
    BY <1>1 DEF lutBugFix
  <2>4. lutBugFix(bug) = word
    BY <2>3
  <2> QED
    BY <2>1, <2>2, <2>4
<1>2. CASE width = 6
  <2> DEFINE word == [i \in 1 .. 10 |-> n]
             bug == [i \in 1 .. 10 |-> IF i <= 4 THEN enc[n] ELSE IF i > 6 THEN lut[n] ELSE n]
  <2>1. 60 \div width = 10
    BY <1>2
  <2>2. LutBug(word) = bug
    BY <1>2 DEF LutBug
  <2>3. lutBugFix(bug) = word
    BY <1>2 DEF lutBugFix
  <2> QED
    BY <2>1, <2>2, <2>3
<1> QED
  BY <1>1, <1>2

(* Provided that the walk meets all codes, which the run shows of both     *)
(* widths step by step, the tables that lutInit fills are inverse and the  *)
(* fix undoes the bug: no code follows two (the last bit is tapped, and    *)
(* the all-zero code is put in with one flip), so that the walk meets none *)
(* twice before it has met all.                                            *)
THEOREM TablesAreInverse == Spec /\ []WalkMeetsAll => []FixUndoesBug
<1>1. Init => LutInv
  <2> SUFFICES ASSUME Init PROVE LutInv
    OBVIOUS
  <2>1. /\ width \in {6, 12} /\ count = 0 /\ code = 0
        /\ lut = [c \in Codes |-> 0] /\ enc = [i \in Codes |-> 0]
    BY WidthsAssumption DEF Init, LutInit
  <2>2. All(width) \in Nat /\ 0 \in Codes /\ Codes = 0 .. All(width) - 1
    BY <2>1, CodesAre
  <2> QED
    BY <2>1, <2>2 DEF LutInv
<1>2. LutInv /\ WalkMeetsAll /\ [Next]_<<lutVars, omrVars, pixelVars, part>> => LutInv'
  <2>1. ASSUME LutInv, UNCHANGED lutVars PROVE LutInv'
    BY <2>1 DEF LutInv, lutVars, Codes
  <2> QED
    BY <2>1, LutKeeps DEF Next
<1>3. LutInv => FixUndoesBug
  BY AllMet, InverseFixes DEF LutInv, FixUndoesBug
<1> QED
  BY <1>1, <1>2, <1>3, PTL DEF Spec
=============================================================================
