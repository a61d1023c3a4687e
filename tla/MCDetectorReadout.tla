------------------------- MODULE MCDetectorReadout -------------------------
(* Two chips, a ring of two slots, readouts counted modulo the range of    *)
(* head_ and tail_.  Ten objects: one for each of the eight spots and one  *)
(* for each assembler.                                                     *)
EXTENDS DetectorReadout, TLC

Depths == {[countL |-> 2, mode |-> 0]} \cup [countL : {3}, mode : {0, 1, 4}]
PassesRead == 0 .. 2 * UINT_RANGE - 1
(* Chips are interchangeable. *)
ChipSymmetry == Permutations(Chips)
=============================================================================
