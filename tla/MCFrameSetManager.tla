------------------------- MODULE MCFrameSetManager -------------------------
(* Small instances of the FrameSetManager. *)
EXTENDS FrameSetManagerProps, TLC

Only12Bit == {[countL |-> 2, mode |-> 0]}

(* Objects only differ by name, and so do chips. *)
InterchangeableChips == Permutations(Objects) \cup Permutations(Chips)
=============================================================================
