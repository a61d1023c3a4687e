-------------------------- MODULE MCFrameAssembler --------------------------
(* assembler.cfg: 3 header words and 6 rows of 7 pixels in 4 words, cut    *)
(* into three packets.  The later ones begin at the third and the fourth   *)
(* word of a row: as in the 6-bit mode, a packet may begin with the word   *)
(* that ends a row.  assembler_midframe.cfg: rows of 9 pixels in 5 words,  *)
(* where no packet begins with the last word of a row, as in 12-bit mode.  *)
(* A frame comes from newChipFrame cleared or with a pixelsLost of 0 or    *)
(* 100 and old pixels; only differences to that count are looked at.       *)
EXTENDS FrameAssembler
=============================================================================
