------------------------------- MODULE MCLayouts -------------------------------
(* Values of the constants of Layouts for TLC: register words of no, of    *)
(* single and of all bits.                                                 *)
EXTENDS Layouts
MCWords == {{}, {0}, {31}, {0, 5, 15, 22, 31}, 0 .. 31}
=============================================================================
