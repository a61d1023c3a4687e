---------------------------- MODULE MCAcquisition ----------------------------
(* Values of the constants of Acquisition for TLC: the module's four chips, *)
(* of which the third is missing.                                           *)
EXTENDS Acquisition

MCBitsOf(r) == IF r = "SHUTTERTRIG_CTRL" THEN {CntrSel} ELSE 0 .. 3
MCMasks == {{0, 1, 2, 3}, {1, 3}, {0, 3}}
MCPresent == {0, 1, 3}
=============================================================================
