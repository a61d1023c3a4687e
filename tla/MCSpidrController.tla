-------------------------- MODULE MCSpidrController --------------------------
(* Values of the constants of SpidrController for TLC. *)
EXTENDS SpidrController

MCRegisters == {"SHUTTERTRIG_CTRL", "SHUTTER1_PERIOD"}
MCBitsOf(r) == IF r = "SHUTTERTRIG_CTRL" THEN {CntrSel, 8} ELSE {0}
MCPixelValues == {{4}}
=============================================================================
