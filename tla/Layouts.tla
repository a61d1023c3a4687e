-------------------------------- MODULE Layouts --------------------------------
(***************************************************************************)
(* The three parts of the program that only rearrange bits, side by side:  *)
(* a behaviour is one of one of them.                                      *)
(***************************************************************************)
EXTENDS PixelLut, OMR, PixelConfig

VARIABLE part

Init ==
    /\ LutInit /\ OmrInit /\ PixelInit /\ part \in {"lut", "omr", "pixels"}
    /\ part # "lut" => width = 6
    /\ part # "pixels" => chip = "MPX3RX"
Next ==
    \/ part = "lut" /\ LutStep /\ UNCHANGED <<omrVars, pixelVars, part>>
    \/ part = "omr" /\ OmrNext /\ UNCHANGED <<lutVars, pixelVars, part>>
    \/ part = "pixels" /\ PixelNext /\ UNCHANGED <<lutVars, omrVars, part>>
Spec == Init /\ [][Next]_<<lutVars, omrVars, pixelVars, part>>
=============================================================================
