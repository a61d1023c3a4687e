---------------------------- MODULE FrameStream ----------------------------
(***************************************************************************)
(* What an assembler promises whoever takes its frames: one frame of each  *)
(* readout, in their order, complete or not.  A frame that was begun is    *)
(* handed over, with all the pixels it got, and to its count of lost ones  *)
(* just those it lacks were added, and a row more if it was cut short.     *)
(***************************************************************************)
EXTENDS Integers

CONSTANTS READOUTS,      \* readouts are numbered modulo this
          Pixels, Row    \* of a frame, and of one row of it

VARIABLES
    begun,    \* is a frame being assembled?
    hand,     \* the pixels it has so far, 0 without one
    given     \* the frame handed over last: its readout, pixels, losses added

vars == <<begun, hand, given>>

Init ==
    /\ begun = FALSE /\ hand = 0
    /\ given = [readout |-> READOUTS - 1, pixels |-> 0, lost |-> 0]

Begin == ~ begun /\ begun' = TRUE /\ UNCHANGED <<hand, given>>
Gain == begun /\ hand' \in hand .. Pixels /\ UNCHANGED <<begun, given>>
(* The next frame may be begun at once. *)
Give(extra) ==
    /\ begun
    /\ \E pixels \in hand .. Pixels :
          given' = [readout |-> (given.readout + 1) % READOUTS, pixels |-> pixels,
                    lost |-> Pixels - pixels + extra]
    /\ hand' = 0 /\ begun' \in BOOLEAN

Next == Begin \/ Gain \/ Give(0) \/ Give(Row)
Spec == Init /\ [][Next]_vars
=============================================================================
