--------------------------- MODULE DetectorReadout ---------------------------
(***************************************************************************)
(* The FrameSetManager as the detector and the FrameAssemblers drive it.   *)
(* All chips are read out at the same time, so every chip starts a counter *)
(* before any chip ends it, and one thread takes their packets.  In 24-bit *)
(* mode a readout is two passes, the low and then the high counter; the    *)
(* counter depth does not change.  The network may lose all of a chip's    *)
(* pass, or the packets at its beginning or at its end; an assembler that  *)
(* did not see the end gives the frame back when the chip's next pass      *)
(* begins.  putChipFrame only sees which spots are occupied: here it shows *)
(* what a published set then holds.                                        *)
(***************************************************************************)
EXTENDS FrameSetManagerProps

CONSTANT MAX_LOSSES   \* bound: how often the network loses part of a pass
ASSUME LossesAssumption == MAX_LOSSES \in Nat

VARIABLES depth24,  \* the depth the chips are configured for
          readout,  \* the readout in progress, modulo UINT_RANGE
          counter,  \* 0 the low (or only) counter, 1 the high one
          phase,    \* "begin", then "end" of this pass
          through,  \* the chips that are through with the phase
          turn,     \* the chip whose onEvent is still going on, or NULL
          filling,  \* chip -> [readout, counter] its held frame is of
          mode,     \* chip -> its assembler's omr.getMode(), NULL before a header
          losses,   \* how often part of a pass got lost
          guessed   \* history: a frame's mode was not read from a header

readoutVars == <<depth24, readout, counter, phase, through, turn, filling, mode, losses,
                 guessed>>

(* There are chips, and room for the settings and the pixels they send. *)
ASSUME ReadoutAssumption ==
    /\ Chips # {}
    /\ {[countL |-> 2, mode |-> 0]} \cup [countL : {3}, mode : {0, 1, 4}] \subseteq OMRs
    /\ 0 .. 2 * UINT_RANGE - 1 \subseteq Payloads
    /\ NULL \notin {0, 1, 4}

Passes == [readout : Uint, counter : {0, 1}]
This == [readout |-> readout, counter |-> counter]
HeaderMode(p) == IF p.counter = 1 THEN 4 ELSE 0
Pixels(p) == 2 * p.readout + p.counter

(* The assembler never assigns the frame's id: it is what memory held.     *)
Omr(c) == [countL |-> IF depth24 THEN 3 ELSE 2, mode |-> mode[c]]
GiveBack(c, p) == \E id \in FrameIds : putChipFrame(c, id, Omr(c), Pixels(p))

(* The names of heap objects do not matter: take them in order. *)
FirstFit == \A c \in Chips, o \in Objects :
    heap[o] = Free /\ holding[c] = NULL /\ holding'[c] # NULL
        => heap[holding'[c]] # Free \/ holding'[c] <= o

ReadoutInit ==
    /\ Init
    /\ depth24 \in BOOLEAN
    /\ readout = 0 /\ counter = 0 /\ phase = "begin"
    /\ through = {} /\ turn = NULL
    /\ filling = [c \in Chips |-> NULL] /\ mode = [c \in Chips |-> NULL]
    /\ losses = 0 /\ guessed = FALSE

Begun(c) == filling[c] = This

(* The chip's info header arrives, and no frame is in its way. *)
BeginPass(c) ==
    /\ phase = "begin" /\ c \notin through /\ turn \in {NULL, c}
    /\ newChipFrame(c)
    /\ FirstFit
    /\ filling' = [filling EXCEPT ![c] = This]
    /\ mode' = [mode EXCEPT ![c] = HeaderMode(This)]
    /\ through' = through \cup {c}
    /\ turn' = NULL
    /\ UNCHANGED <<depth24, readout, counter, phase, losses, guessed>>

(* The header or a later packet of a new pass finds the frame of a pass    *)
(* whose end was lost; when it is given back the same call goes on.        *)
FinishCut(c) ==
    /\ c \notin through /\ turn = NULL /\ holding[c] # NULL /\ ~ Begun(c)
    /\ GiveBack(c, filling[c])
    /\ turn' = c
    /\ UNCHANGED <<depth24, readout, counter, phase, through, filling, mode, losses, guessed>>

(* The pass, or its beginning, gets lost. *)
MissPass(c) ==
    /\ phase = "begin" /\ c \notin through /\ turn = NULL /\ pc = "idle"
    /\ through' = through \cup {c}
    /\ losses < MAX_LOSSES /\ losses' = losses + 1
    /\ UNCHANGED <<vars, depth24, readout, counter, phase, turn, filling, mode, guessed>>

(* The mode that onEvent's recovery takes the frame to have: at 24 bit     *)
(* "finished high, next frame" or "finished low, expect high".             *)
GuessedMode(m) == IF ~ depth24 THEN m ELSE IF m = 1 THEN 0 ELSE 1

(* Only later packets of the pass arrive.  Without any header before them  *)
(* onEvent ends in an assertion (FrameAssembler).                          *)
BeginLate(c) ==
    /\ phase = "end" /\ c \notin through /\ turn \in {NULL, c}
    /\ ~ Begun(c) /\ mode[c] # NULL
    /\ newChipFrame(c)
    /\ FirstFit
    /\ filling' = [filling EXCEPT ![c] = This]
    /\ mode' = [mode EXCEPT ![c] = GuessedMode(@)]
    /\ guessed' = (guessed \/ depth24)
    /\ turn' = NULL
    /\ UNCHANGED <<depth24, readout, counter, phase, through, losses>>

(* The chip's last packet arrives. *)
EndPass(c) ==
    /\ phase = "end" /\ c \notin through /\ turn = NULL /\ Begun(c)
    /\ GiveBack(c, This)
    /\ through' = through \cup {c}
    /\ UNCHANGED <<depth24, readout, counter, phase, turn, filling, mode, losses, guessed>>

(* It does not, or no packet of the pass did. *)
NoEnd(c) ==
    /\ phase = "end" /\ c \notin through /\ turn = NULL /\ pc = "idle"
    /\ through' = through \cup {c}
    /\ \/ ~ Begun(c) /\ UNCHANGED losses
       \/ Begun(c) /\ losses < MAX_LOSSES /\ losses' = losses + 1
    /\ UNCHANGED <<vars, depth24, readout, counter, phase, turn, filling, mode, guessed>>

NextPhase ==
    /\ through = Chips /\ turn = NULL /\ pc = "idle"
    /\ through' = {}
    /\ \/ phase = "begin" /\ phase' = "end" /\ UNCHANGED <<readout, counter>>
       \/ /\ phase = "end" /\ phase' = "begin"
          /\ counter' = IF depth24 THEN 1 - counter ELSE 0
          /\ readout' = IF counter' = 0 THEN Inc(readout) ELSE readout
    /\ UNCHANGED <<vars, depth24, turn, filling, mode, losses, guessed>>

Internal ==
    /\ startNewFrame \/ storeChipFrame \/ finishFrame \/ Reader
    /\ UNCHANGED readoutVars

ReadoutNext ==
    /\ aborted = "no"
    /\ \/ \E c \in Chips : BeginPass(c) \/ FinishCut(c) \/ MissPass(c) \/ BeginLate(c)
                             \/ EndPass(c) \/ NoEnd(c)
       \/ NextPhase
       \/ Internal

ReadoutSpec == ReadoutInit /\ [][ReadoutNext]_<<vars, readoutVars>>

-----------------------------------------------------------------------------
BeingReturned(s) == cons = "advance" /\ s = Slot(tail)
Counters == IF depth24 THEN {0, 1} ELSE {0}

(* The set in slot s holds one readout of every chip: all counters of the  *)
(* depth, each in its place, none of an earlier or a later readout.        *)
HoldsOneReadout(s) ==
    \E n \in Uint : \A j \in Counters, c \in Chips :
        /\ frame[<<s, j, c>>] # NULL
        /\ heap[frame[<<s, j, c>>]] = Pixels([readout |-> n, counter |-> j])

(* Published sets are whole, whatever gets lost: a chip's frame of another  *)
(* readout, or a blank one, is never handed out in a set.                  *)
AllSetsWhole == \A s \in Published : ~ BeingReturned(s) => HoldsOneReadout(s)

(* Without loss they are, although nothing but occupied spots tells one    *)
(* readout from another and recycled frames occupy them as well.           *)
WholeSets == losses = 0 => AllSetsWhole

(* When part of a single pass gets lost, blank frames enter published sets *)
(* from then on, but frames of different readouts do not; and each counter *)
(* is at its own place, unless the beginning of a pass was lost at 24 bit: *)
(* the recovery guesses mode 0 or 1 there, never the 4 that FrameSet looks *)
(* for, so a high counter is filed as a low one.                           *)
NeverMixed ==
    losses <= 1 =>
        \A s \in Published : ~ BeingReturned(s) =>
            \E n \in Uint : \A j \in Counters, c \in Chips :
                /\ frame[<<s, j, c>>] # NULL
                /\ heap[frame[<<s, j, c>>]] \in {Clear} \cup
                      {Pixels([readout |-> n, counter |-> k]) :
                           k \in IF guessed THEN Counters ELSE {j}}

(* Without loss each readout that is over has been counted exactly once,   *)
(* as received or as lost.                                                 *)
CountsAddUp ==
    losses = 0 /\ phase = "begin" /\ counter = 0
        => readout = (framesReceived + framesLost) % UINT_RANGE
=============================================================================
