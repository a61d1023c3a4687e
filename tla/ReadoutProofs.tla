---------------------------- MODULE ReadoutProofs ----------------------------
(***************************************************************************)
(* Theorems about the detector's readouts and what the FrameSetManager     *)
(* publishes of them, for every number of chips and slots, every width of  *)
(* the counts and whatever part of a pass gets lost: the assertions hold;  *)
(* as long as nothing got lost, every published set is one readout of all  *)
(* chips, and every readout is counted once; and until a second loss, or a *)
(* counter mode guessed at 24 bit, no published set holds frames of two    *)
(* readouts.                                                               *)
(***************************************************************************)
EXTENDS DetectorReadout, FrameSetManagerProofs

USE SizeAssumption DEF Uint

-----------------------------------------------------------------------------
(* The readouts are a use of the FrameSetManager.                          *)

(* A frame in an assembler's hands has been begun in some pass. *)
ReadoutTyped ==
    /\ depth24 \in BOOLEAN /\ readout \in Uint /\ counter \in {0, 1}
    /\ phase \in {"begin", "end"} /\ through \subseteq Chips /\ losses \in Nat
    /\ counter = 1 => depth24
    /\ filling \in [Chips -> Passes \cup {NULL}]
    /\ \A c \in Chips : holding[c] # NULL =>
          filling[c] \in Passes /\ (filling[c].counter = 1 => depth24) /\ mode[c] # NULL
    /\ mode \in [Chips -> {0, 1, 4} \cup {NULL}] /\ guessed \in BOOLEAN
    /\ \A c \in Chips : ~ depth24 => mode[c] \in {0, NULL}

Setting == IF depth24 THEN 3 ELSE 2

LEMMA PassIs ==
    ASSUME NEW p \in Passes
    PROVE  /\ p.readout \in Uint /\ p.counter \in {0, 1}
           /\ Pixels(p) \in 0 .. 2 * UINT_RANGE - 1
BY DEF Passes, Pixels

LEMMA ThisPass == ASSUME ReadoutTyped PROVE This \in Passes
BY DEF ReadoutTyped, This, Passes

(* The setting that the header of a pass carries. *)
HeaderOmr(p) == [countL |-> Setting, mode |-> HeaderMode(p)]

(* Until a mode is guessed a frame has the one of its pass's header.  No   *)
(* mode is guessed before something got lost: every chip begins the pass.  *)
ModeInv ==
    /\ ~ guessed => \A c \in Chips : holding[c] # NULL => mode[c] = HeaderMode(filling[c])
    /\ losses = 0 => /\ ~ guessed
                     /\ \A c \in Chips : phase = "end" \/ c \in through => Begun(c)

(* A chip's frame is given back with a setting of the depth and the pixels *)
(* of the pass.                                                            *)
LEMMA GiveBackIs ==
    ASSUME ReadoutTyped, NEW c \in Chips, NEW p \in Passes, GiveBack(c, p)
    PROVE  \E id \in FrameIds, omr \in OMRs, x \in Payloads :
               putChipFrame(c, id, omr, x) /\ omr = Omr(c) /\ x = Pixels(p) /\ omr.countL = Setting
<1>1. Omr(c) \in OMRs /\ Omr(c).countL = Setting
  <2>1. mode[c] \in {0, 1, 4} /\ (~ depth24 => mode[c] = 0)
    BY DEF ReadoutTyped, GiveBack, putChipFrame
  <2>2. Omr(c) = [countL |-> Setting, mode |-> mode[c]]
    BY DEF Omr, Setting
  <2>3. CASE depth24
    <3>1. Omr(c) \in [countL : {3}, mode : {0, 1, 4}]
      BY <2>1, <2>2, <2>3 DEF Setting
    <3> QED
      BY <2>2, <3>1, ReadoutAssumption
  <2>4. CASE ~ depth24
    BY <2>1, <2>2, <2>4, ReadoutAssumption DEF Setting
  <2> QED
    BY <2>3, <2>4
<1>2. Pixels(p) \in Payloads
  BY PassIs, ReadoutAssumption
<1> QED
  BY <1>1, <1>2 DEF GiveBack

(* Unless a mode was guessed, it is the header's. *)
LEMMA SettingRead ==
    ASSUME ModeInv, ~ guessed, NEW c \in Chips, holding[c] # NULL
    PROVE  Omr(c) = HeaderOmr(filling[c])
BY DEF ModeInv, Omr, HeaderOmr, Setting

(* What the steps of a readout call. *)
LEMMA FinishCutIs ==
    ASSUME ReadoutTyped, NEW c \in Chips, FinishCut(c)
    PROVE  \E id \in FrameIds, omr \in OMRs, x \in Payloads :
               putChipFrame(c, id, omr, x) /\ x = Pixels(filling[c]) /\ omr.countL = Setting
               /\ (ModeInv /\ ~ guessed => omr = HeaderOmr(filling[c]))
<1>1. filling[c] \in Passes /\ holding[c] # NULL /\ GiveBack(c, filling[c])
  BY DEF FinishCut, ReadoutTyped
<1> QED
  BY <1>1, GiveBackIs, SettingRead

LEMMA EndPassIs ==
    ASSUME ReadoutTyped, NEW c \in Chips, EndPass(c)
    PROVE  \E id \in FrameIds, omr \in OMRs, x \in Payloads :
               putChipFrame(c, id, omr, x) /\ x = Pixels(This) /\ omr.countL = Setting
               /\ (ModeInv /\ ~ guessed => omr = HeaderOmr(This))
<1>1. This \in Passes /\ GiveBack(c, This) /\ filling[c] = This
  BY ThisPass DEF EndPass, Begun
<1>2. holding[c] # NULL
  BY <1>1 DEF GiveBack, putChipFrame
<1> QED
  BY <1>1, <1>2, GiveBackIs, SettingRead

LEMMA ReadoutCalls == ASSUME ReadoutTyped, ReadoutNext PROVE Next \/ UNCHANGED vars
<1> USE DEF ReadoutNext
<1>1. ASSUME NEW c \in Chips, BeginPass(c) \/ BeginLate(c) PROVE Next
  BY <1>1 DEF BeginPass, BeginLate, Next, Producer
<1>2. ASSUME NEW c \in Chips, FinishCut(c) PROVE Next
  BY <1>2, FinishCutIs DEF Next, Producer
<1>3. ASSUME NEW c \in Chips, EndPass(c) PROVE Next
  BY <1>3, EndPassIs DEF Next, Producer
<1>4. ASSUME NEW c \in Chips, MissPass(c) \/ NoEnd(c) PROVE UNCHANGED vars
  BY <1>4 DEF MissPass, NoEnd
<1>5. CASE NextPhase
  BY <1>5 DEF NextPhase
<1>6. CASE Internal
  BY <1>6 DEF Internal, Next, Producer
<1> QED
  BY <1>1, <1>2, <1>3, <1>4, <1>5, <1>6

LEMMA NewHolds ==
    ASSUME Typed, NEW c \in Chips, newChipFrame(c)
    PROVE  \A d \in Chips : d # c => holding'[d] = holding[d]
BY DEF newChipFrame, takeChipFrame, allocateChipFrame, counterAssertFails, Typed, TypeOK

LEMMA StepReadoutTyped ==
    ASSUME Typed, ReadoutTyped, [ReadoutNext]_<<vars, readoutVars>>
    PROVE  ReadoutTyped'
<1> USE DEF ReadoutTyped
<1>1. ASSUME NEW c \in Chips, BeginPass(c) \/ BeginLate(c) PROVE ReadoutTyped'
  <2>1. /\ UNCHANGED <<depth24, readout, counter, phase, losses>>
        /\ through' \subseteq Chips /\ filling' = [filling EXCEPT ![c] = This]
        /\ newChipFrame(c)
    BY <1>1 DEF BeginPass, BeginLate
  <2>2. This \in Passes /\ This.counter = counter
    BY ThisPass DEF This
  <2>a. /\ mode' \in [Chips -> {0, 1, 4} \cup {NULL}] /\ guessed' \in BOOLEAN
        /\ mode'[c] \in {0, 1, 4} /\ (~ depth24 => mode'[c] = 0)
        /\ \A d \in Chips : d # c => mode'[d] = mode[d]
    <3>1. CASE BeginPass(c)
      <4>1. HeaderMode(This) \in {0, 1, 4} /\ (~ depth24 => HeaderMode(This) = 0)
        BY <2>2 DEF HeaderMode
      <4> QED
        BY <3>1, <4>1 DEF BeginPass
    <3>2. CASE BeginLate(c)
      <4>1. mode[c] \in {0, 1, 4} /\ (~ depth24 => mode[c] = 0)
        BY <3>2 DEF BeginLate
      <4>2. GuessedMode(mode[c]) \in {0, 1, 4} /\ (~ depth24 => GuessedMode(mode[c]) = 0)
        BY <4>1 DEF GuessedMode
      <4> QED
        BY <3>2, <4>2 DEF BeginLate
    <3> QED
      BY <1>1, <3>1, <3>2
  <2>3. filling' \in [Chips -> Passes \cup {NULL}]
    BY <2>1, <2>2
  <2>4. \A d \in Chips : holding'[d] # NULL =>
            filling'[d] \in Passes /\ (filling'[d].counter = 1 => depth24)
    BY <2>1, <2>2, NewHolds
  <2>5. \A d \in Chips : holding'[d] # NULL => mode'[d] # NULL
    BY <2>1, <2>a, NewHolds, ReadoutAssumption
  <2> QED
    BY <2>1, <2>a, <2>3, <2>4, <2>5
<1>2. ASSUME NEW c \in Chips, FinishCut(c) \/ EndPass(c) PROVE ReadoutTyped'
  <2>1. UNCHANGED <<depth24, readout, counter, phase, losses, filling, mode, guessed, holding>>
    BY <1>2 DEF FinishCut, EndPass, GiveBack, putChipFrame
  <2>2. through' \subseteq Chips
    BY <1>2 DEF FinishCut, EndPass
  <2> QED
    BY <2>1, <2>2
<1>3. ASSUME NEW c \in Chips, MissPass(c) \/ NoEnd(c) PROVE ReadoutTyped'
  BY <1>3 DEF MissPass, NoEnd, vars, frameVars
<1>4. CASE NextPhase
  <2>1. UNCHANGED <<depth24, filling, mode, guessed, holding, losses>> /\ through' = {}
        /\ phase' \in {"begin", "end"}
    BY <1>4 DEF NextPhase, vars, frameVars
  <2>2. counter' \in {0, 1} /\ (counter' = 1 => depth24) /\ readout' \in Uint
    BY <1>4, IncType DEF NextPhase
  <2> QED
    BY <2>1, <2>2
<1>5. CASE Internal
  <2>1. UNCHANGED readoutVars
    BY <1>5 DEF Internal
  <2>2. \A c \in Chips : holding'[c] # NULL => holding[c] # NULL
    BY <1>5 DEF Internal, startNewFrame, storeChipFrame, finishFrame, Reader, Wait, waitFindsNothing,
       waitBlocks, waitTimesOut, getFrameSet, releaseFrameSet, advanceTail, frameVars, Typed, TypeOK
  <2> QED
    BY <2>1, <2>2 DEF readoutVars
<1>6. CASE UNCHANGED <<vars, readoutVars>>
  BY <1>6 DEF vars, frameVars, readoutVars
<1> QED
  BY <1>1, <1>2, <1>3, <1>4, <1>5, <1>6 DEF ReadoutNext

LEMMA InitReadoutTyped == ASSUME ReadoutInit PROVE ReadoutTyped
<1>1. /\ mode \in [Chips -> {0, 1, 4} \cup {NULL}] /\ guessed \in BOOLEAN
      /\ \A c \in Chips : mode[c] \in {0, NULL} /\ holding[c] = NULL
  BY DEF ReadoutInit, Init
<1> QED
  BY <1>1 DEF ReadoutInit, ReadoutTyped

LEMMA StepMode ==
    ASSUME Typed, ReadoutTyped, ModeInv, [ReadoutNext]_<<vars, readoutVars>>
    PROVE  ModeInv'
<1> USE DEF ModeInv
<1>1. ASSUME NEW c \in Chips, BeginPass(c) PROVE ModeInv'
  <2>1. /\ UNCHANGED <<losses, guessed, readout, counter>> /\ phase = "begin" /\ phase' = phase
        /\ through' = through \cup {c} /\ newChipFrame(c)
        /\ filling' = [filling EXCEPT ![c] = This] /\ mode' = [mode EXCEPT ![c] = HeaderMode(This)]
    BY <1>1 DEF BeginPass
  <2>2. \A d \in Chips : d # c => holding'[d] = holding[d]
    BY <2>1, NewHolds
  <2>3. /\ filling'[c] = This /\ mode'[c] = HeaderMode(This) /\ This' = This
        /\ \A d \in Chips : d # c => filling'[d] = filling[d] /\ mode'[d] = mode[d]
    BY <2>1 DEF ReadoutTyped, This
  <2>4. ~ guessed' => \A d \in Chips : holding'[d] # NULL => mode'[d] = HeaderMode(filling'[d])
    BY <2>1, <2>2, <2>3
  <2>5. losses' = 0 => \A d \in Chips : d \in through' => filling'[d] = This'
    BY <2>1, <2>3 DEF Begun
  <2> QED
    BY <2>1, <2>4, <2>5 DEF Begun, HeaderMode
<1>2. ASSUME NEW c \in Chips, BeginLate(c) PROVE ModeInv'
  <2>1. /\ losses' = losses /\ phase = "end" /\ ~ Begun(c) /\ newChipFrame(c)
        /\ guessed' = (guessed \/ depth24) /\ mode[c] # NULL
        /\ filling' = [filling EXCEPT ![c] = This] /\ mode' = [mode EXCEPT ![c] = GuessedMode(@)]
    BY <1>2 DEF BeginLate
  <2>2. losses # 0
    BY <2>1
  <2>3. ASSUME ~ guessed', NEW d \in Chips, holding'[d] # NULL
        PROVE  mode'[d] = HeaderMode(filling'[d])
    <3>1. ~ guessed /\ ~ depth24
      BY <2>1, <2>3 DEF ReadoutTyped
    <3>2. CASE d = c
      <4>1. filling'[c] = This /\ mode'[c] = mode[c]
        BY <2>1, <3>1 DEF ReadoutTyped, GuessedMode
      <4>2. mode[c] = 0 /\ HeaderMode(This) = 0
        BY <2>1, <3>1 DEF ReadoutTyped, HeaderMode, This
      <4> QED
        BY <3>2, <4>1, <4>2
    <3>3. CASE d # c
      <4>1. filling'[d] = filling[d] /\ mode'[d] = mode[d] /\ holding'[d] = holding[d]
        BY <2>1, <3>3, NewHolds DEF ReadoutTyped
      <4> QED
        BY <2>3, <3>1, <4>1
    <3> QED
      BY <3>2, <3>3
  <2> QED
    BY <2>1, <2>2, <2>3 DEF HeaderMode
<1>3. ASSUME NEW c \in Chips, FinishCut(c) \/ EndPass(c) PROVE ModeInv'
  <2>1. UNCHANGED <<readout, counter, phase, losses, filling, mode, guessed, holding>>
    BY <1>3 DEF FinishCut, EndPass, GiveBack, putChipFrame
  <2>2. phase = "begin" => through' = through
    BY <1>3 DEF FinishCut, EndPass
  <2> QED
    BY <2>1, <2>2 DEF ReadoutTyped, Begun, This, HeaderMode
<1>4. ASSUME NEW c \in Chips, MissPass(c) \/ NoEnd(c) PROVE ModeInv'
  <2>1. /\ UNCHANGED <<readout, counter, phase, filling, mode, guessed, holding>>
        /\ losses' = 0 => phase = "end" /\ losses = 0
    BY <1>4 DEF MissPass, NoEnd, vars, frameVars, ReadoutTyped
  <2> QED
    BY <2>1 DEF Begun, This, HeaderMode
<1>5. CASE NextPhase
  <2>1. /\ UNCHANGED <<losses, filling, mode, guessed, holding>> /\ through = Chips /\ through' = {}
        /\ \/ phase = "begin" /\ UNCHANGED <<readout, counter>>
           \/ phase' = "begin"
    BY <1>5 DEF NextPhase, vars, frameVars
  <2> QED
    BY <2>1 DEF Begun, This, HeaderMode
<1>6. CASE Internal
  <2>1. UNCHANGED readoutVars
    BY <1>6 DEF Internal
  <2>2. \A c \in Chips : holding'[c] # NULL => holding[c] # NULL
    BY <1>6 DEF Internal, startNewFrame, storeChipFrame, finishFrame, Reader, Wait, waitFindsNothing,
       waitBlocks, waitTimesOut, getFrameSet, releaseFrameSet, advanceTail, frameVars, Typed, TypeOK
  <2> QED
    BY <2>1, <2>2 DEF readoutVars, Begun, This, HeaderMode
<1>7. CASE UNCHANGED <<vars, readoutVars>>
  BY <1>7 DEF vars, frameVars, readoutVars, Begun, This, HeaderMode
<1> QED
  BY <1>1, <1>2, <1>3, <1>4, <1>5, <1>6, <1>7 DEF ReadoutNext

Base == Ring /\ ReadoutTyped /\ ModeInv

LEMMA StepBase == ASSUME Base, [ReadoutNext]_<<vars, readoutVars>> PROVE Base'
<1>1. [Next]_vars
  BY ReadoutCalls DEF Base
<1> QED
  BY <1>1, StepReadoutTyped, StepMode, StepTyped, StepRing, StepOwner DEF Base, Ring

LEMMA InitBase == ASSUME ReadoutInit PROVE Base
<1>1. ModeInv
  BY DEF ReadoutInit, Init, ModeInv
<1> QED
  BY <1>1, InitReadoutTyped, InitTyped, InitRing, InitOwner DEF ReadoutInit, Base, Ring

(* Only published slots are given back, so never the draft's.              *)
LEMMA ClearsPublished ==
    ASSUME Ring, Reader, clearTail
    PROVE  head # tail /\ Slot(tail) # Slot(head)
<1>1. head # tail
  <2>1. ASSUME NEW p \in Returnable, releaseFrameSet(p) PROVE head # tail
    <3>1. tailState = 3 /\ cons # "advance" => head # tail
      BY DEF Ring, RingInv, ReaderHoldsPublished
    <3>2. cons' = "advance" /\ cons = "idle"
      BY <2>1 DEF clearTail, releaseFrameSet
    <3> QED
      BY <2>1, <3>1, <3>2 DEF releaseFrameSet, releaseLent, releaseOldest, releaseSpurious, isEmpty
  <2>2. cons' = "advance"
    BY DEF clearTail
  <2>3. cons # "advance" => \E p \in Returnable : releaseFrameSet(p)
    BY <2>2 DEF Reader, Wait, waitFindsNothing, waitBlocks, waitTimesOut, getFrameSet, advanceTail
  <2> QED
    BY <2>1, <2>3 DEF Ring, RingInv
<1> QED
  BY <1>1, SlotsDiffer DEF Ring, RingInv, RingBounded, Typed, TypeOK

-----------------------------------------------------------------------------
(* The assertions.  A readout's depth is that of all frames put in it, so  *)
(* an expected high counter has a draft with two counters to go to: the    *)
(* first frame of a draft sets its number of counters, except while        *)
(* putChipFrame moves on to another slot.                                  *)

DepthInv ==
    /\ aborted # "counterH"
    /\ expectCounterH => depth24
    /\ expectCounterH /\ pc = "idle" => counters[Slot(head)] = 2
    /\ ~ depth24 => \A s \in Slots : counters[s] = 1
    /\ cf # NULL => cf.omr.countL = Setting

LEMMA NewDepth ==
    ASSUME DepthInv, NEW c \in Chips, newChipFrame(c), depth24' = depth24
    PROVE  /\ DepthInv' /\ aborted' = aborted
           /\ takeChipFrame(c) \/ allocateChipFrame(c)
BY DEF newChipFrame, takeChipFrame, allocateChipFrame, counterAssertFails, DepthInv, Setting,
       headVars

LEMMA PutDepth ==
    ASSUME DepthInv, NEW c \in Chips, NEW id \in FrameIds, NEW omr \in OMRs, NEW x \in Payloads,
           putChipFrame(c, id, omr, x), omr.countL = Setting, depth24' = depth24
    PROVE  DepthInv' /\ aborted' = aborted
BY DEF putChipFrame, DepthInv, Setting

LEMMA EndDraftDepth ==
    ASSUME Typed, DepthInv, dropDraft \/ publishDraft, depth24' = depth24
    PROVE  ~ depth24' => \A s \in Slots : counters'[s] = 1
BY DEF dropDraft, publishDraft, DepthInv, Typed, TypeOK

LEMMA InternalDepth ==
    ASSUME Base, DepthInv, Internal
    PROVE  DepthInv' /\ (~ Reader => aborted' = aborted)
<1>0. depth24' = depth24 /\ Slot(head) \in Slots
  BY SlotType DEF Internal, readoutVars, Base, Ring, Typed, TypeOK
<1>1. CASE startNewFrame
  BY <1>0, <1>1, EndDraftDepth DEF startNewFrame, DepthInv, Setting, Base, Ring
<1>2. CASE finishFrame
  BY <1>0, <1>2, EndDraftDepth DEF finishFrame, DepthInv, Setting, Base, Ring
<1>3. CASE storeChipFrame
  <2>1. /\ counters' = [counters EXCEPT ![Slot(head)] = CountersAfter]
        /\ head' = head /\ aborted' = aborted /\ cf' = NULL
        /\ expectCounterH' = (expectCounterH \/ LowCounterOf24)
    BY <1>3 DEF storeChipFrame
  <2>2. cf.omr.countL = Setting
    BY <1>3 DEF storeChipFrame, DepthInv, Base, Ring, Typed, CallOK
  <2>3. CountersAfter = IF depth24 THEN 2 ELSE counters[Slot(head)]
    BY <2>2 DEF CountersAfter, Setting
  <2>4. expectCounterH' => depth24
    <3>1. LowCounterOf24 => depth24
      BY <2>2 DEF LowCounterOf24, Setting
    <3>2. expectCounterH => depth24
      BY DEF DepthInv
    <3> QED
      BY <2>1, <3>1, <3>2
  <2>5. counters' \in [Slots -> {1, 2}] /\ counters'[Slot(head)] = CountersAfter
        /\ \A s \in Slots : s # Slot(head) => counters'[s] = counters[s]
    BY <1>0, <2>1, <2>3 DEF Base, Ring, Typed, TypeOK
  <2> QED
    BY <1>0, <2>1, <2>3, <2>4, <2>5 DEF DepthInv
<1>4. CASE Reader
  <2>1. UNCHANGED <<head, expectCounterH, pc, cf>>
    BY <1>4 DEF Reader, Wait, waitFindsNothing, waitBlocks, waitTimesOut, getFrameSet,
                releaseFrameSet, advanceTail, headVars
  <2>2. aborted' # "counterH"
    BY <1>4 DEF Reader, Wait, waitFindsNothing, waitBlocks, waitTimesOut, getFrameSet,
                releaseFrameSet, releaseLent, releaseOldest, releaseSpurious, clearTail, advanceTail, DepthInv
  <2>3. UNCHANGED counters \/ counters' = [counters EXCEPT ![Slot(tail)] = 1]
    BY <1>4 DEF Reader, Wait, waitFindsNothing, waitBlocks, waitTimesOut, getFrameSet,
                releaseFrameSet, releaseLent, releaseOldest, releaseSpurious, clearTail, advanceTail,
                frameVars
  <2>4. clearTail => Slot(tail) # Slot(head)
    BY <1>4, ClearsPublished DEF Base, Ring
  <2>5. counters'[Slot(head)] = counters[Slot(head)]
    BY <1>0, <1>4, <2>4, ReaderUntouched DEF Untouched, Base, Ring
  <2> QED
    <3>1. ~ depth24 => \A s \in Slots : counters'[s] = 1
      <4>1. Slot(tail) \in Slots /\ counters \in [Slots -> {1, 2}]
        BY SlotType DEF Base, Ring, Typed, TypeOK
      <4> QED
        BY <2>3, <4>1 DEF DepthInv
    <3>2. cf' # NULL => cf'.omr.countL = Setting'
      BY <1>0, <2>1 DEF DepthInv, Setting
    <3>3. Slot(head)' = Slot(head)
      BY <2>1
    <3>4. expectCounterH' => depth24'
      BY <1>0, <2>1, Zenon DEF DepthInv
    <3>5. expectCounterH' /\ pc' = "idle" => counters'[Slot(head)'] = 2
      BY <2>1, <2>5, <3>3, Zenon DEF DepthInv
    <3>6. ~ depth24' => \A s \in Slots : counters'[s] = 1
      BY <1>0, <3>1, Zenon
    <3> QED
      BY <1>4, <2>2, <3>2, <3>4, <3>5, <3>6 DEF DepthInv
<1> QED
  BY <1>1, <1>2, <1>3, <1>4 DEF Internal, startNewFrame, storeChipFrame, finishFrame

LEMMA StepDepth ==
    ASSUME Base, DepthInv, [ReadoutNext]_<<vars, readoutVars>>
    PROVE  DepthInv' /\ (~ Reader => aborted' = aborted)
<1>1. ASSUME NEW c \in Chips, BeginPass(c) \/ BeginLate(c)
      PROVE  DepthInv' /\ aborted' = aborted
  BY <1>1, NewDepth DEF BeginPass, BeginLate
<1>2. ASSUME NEW c \in Chips, FinishCut(c) PROVE DepthInv' /\ aborted' = aborted
  <2>1. depth24' = depth24
    BY <1>2 DEF FinishCut
  <2> QED
    BY <1>2, <2>1, FinishCutIs, PutDepth DEF Base
<1>3. ASSUME NEW c \in Chips, EndPass(c) PROVE DepthInv' /\ aborted' = aborted
  <2>1. depth24' = depth24
    BY <1>3 DEF EndPass
  <2> QED
    BY <1>3, <2>1, EndPassIs, PutDepth DEF Base
<1>4. CASE UNCHANGED <<vars, depth24>>
  BY <1>4 DEF vars, headVars, frameVars, DepthInv, Setting
<1>5. CASE Internal
  BY <1>5, InternalDepth
<1> QED
  BY <1>1, <1>2, <1>3, <1>4, <1>5
     DEF ReadoutNext, MissPass, NoEnd, NextPhase, readoutVars

LEMMA InitDepth == ASSUME ReadoutInit PROVE DepthInv
BY DEF ReadoutInit, Init, DepthInv

LEMMA DepthInvariant == ReadoutSpec => [](Base /\ DepthInv)
<1>1. ReadoutInit => Base /\ DepthInv
  BY InitBase, InitDepth
<1>2. Base /\ DepthInv /\ [ReadoutNext]_<<vars, readoutVars>> => (Base /\ DepthInv)'
  BY StepBase, StepDepth
<1> QED
  BY <1>1, <1>2, PTL DEF ReadoutSpec

(* What was lent is noted as lent. *)
LentInv == aborted = "no" /\ (got # NULL => tailState = 3)

LEMMA ReaderLent ==
    ASSUME Ring, LentInv, ~ StaleReleases, Reader
    PROVE  LentInv'
<1> USE DEF LentInv, headVars, frameVars, tailVars
<1>1. CASE Wait \/ getFrameSet \/ advanceTail
  BY <1>1 DEF Wait, waitFindsNothing, waitBlocks, waitTimesOut, getFrameSet, advanceTail,
              Ring, RingInv
<1>2. ASSUME NEW p \in Returnable, releaseFrameSet(p) PROVE LentInv'
  <2>1. p = NULL \/ (p = got /\ got # NULL /\ got = Slot(tail))
    BY DEF Returnable, Ring, RingInv, ReaderHoldsPublished
  <2>2. Slot(tail) # NULL
    BY SlotType, ObjectAssumption DEF Ring, Typed, TypeOK, Slots
  <2> QED
    BY <1>2, <2>1, <2>2 DEF releaseFrameSet, releaseLent, releaseOldest, releaseSpurious,
       clearTail, isEmpty, Ring, RingInv, ReaderHoldsPublished
<1> QED
  BY <1>1, <1>2 DEF Reader

LEMMA OthersLent ==
    ASSUME [ReadoutNext]_<<vars, readoutVars>>, ~ Reader
    PROVE  UNCHANGED <<got, tailState>>
BY DEF ReadoutNext, BeginPass, BeginLate, newChipFrame, FinishCut, EndPass, GiveBack, putChipFrame,
       MissPass, NoEnd, NextPhase, Internal, startNewFrame, storeChipFrame, finishFrame, vars,
       tailVars

(* assert (! counterH || counters == 2) in takeChipFrame and               *)
(* assert (tailState == 3) in releaseFrameSet never fail, whatever parts   *)
(* of the chips' passes get lost: the frames of a readout all have one     *)
(* depth, which an expected high counter needs its draft to have.          *)
THEOREM ReadoutAssertionsHold ==
    ASSUME StaleReleases = FALSE
    PROVE  ReadoutSpec => []AssertionsHold
<1>1. ReadoutInit => LentInv
  BY DEF ReadoutInit, Init, LentInv
<1>2. Base /\ DepthInv /\ LentInv /\ [ReadoutNext]_<<vars, readoutVars>> => LentInv'
  <2> SUFFICES ASSUME Base, DepthInv, LentInv, [ReadoutNext]_<<vars, readoutVars>>
               PROVE  LentInv'
    OBVIOUS
  <2>1. CASE Reader
    BY <2>1, ReaderLent DEF Base
  <2>2. CASE ~ Reader
    BY <2>2, StepDepth, OthersLent DEF LentInv
  <2> QED
    BY <2>1, <2>2
<1>3. LentInv => AssertionsHold
  BY DEF LentInv, AssertionsHold
<1> QED
  BY <1>1, <1>2, <1>3, DepthInvariant, PTL DEF ReadoutSpec

-----------------------------------------------------------------------------
(* The published sets.                                                     *)

(* A slot that is given back is no longer published. *)
LEMMA PublishedAfterReturn ==
    ASSUME Ring, advanceTail, NEW s \in Published'
    PROVE  s \in Published /\ s # Slot(tail)
<1> DEFINE m == Minus(head, tail)
<1>1. /\ head \in Uint /\ tail \in Uint /\ tail' = Inc(tail) /\ tail' \in Uint /\ head' = head
      /\ head # tail /\ m \in Nat /\ m <= FSM_SIZE - 1
  BY IncType, MinusType DEF advanceTail, headVars, Ring, RingInv, RingBounded, Typed, TypeOK
<1>2. Minus(head, tail') = m - 1
  BY <1>1, MinusIncTail
<1> HIDE DEF m
<1>3. s \in Slots /\ (s + FSM_SIZE - Slot(tail')) % FSM_SIZE < Minus(head, tail')
  BY <1>1 DEF Published
<1>4. Minus(head, tail') <= FSM_SIZE - 1
  BY <1>1, <1>2
<1>5. PICK k \in 0 .. m - 2 : s = Slot(tail' + k)
  <2>1. \E k \in 0 .. Minus(head, tail') - 1 : s = Slot(tail' + k)
    BY <1>1, <1>3, <1>4, PublishedFromTail
  <2> QED
    BY <1>1, <1>2, <2>1
<1>6. k \in Nat /\ k + 1 \in 0 .. m - 1 /\ k + 1 \in 1 .. FSM_SIZE - 1
      /\ tail + 1 + k = tail + (k + 1)
  BY <1>1, <1>5
<1>7. s = Slot(tail + (k + 1))
  BY <1>1, <1>5, <1>6, SlotAfterInc
<1>8. s # Slot(tail)
  <2>1. tail \in Nat
    BY <1>1
  <2>2. Slot(tail + (k + 1)) # Slot(tail)
    BY <1>6, <2>1, SlotsApart
  <2> QED
    BY <1>7, <2>2
<1>9. s \in Published
  <2>1. m <= FSM_SIZE - 1 /\ \E i \in 0 .. m - 1 : s = Slot(tail + i)
    BY <1>1, <1>6, <1>7
  <2> QED
    BY <1>1, <1>3, <2>1, PublishedFromTail DEF Published, m
<1> QED
  BY <1>8, <1>9

(* The draft's slot is not published. *)
LEMMA DraftUnpublished == ASSUME Ring PROVE Slot(head) \notin Published
<1> SUFFICES ASSUME Slot(head) \in Published PROVE FALSE
  OBVIOUS
<1> DEFINE m == Minus(head, tail)
<1>1. head \in Uint /\ tail \in Uint /\ m \in Nat /\ m <= FSM_SIZE - 1
  BY MinusType DEF Ring, RingInv, RingBounded, Typed, TypeOK
<1>2. Slot(head) \in Slots /\ Slot(head) = Slot(tail + m)
  BY <1>1, SlotType, HeadSlot
<1>3. PICK k \in 0 .. m - 1 : Slot(head) = Slot(tail + k)
  BY <1>1, <1>2, PublishedFromTail DEF Published
<1> HIDE DEF m
<1>4. tail + k \in Nat /\ m - k \in 1 .. FSM_SIZE - 1 /\ (tail + k) + (m - k) = tail + m
  BY <1>1, <1>3
<1> QED
  BY <1>2, <1>3, <1>4, SlotsApart

LEMMA HoldsKept ==
    ASSUME NEW s \in Slots, Untouched(s), depth24' = depth24, HoldsOneReadout(s)
    PROVE  HoldsOneReadout(s)'
<1>1. PICK n \in Uint : \A j \in Counters, c \in Chips :
        /\ frame[<<s, j, c>>] # NULL
        /\ heap[frame[<<s, j, c>>]] = Pixels([readout |-> n, counter |-> j])
  BY DEF HoldsOneReadout
<1>2. Counters' = Counters /\ Counters \subseteq {0, 1}
  BY DEF Counters
<1>3. ASSUME NEW j \in Counters', NEW c \in Chips
      PROVE  /\ frame'[<<s, j, c>>] # NULL
             /\ heap'[frame'[<<s, j, c>>]] = Pixels([readout |-> n, counter |-> j])
  <2>1. /\ frame'[<<s, j, c>>] = frame[<<s, j, c>>]
        /\ frame[<<s, j, c>>] # NULL =>
               heap'[frame[<<s, j, c>>]] = heap[frame[<<s, j, c>>]]
    BY <1>2 DEF Untouched
  <2>2. /\ frame[<<s, j, c>>] # NULL
        /\ heap[frame[<<s, j, c>>]] = Pixels([readout |-> n, counter |-> j])
    BY <1>1, <1>2
  <2> QED
    BY <2>1, <2>2
<1> QED
  BY <1>3 DEF HoldsOneReadout, Pixels

(* What is published was so before and stays as it is, unless it is the    *)
(* draft that is being published.                                          *)
WasPublished(s) == s \in Published /\ ~ BeingReturned(s)

LEMMA ProducerKeeps ==
    ASSUME Ring, Producer, UNCHANGED <<head, tail>>, NEW s \in Published', ~ BeingReturned(s)'
    PROVE  WasPublished(s) /\ Untouched(s)
<1>1. s \in Slots /\ s \in Published /\ s # Slot(head)
  BY DraftUnpublished DEF Published
<1>2. ~ BeingReturned(s)
  BY DEF Producer, newChipFrame, putChipFrame, startNewFrame, storeChipFrame, finishFrame,
         dropDraft, publishDraft, Notified, BeingReturned
<1> QED
  BY <1>1, <1>2, ProducerUntouched DEF Ring, WasPublished

LEMMA PublishKeeps ==
    ASSUME Ring, publishDraft, UNCHANGED <<tail, frame>>, NEW s \in Published', ~ BeingReturned(s)'
    PROVE  (WasPublished(s) \/ s = Slot(head)) /\ Untouched(s)
<1>1. s \in Published \/ s = Slot(head)
  BY PublishedGrows
<1>2. Untouched(s) /\ ~ BeingReturned(s)
  BY DEF publishDraft, Untouched, Notified, BeingReturned
<1> QED
  BY <1>1, <1>2 DEF WasPublished

LEMMA ReaderKeeps ==
    ASSUME Ring, Reader, NEW s \in Published', ~ BeingReturned(s)'
    PROVE  WasPublished(s) /\ Untouched(s)
<1>1. s \in Slots
  BY DEF Published
<1>2. CASE advanceTail
  <2>1. s \in Published /\ s # Slot(tail)
    BY <1>2, PublishedAfterReturn
  <2>2. Untouched(s)
    BY <1>2 DEF advanceTail, frameVars, Untouched
  <2> QED
    BY <2>1, <2>2 DEF WasPublished, BeingReturned
<1>3. CASE ~ advanceTail
  <2>1. UNCHANGED <<head, tail>> /\ (cons = "advance" => cons' = "advance")
        /\ (clearTail => cons' = "advance")
    BY <1>3 DEF Reader, Wait, waitFindsNothing, waitBlocks, waitTimesOut, getFrameSet,
                releaseFrameSet, clearTail, headVars, tailVars
  <2>2. s \in Published /\ ~ BeingReturned(s) /\ (s # Slot(tail) \/ ~ clearTail)
    BY <2>1 DEF Published, BeingReturned
  <2> QED
    BY <1>1, <2>2, ReaderUntouched DEF WasPublished, Ring
<1> QED
  BY <1>2, <1>3

(* So whole sets stay whole. *)
LEMMA SetsKept ==
    ASSUME AllSetsWhole, depth24' = depth24,
           \A s \in Slots : s \in Published' /\ ~ BeingReturned(s)' =>
               WasPublished(s) /\ Untouched(s)
    PROVE  AllSetsWhole'
<1> SUFFICES ASSUME NEW s \in Published', ~ BeingReturned(s)' PROVE HoldsOneReadout(s)'
  BY DEF AllSetsWhole
<1>1. s \in Slots /\ WasPublished(s) /\ Untouched(s)
  BY DEF Published
<1>2. HoldsOneReadout(s)
  BY <1>1 DEF AllSetsWhole, WasPublished
<1> QED
  BY <1>1, <1>2, HoldsKept

LEMMA PublishKeepsSets ==
    ASSUME Ring, AllSetsWhole, publishDraft, UNCHANGED <<tail, frame, depth24>>,
           HoldsOneReadout(Slot(head))
    PROVE  AllSetsWhole'
<1> SUFFICES ASSUME NEW s \in Published', ~ BeingReturned(s)' PROVE HoldsOneReadout(s)'
  BY DEF AllSetsWhole
<1>1. s \in Slots /\ (WasPublished(s) \/ s = Slot(head)) /\ Untouched(s)
  BY PublishKeeps DEF Published
<1>2. HoldsOneReadout(s)
  BY <1>1 DEF AllSetsWhole, WasPublished
<1> QED
  BY <1>1, <1>2, HoldsKept

-----------------------------------------------------------------------------
(* The counts.                                                             *)

LEMMA OneMore ==
    ASSUME NEW a \in Uint, NEW b \in Uint, NEW r \in Uint, a + b \in {r, r + UINT_RANGE}
    PROVE  Inc(a) + b \in {Inc(r), Inc(r) + UINT_RANGE}
BY DEF Inc

LEMMA SumModulo ==
    ASSUME NEW x \in Nat, NEW r \in Uint, x \in {r, r + UINT_RANGE}
    PROVE  x % UINT_RANGE = r
<1>1. UINT_RANGE \in Nat \ {0} /\ r \in 0 .. UINT_RANGE - 1
  OBVIOUS
<1>2. (UINT_RANGE * 0 + r) % UINT_RANGE = r /\ (UINT_RANGE * 1 + r) % UINT_RANGE = r
  BY <1>1, Remainder
<1>3. UINT_RANGE * 0 + r = r /\ UINT_RANGE * 1 + r = r + UINT_RANGE
  BY <1>1
<1> QED
  BY <1>2, <1>3

-----------------------------------------------------------------------------
(* The draft while nothing gets lost: the chips are in step with the       *)
(* detector.  A spot a chip has taken its frame from stays empty until the *)
(* frame comes back, so the draft is not complete before the last chip     *)
(* gives back the last counter's frame, whatever the recycled slot held.   *)

LastPass == counter = IF depth24 THEN 1 ELSE 0
Ended == phase = "end" /\ through = Chips /\ pc = "idle" /\ LastPass

(* The draft holds chip c's frame of counter j of this readout. *)
Has(j, c) ==
    /\ frame[<<Slot(head), j, c>>] # NULL
    /\ heap[frame[<<Slot(head), j, c>>]] = Pixels([readout |-> readout, counter |-> j])
Vacant(c) == frame[<<Slot(head), counter, c>>] = NULL
Filling(c) == holding[c] # NULL /\ filling[c] = This /\ Vacant(c)
Returned(c) ==
    /\ pc = "store" /\ cf.chip = c
    /\ holding[c] # NULL /\ heap[holding[c]] = Pixels(This) /\ Vacant(c)
Done(c) == holding[c] = NULL /\ Has(counter, c)

BeginInv ==
    phase = "begin" =>
        /\ pc = "idle" /\ headState = counter /\ (expectCounterH <=> counter = 1)
        /\ \A c \in Chips : IF c \in through THEN Filling(c) ELSE holding[c] = NULL
EndInv ==
    phase = "end" /\ ~ Ended =>
        \A c \in Chips : IF c \in through THEN Returned(c) \/ Done(c) ELSE Filling(c)
LowInv == counter = 1 /\ ~ Ended => \A c \in Chips : Has(0, c)
CallInv ==
    /\ pc # "newframe"
    /\ pc = "store" => phase = "end" /\ headState = 1 /\ cf.chip \in through /\ cf.omr = HeaderOmr(This)
    /\ pc = "publish" => phase = "end" /\ through = Chips /\ LastPass
    /\ phase = "end" /\ pc = "idle" /\ through # {} /\ ~ LastPass => expectCounterH /\ headState = 1
    /\ Ended => headState = 0 /\ ~ expectCounterH /\ \A c \in Chips : holding[c] = NULL
DraftInv == turn = NULL /\ BeginInv /\ EndInv /\ LowInv /\ CallInv

(* Every readout that is over is counted. *)
Over == IF Ended THEN Inc(readout) ELSE readout
CountInv == framesReceived + framesLost \in {Over, Over + UINT_RANGE}

Lossless == losses = 0 => DraftInv /\ CountInv /\ AllSetsWhole

LEMMA InitPublished == ASSUME Init PROVE Published = {}
<1> USE DEF Init
<1> SUFFICES ASSUME NEW t \in Slots, (t + FSM_SIZE - Slot(tail)) % FSM_SIZE < Minus(head, tail)
             PROVE  FALSE
  BY DEF Published
<1>1. Minus(head, tail) = 0 /\ Slot(tail) \in 0 .. FSM_SIZE - 1
  BY SlotType DEF Minus, Slots
<1>2. t + FSM_SIZE - Slot(tail) \in Nat
  BY <1>1 DEF Slots
<1>3. Slot(t + FSM_SIZE - Slot(tail)) \in Slots
  BY <1>2, SlotType
<1> QED
  BY <1>1, <1>3 DEF Slot, Slots

LEMMA InitLossless == ASSUME ReadoutInit PROVE Lossless
<1> USE DEF ReadoutInit, Init
<1>1. ~ Ended /\ DraftInv
  BY DEF DraftInv, BeginInv, EndInv, LowInv, CallInv, Ended
<1>2. CountInv
  BY <1>1 DEF CountInv, Over
<1>3. Published = {}
  BY InitPublished
<1> QED
  BY <1>1, <1>2, <1>3 DEF Lossless, AllSetsWhole

(* The spot keeps its frame, and the frame what it holds. *)
KeepsSpot(j, c) ==
    /\ frame'[<<Slot(head), j, c>>] = frame[<<Slot(head), j, c>>]
    /\ frame[<<Slot(head), j, c>>] # NULL =>
           heap'[frame[<<Slot(head), j, c>>]] = heap[frame[<<Slot(head), j, c>>]]

(* A chip that begins takes its frame out of the draft, if there is one, *)
LEMMA TakesSpot ==
    ASSUME Ring, NEW c \in Chips, takeChipFrame(c) \/ allocateChipFrame(c)
    PROVE  /\ holding'[c] # NULL /\ frame'[<<Slot(head), CounterHalf, c>>] = NULL
           /\ \A d \in Chips : d # c => holding'[d] = holding[d]
           /\ \A j \in {0, 1}, d \in Chips : <<j, d>> # <<CounterHalf, c>> => KeepsSpot(j, d)
<1> USE DEF KeepsSpot
<1> DEFINE spot == <<Slot(head), CounterHalf, c>>
<1>1. spot \in Spots /\ \A j \in {0, 1}, d \in Chips : <<Slot(head), j, d>> \in Spots
  BY SlotType, SpotsOfSlot DEF CounterHalf, Ring, Typed, TypeOK
<1>2. \A j \in {0, 1}, d \in Chips : <<j, d>> # <<CounterHalf, c>> => <<Slot(head), j, d>> # spot
  OBVIOUS
<1>3. CASE takeChipFrame(c)
  <2>1. /\ frame[spot] # NULL /\ holding' = [holding EXCEPT ![c] = frame[spot]]
        /\ frame' = [frame EXCEPT ![spot] = NULL] /\ heap' = heap
    BY <1>3 DEF takeChipFrame
  <2> HIDE DEF spot
  <2> QED
    BY <1>1, <1>2, <2>1 DEF Ring, Typed, TypeOK, spot
<1>4. CASE allocateChipFrame(c)
  <2>1. PICK o \in Objects :
          /\ heap[o] = Free /\ heap' = [heap EXCEPT ![o] = Garbage]
          /\ holding' = [holding EXCEPT ![c] = o]
    BY <1>4 DEF allocateChipFrame
  <2>2. frame[spot] = NULL /\ frame' = frame
    BY <1>4 DEF allocateChipFrame
  <2>3. \A p \in Spots : frame[p] # NULL => frame[p] # o /\ frame[p] \in Objects
    BY <2>1 DEF Ring, OneOwner, NoDangling, Typed, TypeOK
  <2>4. holding'[c] = o /\ o # NULL
    BY <2>1, ObjectAssumption DEF Ring, Typed, TypeOK
  <2>5. \A d \in Chips : d # c => holding'[d] = holding[d]
    BY <2>1 DEF Ring, Typed, TypeOK
  <2>6. \A p \in Spots : frame[p] # NULL => heap'[frame[p]] = heap[frame[p]]
    BY <2>1, <2>3 DEF Ring, Typed, TypeOK
  <2> QED
    BY <1>1, <2>2, <2>4, <2>5, <2>6
<1> QED
  BY <1>3, <1>4

(* which without loss is the one of its counter. *)
LEMMA BeginDraft ==
    ASSUME Base, DepthInv, DraftInv, NEW c \in Chips, BeginPass(c) PROVE DraftInv'
<1>1. /\ phase = "begin" /\ c \notin through /\ pc = "idle" /\ through' = through \cup {c}
      /\ filling' = [filling EXCEPT ![c] = This] /\ turn' = NULL
      /\ UNCHANGED <<depth24, readout, counter, phase, head, headState, expectCounterH, pc>>
  BY DEF BeginPass, newChipFrame, headVars
<1>2. holding[c] = NULL /\ (expectCounterH <=> counter = 1) /\ headState = counter
  BY <1>1 DEF DraftInv, BeginInv
<1>3. CounterHalf = counter /\ counter \in {0, 1} /\ Slot(head) \in Slots
  BY <1>2, SlotType DEF CounterHalf, Base, ReadoutTyped, Ring, Typed, TypeOK
<1>4. /\ holding'[c] # NULL /\ frame'[<<Slot(head), counter, c>>] = NULL
      /\ \A d \in Chips : d # c => holding'[d] = holding[d]
      /\ \A j \in {0, 1}, d \in Chips : <<j, d>> # <<counter, c>> =>
             /\ frame'[<<Slot(head), j, d>>] = frame[<<Slot(head), j, d>>]
             /\ frame[<<Slot(head), j, d>>] # NULL =>
                   heap'[frame[<<Slot(head), j, d>>]] = heap[frame[<<Slot(head), j, d>>]]
  BY <1>1, <1>3, NewDepth, TakesSpot DEF BeginPass, KeepsSpot, Base
<1>5. BeginInv'
  <2>1. ASSUME NEW d \in Chips
        PROVE  IF d \in through' THEN Filling(d)' ELSE holding'[d] = NULL
    <3>1. CASE d = c
      BY <1>1, <1>4, <3>1 DEF Filling, Vacant, This, Base, ReadoutTyped
    <3>2. CASE d # c
      <4>1. IF d \in through THEN Filling(d) ELSE holding[d] = NULL
        BY <1>1 DEF DraftInv, BeginInv
      <4>2. /\ holding'[d] = holding[d] /\ filling'[d] = filling[d]
            /\ frame'[<<Slot(head), counter, d>>] = frame[<<Slot(head), counter, d>>]
        BY <1>1, <1>3, <1>4, <3>2 DEF Base, ReadoutTyped
      <4> QED
        BY <1>1, <3>2, <4>1, <4>2 DEF Filling, Vacant, This
    <3> QED
      BY <3>1, <3>2
  <2> QED
    BY <1>1, <1>2, <2>1 DEF BeginInv
<1>6. LowInv'
  <2> SUFFICES ASSUME counter = 1, NEW d \in Chips PROVE Has(0, d)'
    BY <1>1 DEF LowInv
  <2>1. Has(0, d)
    BY <1>1 DEF DraftInv, LowInv, Ended
  <2>2. <<0, d>> # <<counter, c>>
    OBVIOUS
  <2> QED
    BY <1>1, <1>4, <2>1, <2>2 DEF Has, Pixels
<1> QED
  BY <1>1, <1>5, <1>6 DEF DraftInv, EndInv, CallInv, Ended

(* Steps that leave the draft and the assemblers alone. *)
LEMMA DraftKept ==
    ASSUME Base, DraftInv, Untouched(Slot(head)),
           UNCHANGED <<readoutVars, head, headState, expectCounterH, holding, pc, cf>>,
           \A c \in Chips : holding[c] # NULL => heap'[holding[c]] = heap[holding[c]]
    PROVE  DraftInv' /\ Over' = Over
<1> USE DEF readoutVars
<1>1. \A j \in {0, 1}, c \in Chips : Has(j, c) => Has(j, c)'
  BY DEF Has, Pixels, Untouched
<1>2. \A c \in Chips : Vacant(c)' <=> Vacant(c)
  BY DEF Vacant, Untouched, Base, ReadoutTyped
<1>3. \A c \in Chips : Filling(c) => Filling(c)'
  BY <1>2 DEF Filling, This
<1>4. \A c \in Chips : Returned(c) => Returned(c)'
  BY <1>2 DEF Returned, Pixels, This
<1>5. \A c \in Chips : Done(c) => Done(c)'
  BY <1>1 DEF Done, Base, ReadoutTyped
<1>6. /\ Ended' <=> Ended
      /\ LastPass' <=> LastPass
  BY DEF Ended, LastPass
<1>7. HeaderOmr(This)' = HeaderOmr(This)
  BY DEF HeaderOmr, HeaderMode, Setting, This
<1>8. BeginInv'
  BY <1>3 DEF BeginInv, DraftInv
<1>9. EndInv'
  BY <1>3, <1>4, <1>5, <1>6 DEF EndInv, DraftInv
<1>a. LowInv'
  BY <1>1, <1>6 DEF LowInv, DraftInv
<1>b. CallInv'
  BY <1>6, <1>7 DEF CallInv, DraftInv
<1> QED
  BY <1>6, <1>8, <1>9, <1>a, <1>b DEF DraftInv, Over

(* The client's steps do. *)
LEMMA ReaderLeaves ==
    ASSUME Ring, Reader
    PROVE  /\ Untouched(Slot(head))
           /\ \A c \in Chips : holding[c] # NULL => heap'[holding[c]] = heap[holding[c]]
<1>1. Slot(head) \in Slots /\ Slot(tail) \in Slots
  BY SlotType DEF Ring, Typed, TypeOK
<1>2. Untouched(Slot(head))
  BY <1>1, ClearsPublished, ReaderUntouched DEF Ring
<1>3. heap' = heap \/ heap' = Cleared(Slot(tail))
  BY DEF Reader, Wait, waitFindsNothing, waitBlocks, waitTimesOut, getFrameSet,
         releaseFrameSet, releaseLent, releaseOldest, releaseSpurious, clearTail, advanceTail, frameVars
<1>4. ASSUME NEW c \in Chips, holding[c] # NULL PROVE heap'[holding[c]] = heap[holding[c]]
  <2>1. holding[c] \in Objects
    BY <1>4 DEF Ring, Typed, TypeOK
  <2>2. \A j \in {0, 1}, d \in Chips : frame[<<Slot(tail), j, d>>] # holding[c]
    BY <1>1, <1>4, SpotsOfSlot DEF Ring, OneOwner, NoAlias
  <2>3. Cleared(Slot(tail))[holding[c]] = heap[holding[c]]
    BY <2>1, <2>2 DEF Cleared
  <2> QED
    BY <1>3, <2>3
<1> QED
  BY <1>2, <1>4

LEMMA ReaderDraft == ASSUME Base, DraftInv, Internal, Reader PROVE DraftInv' /\ Over' = Over
<1>1. UNCHANGED <<readoutVars, head, headState, expectCounterH, holding, pc, cf>>
  BY DEF Internal, Reader, Wait, waitFindsNothing, waitBlocks, waitTimesOut, getFrameSet,
         releaseFrameSet, advanceTail, headVars, frameVars
<1> QED
  BY <1>1, ReaderLeaves, DraftKept DEF Base

(* A chip gives its frame back. *)
LEMMA EndDraftPass ==
    ASSUME Base, DraftInv, losses = 0, NEW c \in Chips, EndPass(c), \A i, j \in FrameIds : i = j
    PROVE  DraftInv' /\ Over' = Over
<1>1. PICK id \in FrameIds, omr \in OMRs, x \in Payloads :
          putChipFrame(c, id, omr, x) /\ omr = HeaderOmr(This) /\ x = Pixels(This)
  BY EndPassIs DEF Base, ModeInv
<1>2. /\ phase = "end" /\ c \notin through /\ through' = through \cup {c} /\ pc = "idle"
      /\ UNCHANGED <<depth24, readout, counter, phase, turn, filling, head, expectCounterH,
                     frame, holding>>
  BY <1>1 DEF EndPass, putChipFrame
<1>3. /\ heap' = [heap EXCEPT ![holding[c]] = Pixels(This)]
      /\ cf' = [chip |-> c, frameId |-> id, omr |-> HeaderOmr(This)]
      /\ headState' = 1 /\ pc' = "store"
  <2>1. frameId' = id
    BY <1>1 DEF putChipFrame, Base, Ring, Typed, TypeOK
  <2> QED
    BY <1>1, <2>1 DEF putChipFrame
<1>4. Filling(c) /\ ~ Ended
  BY <1>2 DEF DraftInv, EndInv, Ended
<1>5. ~ Ended' /\ Over' = Over
  BY <1>2, <1>3, <1>4 DEF Ended, Over
<1>6. holding[c] \in Objects /\ heap'[holding[c]] = Pixels(This)
  BY <1>3, <1>4 DEF Filling, Base, Ring, Typed, TypeOK
<1>7. ASSUME NEW j \in {0, 1}, NEW d \in Chips, Has(j, d) PROVE Has(j, d)'
  <2>1. <<Slot(head), j, d>> \in Spots
    BY SlotType, SpotsOfSlot DEF Base, Ring, Typed, TypeOK
  <2>2. frame[<<Slot(head), j, d>>] # holding[c] /\ frame[<<Slot(head), j, d>>] \in Objects
    BY <1>7, <2>1 DEF Has, Base, Ring, OneOwner, NoAlias, Typed, TypeOK
  <2> QED
    BY <1>2, <1>3, <1>7, <2>2 DEF Has, Pixels, Base, Ring, Typed, TypeOK
<1>8. EndInv'
  <2> SUFFICES ASSUME NEW d \in Chips
               PROVE  IF d \in through' THEN Returned(d)' \/ Done(d)' ELSE Filling(d)'
    BY DEF EndInv
  <2>1. CASE d = c
    BY <1>2, <1>3, <1>4, <1>6, <2>1 DEF Returned, Filling, Vacant, Pixels, This
  <2>2. CASE d # c /\ d \in through
    <3>1. Done(d)
      BY <1>2, <1>4, <2>2 DEF DraftInv, EndInv, Returned
    <3>2. counter \in {0, 1} /\ \A j \in {0, 1} : j = counter => Has(j, d)'
      BY <1>7, <3>1 DEF Done, Base, ReadoutTyped
    <3> QED
      BY <1>2, <2>2, <3>1, <3>2 DEF Done, Has, Pixels
  <2>3. CASE d # c /\ d \notin through
    <3>1. Filling(d)
      BY <1>2, <1>4, <2>3 DEF DraftInv, EndInv
    <3> QED
      BY <1>2, <2>3, <3>1 DEF Filling, Vacant, This
  <2> QED
    BY <2>1, <2>2, <2>3
<1>9. LowInv'
  BY <1>2, <1>4, <1>7 DEF DraftInv, LowInv
<1>a. CallInv'
  BY <1>2, <1>3, <1>5 DEF CallInv, HeaderOmr, HeaderMode, Setting, This
<1> QED
  BY <1>2, <1>5, <1>8, <1>9, <1>a DEF DraftInv, BeginInv

(* Where a frame of pass p goes. *)
LEMMA CallOfPass ==
    ASSUME Base, DepthInv, NEW p \in Passes, p.counter = 1 => depth24, cf.omr = HeaderOmr(p)
    PROVE  /\ CountersAfter = IF depth24 THEN 2 ELSE 1
           /\ HalfOfFrame = p.counter
           /\ LowCounterOf24 <=> depth24 /\ p.counter = 0
<1>1. /\ cf.omr.countL = IF depth24 THEN 3 ELSE 2
      /\ cf.omr.mode = IF p.counter = 1 THEN 4 ELSE 0
  BY DEF HeaderOmr, HeaderMode, Setting
<1>2. p.counter \in {0, 1} /\ depth24 \in BOOLEAN /\ Slot(head) \in Slots
  BY PassIs, SlotType DEF Base, ReadoutTyped, Ring, Typed, TypeOK
<1>3. CountersAfter = IF depth24 THEN 2 ELSE 1
  BY <1>1, <1>2 DEF CountersAfter, DepthInv
<1> QED
  BY <1>1, <1>2, <1>3 DEF HalfOfFrame, LowCounterOf24

(* A frame is stored at its spot; the frame that was there is deleted. *)
LEMMA StoresSpot ==
    ASSUME Ring, storeChipFrame
    PROVE  LET c == cf.chip IN
           /\ c \in Chips /\ HalfOfFrame \in {0, 1} /\ holding[c] # NULL
           /\ frame'[<<Slot(head), HalfOfFrame, c>>] = holding[c]
           /\ heap'[holding[c]] = heap[holding[c]]
           /\ holding'[c] = NULL
           /\ \A d \in Chips : d # c => holding'[d] = holding[d]
           /\ \A j \in {0, 1}, d \in Chips : <<j, d>> # <<HalfOfFrame, c>> => KeepsSpot(j, d)
<1> DEFINE c == cf.chip
           spot == <<Slot(head), HalfOfFrame, c>>
<1>1. c \in Chips /\ HalfOfFrame \in {0, 1} /\ holding[c] # NULL /\ holding[c] \in Objects
  BY DEF storeChipFrame, HalfOfFrame, Ring, Typed, TypeOK, CallOK
<1>2. spot \in Spots /\ \A j \in {0, 1}, d \in Chips :
          <<Slot(head), j, d>> \in Spots
          /\ (<<j, d>> # <<HalfOfFrame, c>> => <<Slot(head), j, d>> # spot)
  BY <1>1, SlotType, SpotsOfSlot DEF Ring, Typed, TypeOK
<1>3. /\ frame' = [frame EXCEPT ![spot] = holding[c]]
      /\ heap' = DeletedFrom(spot)
      /\ holding' = [holding EXCEPT ![c] = NULL]
  BY DEF storeChipFrame, StorageSpot
<1> HIDE DEF c, spot
<1>4. holding'[c] = NULL /\ \A d \in Chips : d # c => holding'[d] = holding[d]
  BY <1>1, <1>3 DEF Ring, Typed, TypeOK
<1>5. frame'[spot] = holding[c] /\ \A q \in Spots : q # spot => frame'[q] = frame[q]
  BY <1>2, <1>3 DEF Ring, Typed, TypeOK
<1>6. heap'[holding[c]] = heap[holding[c]]
  <2>1. frame[spot] # holding[c]
    BY <1>1, <1>2 DEF Ring, OneOwner, NoAlias
  <2> QED
    BY <1>1, <1>3, <2>1 DEF DeletedFrom
<1>7. \A q \in Spots : q # spot /\ frame[q] # NULL => heap'[frame[q]] = heap[frame[q]]
  <2> SUFFICES ASSUME NEW q \in Spots, q # spot, frame[q] # NULL
               PROVE  heap'[frame[q]] = heap[frame[q]]
    OBVIOUS
  <2>1. frame[q] # frame[spot] /\ frame[q] \in Objects
    BY <1>2 DEF Ring, OneOwner, NoAlias, Typed, TypeOK
  <2> QED
    BY <1>3, <2>1 DEF DeletedFrom
<1>8. \A j \in {0, 1}, d \in Chips : <<j, d>> # <<HalfOfFrame, c>> => KeepsSpot(j, d)
  BY <1>2, <1>5, <1>7 DEF KeepsSpot
<1> QED
  BY <1>1, <1>4, <1>5, <1>6, <1>8 DEF c, spot

(* A frame is stored: the draft is complete when it was the last one. *)
LEMMA StoreDraft ==
    ASSUME Base, DepthInv, DraftInv, storeChipFrame, UNCHANGED readoutVars
    PROVE  DraftInv' /\ Over' = Over
<1> USE DEF readoutVars
<1> DEFINE c == cf.chip
           spot == <<Slot(head), counter, c>>
<1>1. /\ phase = "end" /\ pc = "store" /\ headState = 1 /\ c \in through /\ cf.omr = HeaderOmr(This)
      /\ ~ Ended
  BY DEF storeChipFrame, DraftInv, CallInv, Ended
<1>2. c \in Chips /\ counter \in {0, 1} /\ Slot(head) \in Slots /\ spot \in Spots
      /\ depth24 \in BOOLEAN
  BY <1>1, SlotType, SpotsOfSlot DEF Base, ReadoutTyped, Ring, Typed, TypeOK
<1>3. Returned(c)
  <2>1. holding[c] # NULL
    BY <1>1 DEF Base, Ring, Typed, CallOK
  <2> QED
    BY <1>1, <1>2, <2>1 DEF DraftInv, EndInv, Done
<1>4. /\ CountersAfter = (IF depth24 THEN 2 ELSE 1) /\ HalfOfFrame = counter
      /\ LowCounterOf24 <=> ~ LastPass
  <2>1. This \in Passes /\ This.counter = counter /\ (counter = 1 => depth24)
    BY ThisPass DEF Base, ReadoutTyped, This
  <2> QED
    BY <1>1, <1>2, <2>1, CallOfPass DEF LastPass
<1>5. /\ frame'[spot] = holding[c] /\ heap'[holding[c]] = heap[holding[c]]
      /\ holding'[c] = NULL /\ \A d \in Chips : d # c => holding'[d] = holding[d]
      /\ \A j \in {0, 1}, d \in Chips : <<j, d>> # <<counter, c>> => KeepsSpot(j, d)
  BY <1>4, StoresSpot DEF Base
<1>6. /\ cf' = NULL /\ UNCHANGED <<head, headState>>
      /\ expectCounterH' = (expectCounterH \/ ~ LastPass)
      /\ pc' = IF LastPass /\ isComplete(frame', Slot(head), IF depth24 THEN 2 ELSE 1)
               THEN "publish" ELSE "idle"
  BY <1>4 DEF storeChipFrame
<1>a. ASSUME NEW j \in {0, 1}, NEW d \in Chips, Has(j, d), <<j, d>> # <<counter, c>> PROVE Has(j, d)'
  BY <1>5, <1>6, <1>a DEF Has, Pixels, KeepsSpot
<1>b. ASSUME NEW d \in through PROVE Done(d)'
  <2>1. CASE d = c
    BY <1>3, <1>5, <1>6, <2>1 DEF Done, Has, Returned, Pixels, This
  <2>2. CASE d # c
    <3>1. Done(d) /\ d \in Chips
      BY <1>1, <2>2 DEF DraftInv, EndInv, Returned, Base, ReadoutTyped
    <3>2. <<counter, d>> # <<counter, c>>
      BY <2>2
    <3>3. \A j \in {0, 1} : j = counter => Has(j, d)'
      BY <1>a, <3>1, <3>2 DEF Done
    <3> QED
      BY <1>2, <1>5, <1>6, <2>2, <3>1, <3>3 DEF Done, Has, Pixels
  <2> QED
    BY <2>1, <2>2
<1>c. ASSUME NEW d \in Chips, d \notin through PROVE Filling(d)'
  <2>1. Filling(d) /\ d # c
    BY <1>1, <1>c DEF DraftInv, EndInv
  <2>2. <<counter, d>> # <<counter, c>>
    BY <2>1
  <2>3. frame'[<<Slot(head), counter, d>>] = frame[<<Slot(head), counter, d>>]
    BY <1>2, <1>5, <2>2 DEF KeepsSpot
  <2> QED
    BY <1>5, <1>6, <2>1, <2>3 DEF Filling, Vacant, This
<1>d. counter = 1 => \A d \in Chips : Has(0, d)'
  <2> SUFFICES ASSUME counter = 1, NEW d \in Chips PROVE Has(0, d)'
    OBVIOUS
  <2>1. Has(0, d) /\ <<0, d>> # <<counter, c>>
    BY <1>1 DEF DraftInv, LowInv
  <2> QED
    BY <1>a, <2>1
<1>e. LastPass => (pc' = "publish" <=> through = Chips)
  <2> SUFFICES ASSUME LastPass
               PROVE  isComplete(frame', Slot(head), IF depth24 THEN 2 ELSE 1) <=> through = Chips
    BY <1>6
  <2>1. ASSUME through = Chips, NEW j \in 0 .. (IF depth24 THEN 2 ELSE 1) - 1, NEW d \in Chips
        PROVE  frame'[<<Slot(head), j, d>>] # NULL
    <3>1. j = counter \/ (j = 0 /\ counter = 1)
      BY <1>2, <2>1 DEF LastPass
    <3>2. CASE j = counter
      BY <1>6, <1>b, <2>1, <3>2 DEF Done, Has
    <3>3. CASE j = 0 /\ counter = 1
      BY <1>6, <1>d, <3>3 DEF Has
    <3> QED
      BY <3>1, <3>2, <3>3
  <2>2. ASSUME through # Chips
        PROVE  \E j \in 0 .. (IF depth24 THEN 2 ELSE 1) - 1, d \in Chips :
                   frame'[<<Slot(head), j, d>>] = NULL
    <3>1. PICK d \in Chips : d \notin through
      BY <2>2 DEF Base, ReadoutTyped
    <3>2. frame'[<<Slot(head), counter, d>>] = NULL
      BY <1>6, <1>c, <3>1 DEF Filling, Vacant
    <3>3. counter \in 0 .. (IF depth24 THEN 2 ELSE 1) - 1
      BY <1>2 DEF LastPass
    <3> QED
      BY <3>2, <3>3
  <2> QED
    BY <2>1, <2>2 DEF isComplete
<1>f. ~ Ended'
  BY <1>e DEF Ended, LastPass
<1>g. EndInv'
  BY <1>b, <1>c DEF EndInv
<1>h. LowInv'
  BY <1>d DEF LowInv
<1>i. CallInv'
  <2>1. pc' # "newframe" /\ pc' # "store"
    BY <1>6
  <2>2. pc' = "publish" => through = Chips /\ LastPass
    BY <1>6, <1>e
  <2>3. ~ LastPass => expectCounterH' /\ headState' = 1
    BY <1>1, <1>6
  <2> QED
    BY <1>1, <1>f, <2>1, <2>2, <2>3 DEF CallInv, LastPass
<1> QED
  BY <1>1, <1>f, <1>g, <1>h, <1>i DEF DraftInv, BeginInv, Over

(* The complete draft ends, and is counted. *)
LEMMA FinishDraft ==
    ASSUME Base, DraftInv, CountInv, AllSetsWhole, finishFrame, UNCHANGED readoutVars
    PROVE  DraftInv' /\ CountInv' /\ AllSetsWhole'
<1> USE DEF readoutVars
<1>1. /\ pc = "publish" /\ pc' = "idle" /\ headState' = 0 /\ expectCounterH' = FALSE
      /\ UNCHANGED <<frame, holding, cf, tail>> /\ (dropDraft \/ publishDraft)
  BY DEF finishFrame, tailVars
<1>2. phase = "end" /\ through = Chips /\ LastPass /\ ~ Ended
  BY <1>1 DEF DraftInv, CallInv, Ended
<1>3. Ended'
  BY <1>1, <1>2 DEF Ended, LastPass
<1>4. \A c \in Chips : Done(c)
  BY <1>1, <1>2 DEF DraftInv, EndInv, Returned
<1>5. DraftInv'
  BY <1>1, <1>2, <1>3, <1>4 DEF DraftInv, BeginInv, EndInv, LowInv, CallInv, Done, LastPass
<1>6. CountInv'
  <2>1. /\ framesReceived \in Uint /\ framesLost \in Uint /\ readout \in Uint
        /\ framesReceived + framesLost \in {readout, readout + UINT_RANGE}
    BY <1>2 DEF CountInv, Over, Base, ReadoutTyped, Ring, Typed, TypeOK
  <2>2. \/ framesReceived' = Inc(framesReceived) /\ framesLost' = framesLost
        \/ framesReceived' = framesReceived /\ framesLost' = Inc(framesLost)
    BY <1>1 DEF dropDraft, publishDraft
  <2>3. /\ Inc(framesReceived) + framesLost \in {Inc(readout), Inc(readout) + UINT_RANGE}
        /\ Inc(framesLost) + framesReceived \in {Inc(readout), Inc(readout) + UINT_RANGE}
    <3>1. framesLost + framesReceived = framesReceived + framesLost
      BY <2>1
    <3> QED
      BY <2>1, <3>1, OneMore
  <2>4. Inc(framesLost) \in Uint /\ Inc(framesLost) + framesReceived = framesReceived + Inc(framesLost)
    <3>1. Inc(framesLost) \in Uint
      BY <2>1, IncType
    <3> QED
      BY <2>1, <3>1
  <2>5. Over' = Inc(readout)
    BY <1>3 DEF Over
  <2> QED
    BY <2>2, <2>3, <2>4, <2>5 DEF CountInv
<1>7. HoldsOneReadout(Slot(head))
  <2>1. readout \in Uint /\ counter \in {0, 1}
    BY DEF Base, ReadoutTyped
  <2>2. ASSUME NEW j \in Counters, NEW c \in Chips PROVE Has(j, c)
    <3>1. j = counter \/ (j = 0 /\ counter = 1)
      BY <1>2, <2>1 DEF Counters, LastPass
    <3> QED
      BY <1>2, <1>4, <3>1 DEF Done, DraftInv, LowInv
  <2> QED
    BY <2>1, <2>2 DEF HoldsOneReadout, Has
<1>8. AllSetsWhole'
  <2>1. CASE publishDraft
    BY <1>1, <1>7, <2>1, PublishKeepsSets DEF Base
  <2>2. CASE dropDraft
    <3>1. UNCHANGED <<head, tail>> /\ Producer
      BY <1>1, <2>2 DEF dropDraft, Producer
    <3>2. \A s \in Slots : s \in Published' /\ ~ BeingReturned(s)' => WasPublished(s) /\ Untouched(s)
      BY <3>1, ProducerKeeps DEF Base
    <3> QED
      BY <3>2, SetsKept
  <2> QED
    BY <1>1, <2>1, <2>2
<1> QED
  BY <1>5, <1>6, <1>8

(* The detector goes on. *)
LEMMA PhaseDraft ==
    ASSUME Base, DraftInv, NextPhase
    PROVE  DraftInv' /\ Over' = Over
<1>1. /\ through = Chips /\ pc = "idle" /\ through' = {} /\ turn' = turn
      /\ UNCHANGED <<head, headState, expectCounterH, frame, heap, holding, pc, cf, depth24, filling>>
  BY DEF NextPhase, vars, headVars, frameVars
<1>2. through' # Chips /\ ~ Ended'
  BY <1>1, ReadoutAssumption DEF Ended
<1>3. CASE phase = "begin"
  <2>1. phase' = "end" /\ UNCHANGED <<readout, counter>> /\ ~ Ended
    BY <1>3 DEF NextPhase, Ended
  <2>2. \A c \in Chips : Filling(c)
    BY <1>1, <1>3 DEF DraftInv, BeginInv
  <2>3. EndInv'
    BY <1>1, <2>1, <2>2 DEF EndInv, Filling, Vacant, This
  <2>4. LowInv'
    BY <1>1, <2>1 DEF DraftInv, LowInv, Has, Pixels
  <2>5. BeginInv' /\ CallInv'
    BY <1>1, <1>2, <2>1 DEF BeginInv, CallInv
  <2> QED
    BY <1>1, <1>2, <2>1, <2>3, <2>4, <2>5 DEF DraftInv, Over
<1>4. CASE phase = "end" /\ LastPass
  <2>1. phase' = "begin" /\ counter' = 0 /\ readout' = Inc(readout) /\ Ended
    BY <1>1, <1>4 DEF NextPhase, Ended, LastPass
  <2>2. headState = 0 /\ ~ expectCounterH /\ \A c \in Chips : holding[c] = NULL
    BY <2>1 DEF DraftInv, CallInv
  <2>3. BeginInv'
    BY <1>1, <2>1, <2>2 DEF BeginInv
  <2>4. EndInv' /\ LowInv' /\ CallInv'
    BY <1>1, <1>2, <2>1 DEF EndInv, LowInv, CallInv
  <2> QED
    BY <1>1, <1>2, <2>1, <2>3, <2>4 DEF DraftInv, Over
<1>5. CASE phase = "end" /\ ~ LastPass
  <2>0. depth24 /\ counter = 0 /\ ~ Ended
    BY <1>5 DEF LastPass, Ended, Base, ReadoutTyped
  <2>1. phase' = "begin" /\ counter' = 1 /\ readout' = readout
    BY <1>5, <2>0 DEF NextPhase
  <2>2. through # {}
    BY <1>1, ReadoutAssumption
  <2>3. headState = 1 /\ expectCounterH
    BY <1>1, <1>5, <2>2 DEF DraftInv, CallInv
  <2>4. \A c \in Chips : Done(c)
    BY <1>1, <1>5, <2>0 DEF DraftInv, EndInv, Returned
  <2>5. BeginInv'
    BY <1>1, <2>1, <2>3, <2>4 DEF BeginInv, Done
  <2>6. LowInv'
    BY <1>1, <2>0, <2>1, <2>4 DEF LowInv, Done, Has, Pixels
  <2>7. EndInv' /\ CallInv'
    BY <1>1, <1>2, <2>1 DEF EndInv, CallInv
  <2> QED
    BY <1>1, <1>2, <2>0, <2>1, <2>5, <2>6, <2>7 DEF DraftInv, Over
<1> QED
  BY <1>3, <1>4, <1>5 DEF Base, ReadoutTyped

LEMMA StepLossless ==
    ASSUME Base, DepthInv, Lossless, [ReadoutNext]_<<vars, readoutVars>>,
           \A i, j \in FrameIds : i = j
    PROVE  Lossless'
<1> SUFFICES ASSUME losses' = 0 PROVE DraftInv' /\ CountInv' /\ AllSetsWhole'
  BY DEF Lossless
<1>0. losses = 0 /\ losses' = losses
  BY DEF ReadoutNext, BeginPass, BeginLate, FinishCut, EndPass, MissPass, NoEnd, NextPhase, Internal,
         readoutVars, Base, ReadoutTyped
<1>1. DraftInv /\ CountInv /\ AllSetsWhole
  BY <1>0 DEF Lossless
<1>2. ASSUME DraftInv', Over' = Over, Producer, depth24' = depth24,
             UNCHANGED <<head, tail, framesReceived, framesLost>>
      PROVE  CountInv' /\ AllSetsWhole'
  <2>1. \A s \in Slots : s \in Published' /\ ~ BeingReturned(s)' => WasPublished(s) /\ Untouched(s)
    BY <1>2, ProducerKeeps DEF Base
  <2> QED
    BY <1>1, <1>2, <2>1, SetsKept DEF CountInv
<1>3. ASSUME NEW c \in Chips, BeginPass(c) PROVE DraftInv' /\ CountInv' /\ AllSetsWhole'
  <2>1. DraftInv'
    BY <1>1, <1>3, BeginDraft
  <2>2. Producer /\ UNCHANGED <<depth24, head, tail, framesReceived, framesLost, phase, readout>>
    BY <1>3 DEF BeginPass, newChipFrame, Producer, headVars, tailVars
  <2>3. Over' = Over
    BY <1>3, <2>2 DEF Over, Ended, BeginPass
  <2> QED
    BY <1>2, <2>1, <2>2, <2>3
<1>4. ASSUME NEW c \in Chips, EndPass(c) PROVE DraftInv' /\ CountInv' /\ AllSetsWhole'
  <2>1. DraftInv' /\ Over' = Over
    BY <1>0, <1>1, <1>4, EndDraftPass
  <2>2. Producer
    BY <1>4, EndPassIs DEF Producer, Base
  <2>3. UNCHANGED <<depth24, head, tail, framesReceived, framesLost>>
    BY <1>4 DEF EndPass, GiveBack, putChipFrame, tailVars
  <2> QED
    BY <1>2, <2>1, <2>2, <2>3
<1>5. ASSUME NEW c \in Chips PROVE ~ FinishCut(c) /\ ~ BeginLate(c) /\ ~ NoEnd(c)
  <2>1. ASSUME FinishCut(c) PROVE FALSE
    <3>1. c \notin through /\ holding[c] # NULL /\ ~ Begun(c)
      BY <2>1 DEF FinishCut
    <3>2. ~ Filling(c)
      BY <3>1 DEF Filling, Begun
    <3>3. phase = "end" /\ ~ Ended
      BY <1>1, <3>1 DEF DraftInv, BeginInv, Ended, Base, ReadoutTyped
    <3> QED
      BY <1>1, <3>1, <3>2, <3>3 DEF DraftInv, EndInv
  <2>2. phase = "end" /\ c \notin through => Begun(c)
    BY <1>1 DEF DraftInv, EndInv, Ended, Filling, Begun
  <2>3. ~ BeginLate(c)
    BY <2>2 DEF BeginLate
  <2>4. ASSUME NoEnd(c) PROVE FALSE
    <3>1. losses' = losses + 1
      BY <2>2, <2>4 DEF NoEnd
    <3> QED
      BY <1>0, <3>1
  <2> QED
    BY <2>1, <2>3, <2>4
<1>6. ASSUME NEW c \in Chips PROVE ~ MissPass(c)
  BY <1>0 DEF MissPass
<1>7. CASE NextPhase
  <2>1. DraftInv' /\ Over' = Over
    BY <1>1, <1>7, PhaseDraft
  <2>2. UNCHANGED vars /\ depth24' = depth24
    BY <1>7 DEF NextPhase
  <2>3. UNCHANGED <<framesReceived, framesLost, head, tail, cons, frame, heap>>
    BY <2>2 DEF vars, headVars, frameVars, tailVars
  <2>4. CountInv'
    BY <1>1, <2>1, <2>3 DEF CountInv
  <2>5. \A s \in Slots : s \in Published' /\ ~ BeingReturned(s)' => WasPublished(s) /\ Untouched(s)
    BY <2>2 DEF vars, headVars, frameVars, tailVars, Published, BeingReturned, WasPublished, Untouched
  <2> QED
    BY <1>1, <2>1, <2>2, <2>4, <2>5, SetsKept
<1>8. CASE Internal
  <2>0. UNCHANGED readoutVars /\ depth24' = depth24
    BY <1>8 DEF Internal, readoutVars
  <2>1. CASE startNewFrame
    BY <1>1, <2>1 DEF startNewFrame, DraftInv, CallInv
  <2>2. CASE storeChipFrame
    <3>1. DraftInv' /\ Over' = Over
      BY <1>1, <2>0, <2>2, StoreDraft
    <3>2. Producer /\ UNCHANGED <<head, tail, framesReceived, framesLost>>
      BY <2>2 DEF storeChipFrame, Producer, tailVars
    <3> QED
      BY <1>2, <2>0, <3>1, <3>2
  <2>3. CASE finishFrame
    BY <1>1, <2>0, <2>3, FinishDraft
  <2>4. CASE Reader
    <3>1. DraftInv' /\ Over' = Over
      BY <1>1, <1>8, <2>4, ReaderDraft
    <3>2. UNCHANGED <<framesReceived, framesLost>>
      BY <2>4 DEF Reader, Wait, waitFindsNothing, waitBlocks, waitTimesOut, getFrameSet,
                  releaseFrameSet, advanceTail, headVars
    <3>3. \A s \in Slots : s \in Published' /\ ~ BeingReturned(s)' => WasPublished(s) /\ Untouched(s)
      BY <2>4, ReaderKeeps DEF Base
    <3> QED
      BY <1>1, <2>0, <3>1, <3>2, <3>3, SetsKept DEF CountInv
  <2> QED
    BY <1>8, <2>1, <2>2, <2>3, <2>4 DEF Internal
<1>9. CASE UNCHANGED <<vars, readoutVars>>
  <2>1. UNCHANGED <<head, tail, headState, expectCounterH, framesReceived, framesLost, frame, heap,
                    holding, pc, cf, cons, depth24, readout, counter, phase, through, turn, filling>>
    BY <1>9 DEF vars, headVars, frameVars, tailVars, readoutVars
  <2>2. Over' = Over /\ (Ended' <=> Ended)
    BY <2>1 DEF Over, Ended, LastPass
  <2>3. CountInv'
    BY <1>1, <2>1, <2>2 DEF CountInv
  <2>6. AllSetsWhole'
    <3>1. \A s \in Slots : s \in Published' /\ ~ BeingReturned(s)' => WasPublished(s) /\ Untouched(s)
      BY <1>9 DEF vars, headVars, frameVars, tailVars, Published, BeingReturned, WasPublished, Untouched
    <3> QED
      BY <1>1, <2>1, <3>1, SetsKept
  <2>4. UNCHANGED readoutVars
    BY <1>9
  <2>5. DraftInv'
    <3>1. Untouched(Slot(head)) /\ \A c \in Chips : holding[c] # NULL => heap'[holding[c]] = heap[holding[c]]
      BY <1>9 DEF vars, frameVars, Untouched
    <3> QED
      BY <1>1, <2>1, <2>4, <3>1, DraftKept
  <2> QED
    BY <2>3, <2>5, <2>6
<1> QED
  BY <1>3, <1>4, <1>5, <1>6, <1>7, <1>8, <1>9 DEF ReadoutNext

LEMMA LosslessInvariant ==
    ASSUME \A i, j \in FrameIds : i = j
    PROVE  ReadoutSpec => [](Base /\ Lossless)
<1>1. ReadoutInit => Lossless
  BY InitLossless
<1>2. Base /\ DepthInv /\ Lossless /\ [ReadoutNext]_<<vars, readoutVars>> => Lossless'
  BY StepLossless
<1> QED
  BY <1>1, <1>2, DepthInvariant, PTL DEF ReadoutSpec

(* As long as nothing got lost, a published set holds one readout of every *)
(* chip, all counters of it, for any number of chips, whichever chips      *)
(* start and end first and whatever the recycled slots held.  The frames'  *)
(* ids must not differ, or putChipFrame would cut a draft short (lines     *)
(* 64-75 of FrameSetManager.cpp): nothing assigns an id, so it is what the *)
(* memory held, zero in the fresh pages that blocks of this size come in.  *)
THEOREM SetsAreWhole ==
    ASSUME \A i, j \in FrameIds : i = j
    PROVE  ReadoutSpec => []WholeSets
<1>1. Lossless => WholeSets
  BY DEF Lossless, WholeSets
<1> QED
  BY <1>1, LosslessInvariant, PTL

(* And each readout is counted once, as received or as lost, across the    *)
(* wrap-around of the counts.                                              *)
THEOREM ReadoutsAreCounted ==
    ASSUME \A i, j \in FrameIds : i = j
    PROVE  ReadoutSpec => []CountsAddUp
<1>1. Base /\ Lossless => CountsAddUp
  <2> SUFFICES ASSUME Base, Lossless, losses = 0, phase = "begin"
               PROVE  readout = (framesReceived + framesLost) % UINT_RANGE
    BY DEF CountsAddUp
  <2>1. ~ Ended
    BY DEF Ended
  <2>2. /\ framesReceived + framesLost \in {readout, readout + UINT_RANGE}
        /\ framesReceived + framesLost \in Nat /\ readout \in Uint
    BY <2>1 DEF Lossless, CountInv, Over, Base, Ring, Typed, TypeOK, ReadoutTyped
  <2> QED
    BY <2>2, SumModulo
<1> QED
  BY <1>1, LosslessInvariant, PTL

-----------------------------------------------------------------------------
(* After a single loss.  A spot of the draft may hold a blank frame, or    *)
(* keep the frame of the readout before: then the loss was in that         *)
(* readout, so the chips are in step now, and before the draft can become  *)
(* complete in this readout each of them has taken that frame out of its   *)
(* spot or put another in its place.  A frame whose end was lost is given  *)
(* back before anything of this readout is in the draft.                   *)

Before == IF readout = 0 THEN UINT_RANGE - 1 ELSE readout - 1

(* The draft keeps chip c's frame of counter j of the readout before. *)
Old(j, c) ==
    /\ frame[<<Slot(head), j, c>>] # NULL
    /\ heap[frame[<<Slot(head), j, c>>]] = Pixels([readout |-> Before, counter |-> j])
Blank(j, c) ==
    frame[<<Slot(head), j, c>>] # NULL => heap[frame[<<Slot(head), j, c>>]] = Clear
Fresh(j, c) == Blank(j, c) \/ Has(j, c)

(* The frame of a pass whose end was lost, and that pass. *)
Left(c) == phase = "begin" /\ c \notin through /\ holding[c] # NULL
Earlier == IF counter = 1 THEN [readout |-> readout, counter |-> 0]
           ELSE [readout |-> Before, counter |-> IF depth24 THEN 1 ELSE 0]

(* No chip has missed the pass in progress. *)
InStep ==
    /\ losses = 1
    /\ \A c \in Chips : (phase = "begin" <=> c \in through) => holding[c] # NULL /\ filling[c] = This
Replaced ==
    \A c \in through : (Fresh(0, c) /\ expectCounterH) \/ (pc = "store" /\ cf.chip = c)

SpotInv(j, c) ==
    /\ Fresh(j, c) \/ Old(j, c)
    /\ phase = "begin" /\ counter = 0 => Blank(j, c) \/ Old(j, c)
    /\ ~ Fresh(j, c) =>
          /\ IF depth24
             THEN counter = 0 \/ (phase = "begin" /\ j = 1 /\ c \notin through /\ expectCounterH)
             ELSE phase = "begin" /\ c \notin through
          /\ InStep
          /\ phase = "end" /\ counter = 0 /\ depth24 => Replaced
LeftInv(c) ==
    /\ holding[c] # NULL =>
          IF Left(c) THEN filling[c] = Earlier /\ losses = 1 ELSE filling[c] = This
    /\ Left(c) /\ counter = 0 => InStep
GivenInv ==
    /\ pc # "newframe"
    /\ pc = "store" => /\ heap[holding[cf.chip]] = Pixels(filling[cf.chip])
                       /\ cf.omr = HeaderOmr(filling[cf.chip])
                       /\ phase = "end" <=> cf.chip \in through
    /\ pc = "publish" => /\ IF phase = "end" THEN LastPass ELSE counter = 0
                         /\ \A j \in Counters, c \in Chips : frame[<<Slot(head), j, c>>] # NULL
LossInv ==
    losses <= 1 => /\ \A j \in Counters, c \in Chips : SpotInv(j, c)
                   /\ \A c \in Chips : LeftInv(c)
                   /\ GivenInv

LEMMA CountersAre == ASSUME Base PROVE Counters \subseteq {0, 1} /\ 0 \in Counters
BY DEF Counters

LEMMA SpotKept ==
    ASSUME NEW j \in {0, 1}, NEW c \in Chips, KeepsSpot(j, c), UNCHANGED <<head, readout>>
    PROVE  /\ Blank(j, c)' <=> Blank(j, c)
           /\ Has(j, c)' <=> Has(j, c)
           /\ Old(j, c)' <=> Old(j, c)
           /\ Fresh(j, c)' <=> Fresh(j, c)
<1>1. Blank(j, c)' <=> Blank(j, c)
  BY DEF Blank, KeepsSpot
<1>2. Has(j, c)' <=> Has(j, c)
  BY DEF Has, KeepsSpot, Pixels
<1>3. Old(j, c)' <=> Old(j, c)
  BY DEF Old, KeepsSpot, Pixels, Before
<1> QED
  BY <1>1, <1>2, <1>3 DEF Fresh

(* Steps that leave the draft and the assemblers alone. *)
LEMMA LossKept ==
    ASSUME Base, LossInv, Untouched(Slot(head)),
           UNCHANGED <<readoutVars, head, headState, expectCounterH, holding, pc, cf>>,
           \A c \in Chips : holding[c] # NULL => heap'[holding[c]] = heap[holding[c]]
    PROVE  LossInv'
<1> SUFFICES ASSUME losses <= 1
             PROVE  /\ \A j \in Counters, c \in Chips : SpotInv(j, c)'
                    /\ \A c \in Chips : LeftInv(c)'
                    /\ GivenInv'
  BY DEF LossInv, readoutVars, Counters
<1> USE DEF readoutVars
<1>1. \A j \in {0, 1}, c \in Chips : KeepsSpot(j, c)
  BY DEF Untouched, KeepsSpot
<1>2. InStep' <=> InStep
  BY DEF InStep, This
<1>3. Replaced' <=> Replaced
  <2>1. \A c \in through : Fresh(0, c)' <=> Fresh(0, c)
    BY <1>1, SpotKept DEF Base, ReadoutTyped
  <2> QED
    BY <2>1 DEF Replaced
<1>4. ASSUME NEW j \in Counters, NEW c \in Chips PROVE SpotInv(j, c)'
  <2>1. SpotInv(j, c) /\ j \in {0, 1}
    BY CountersAre DEF LossInv
  <2>2. (Blank(j, c)' <=> Blank(j, c)) /\ (Old(j, c)' <=> Old(j, c)) /\ (Fresh(j, c)' <=> Fresh(j, c))
    BY <1>1, <2>1, SpotKept
  <2> QED
    BY <1>2, <1>3, <2>1, <2>2 DEF SpotInv
<1>5. ASSUME NEW c \in Chips PROVE LeftInv(c)'
  <2>1. LeftInv(c) /\ (Left(c)' <=> Left(c)) /\ Earlier' = Earlier
    BY DEF LossInv, Left, Earlier, Before
  <2> QED
    BY <1>2, <2>1 DEF LeftInv, This
<1>6. GivenInv'
  <2>1. ASSUME pc = "store" PROVE heap'[holding[cf.chip]] = heap[holding[cf.chip]]
    BY <2>1 DEF Base, Ring, Typed, TypeOK, CallOK
  <2>2. \A j \in Counters, c \in Chips :
            frame'[<<Slot(head), j, c>>] = frame[<<Slot(head), j, c>>]
    BY <1>1, CountersAre DEF KeepsSpot
  <2> QED
    BY <2>1, <2>2 DEF LossInv, GivenInv, HeaderOmr, HeaderMode, Setting, Pixels, LastPass, Counters
<1> QED
  BY <1>4, <1>5, <1>6

(* A chip starts a pass, at its begin or late. *)
LEMMA TakeLoss ==
    ASSUME Base, DepthInv, LossInv, ~ guessed', NEW c \in Chips, BeginPass(c) \/ BeginLate(c)
    PROVE  LossInv'
<1>1. /\ pc = "idle" /\ filling' = [filling EXCEPT ![c] = This] /\ c \notin through
      /\ UNCHANGED <<depth24, readout, counter, phase, losses, head, expectCounterH, pc>>
      /\ IF phase = "begin" THEN through' = through \cup {c} ELSE through' = through /\ ~ depth24
  BY DEF BeginPass, BeginLate, newChipFrame, headVars
<1> SUFFICES ASSUME losses <= 1
             PROVE  /\ \A j \in Counters, d \in Chips : SpotInv(j, d)'
                    /\ \A d \in Chips : LeftInv(d)'
                    /\ GivenInv'
  BY <1>1 DEF LossInv, Counters
<1>2. /\ holding'[c] # NULL /\ frame'[<<Slot(head), CounterHalf, c>>] = NULL
      /\ \A d \in Chips : d # c => holding'[d] = holding[d]
      /\ \A j \in {0, 1}, d \in Chips : <<j, d>> # <<CounterHalf, c>> => KeepsSpot(j, d)
  BY <1>1, NewDepth, TakesSpot DEF BeginPass, BeginLate, Base
<1>3. filling'[c] = This' /\ \A d \in Chips : d # c => filling'[d] = filling[d]
  BY <1>1 DEF Base, ReadoutTyped, This
<1>4. InStep => InStep'
  BY <1>1, <1>2, <1>3 DEF InStep, This
<1>5. ASSUME NEW j \in Counters, NEW d \in Chips PROVE SpotInv(j, d)'
  <2>0. j \in {0, 1} /\ SpotInv(j, d)
    BY CountersAre DEF LossInv
  <2>1. CASE <<j, d>> = <<CounterHalf, c>>
    <3>1. Blank(j, d)'
      BY <1>1, <1>2, <2>1 DEF Blank
    <3> QED
      BY <3>1 DEF SpotInv, Fresh
  <2>2. CASE <<j, d>> # <<CounterHalf, c>>
    <3>1. (Blank(j, d)' <=> Blank(j, d)) /\ (Old(j, d)' <=> Old(j, d)) /\ (Fresh(j, d)' <=> Fresh(j, d))
      BY <1>1, <1>2, <2>0, <2>2, SpotKept
    <3>2. CASE Fresh(j, d)
      BY <1>1, <2>0, <3>1, <3>2 DEF SpotInv
    <3>3. CASE ~ Fresh(j, d)
      <4>1. phase = "begin" /\ InStep
        BY <1>1, <2>0, <3>3 DEF SpotInv
      <4>2. d = c => j # 1 \/ ~ expectCounterH
        BY <2>2 DEF CounterHalf
      <4>3. depth24 => counter = 0 \/ (j = 1 /\ d \notin through' /\ expectCounterH)
        BY <1>1, <2>0, <3>3, <4>1, <4>2 DEF SpotInv
      <4>4. ~ depth24 => d \notin through'
        <5> SUFFICES ASSUME ~ depth24, d = c PROVE FALSE
          BY <1>1, <2>0, <3>3 DEF SpotInv
        <5>1. j = 0 /\ ~ expectCounterH
          BY DEF Counters, DepthInv
        <5> QED
          BY <2>2, <5>1 DEF CounterHalf
      <4> QED
        BY <1>1, <1>4, <2>0, <3>1, <4>1, <4>3, <4>4 DEF SpotInv
    <3> QED
      BY <3>2, <3>3
  <2> QED
    BY <2>1, <2>2
<1>6. ASSUME NEW d \in Chips PROVE LeftInv(d)'
  <2>1. CASE d = c
    BY <1>1, <1>3, <2>1 DEF LeftInv, Left, Base, ReadoutTyped
  <2>2. CASE d # c
    <3>1. LeftInv(d) /\ (Left(d)' <=> Left(d)) /\ Earlier' = Earlier /\ This' = This
      BY <1>1, <1>2, <2>2 DEF LossInv, Left, Earlier, Before, This
    <3> QED
      BY <1>1, <1>2, <1>3, <1>4, <2>2, <3>1 DEF LeftInv
  <2> QED
    BY <2>1, <2>2
<1> QED
  BY <1>1, <1>5, <1>6 DEF GivenInv

(* What putChipFrame is handed: the frame of a pass that is over or of one *)
(* whose end was lost. *)
LEMMA GiveLoss ==
    ASSUME Base, LossInv, ~ guessed, \A i, j \in FrameIds : i = j,
           NEW c \in Chips, FinishCut(c) \/ EndPass(c)
    PROVE  LossInv'
<1>1. /\ pc = "idle" /\ c \notin through /\ holding[c] # NULL
      /\ UNCHANGED <<depth24, readout, counter, phase, losses, filling>>
  BY DEF FinishCut, EndPass, GiveBack, putChipFrame
<1> SUFFICES ASSUME losses <= 1
             PROVE  /\ \A j \in Counters, d \in Chips : SpotInv(j, d)'
                    /\ \A d \in Chips : LeftInv(d)'
                    /\ GivenInv'
  BY <1>1 DEF LossInv, Counters
<1>2. /\ phase = "begin" => FinishCut(c) /\ through' = through
      /\ phase = "end" => EndPass(c) /\ through' = through \cup {c} /\ filling[c] = This
      /\ phase \in {"begin", "end"}
  BY <1>1 DEF FinishCut, EndPass, LossInv, LeftInv, Left, Begun, Base, ReadoutTyped
<1>3. PICK id \in FrameIds, omr \in OMRs, x \in Payloads :
          putChipFrame(c, id, omr, x) /\ omr = HeaderOmr(filling[c]) /\ x = Pixels(filling[c])
  BY <1>2, FinishCutIs, EndPassIs DEF Base
<1>4. /\ UNCHANGED <<head, expectCounterH, frame, holding>>
      /\ heap' = [heap EXCEPT ![holding[c]] = Pixels(filling[c])]
      /\ cf'.chip = c /\ cf'.omr = HeaderOmr(filling[c]) /\ pc' = "store"
  <2>1. frameId' = id
    BY <1>3 DEF putChipFrame, Base, Ring, Typed, TypeOK
  <2> QED
    BY <1>3, <2>1 DEF putChipFrame
<1>5. ASSUME NEW j \in {0, 1}, NEW d \in Chips PROVE KeepsSpot(j, d)
  <2>1. <<Slot(head), j, d>> \in Spots
    BY SlotType, SpotsOfSlot DEF Base, Ring, Typed, TypeOK
  <2>2. frame[<<Slot(head), j, d>>] # NULL =>
            frame[<<Slot(head), j, d>>] # holding[c] /\ frame[<<Slot(head), j, d>>] \in Objects
    BY <1>1, <2>1 DEF Base, Ring, OneOwner, NoAlias, Typed, TypeOK
  <2> QED
    BY <1>4, <2>2 DEF KeepsSpot, Base, Ring, Typed, TypeOK
<1>6. InStep => InStep'
  BY <1>1, <1>2, <1>4 DEF InStep, This
<1>7. phase = "end" /\ Replaced => Replaced'
  <2>1. \A d \in Chips : Fresh(0, d)' <=> Fresh(0, d)
    BY <1>1, <1>4, <1>5, SpotKept
  <2> SUFFICES ASSUME phase = "end", Replaced, NEW d \in through'
               PROVE  (Fresh(0, d)' /\ expectCounterH') \/ (pc' = "store" /\ cf'.chip = d)
    BY DEF Replaced
  <2>2. CASE d = c
    BY <1>4, <2>2
  <2>3. CASE d # c
    <3>1. d \in through /\ d \in Chips
      BY <1>2, <2>3 DEF Base, ReadoutTyped
    <3>2. Fresh(0, d) /\ expectCounterH
      BY <1>1, <3>1 DEF Replaced
    <3>3. Fresh(0, d)'
      BY <2>1, <3>1, <3>2
    <3>4. expectCounterH'
      BY <1>4, <3>2
    <3> QED
      BY <3>3, <3>4
  <2> QED
    BY <2>2, <2>3
<1>8. ASSUME NEW j \in Counters, NEW d \in Chips PROVE SpotInv(j, d)'
  <2>0. j \in {0, 1} /\ SpotInv(j, d)
    BY CountersAre DEF LossInv
  <2>1. (Blank(j, d)' <=> Blank(j, d)) /\ (Old(j, d)' <=> Old(j, d)) /\ (Fresh(j, d)' <=> Fresh(j, d))
    BY <1>1, <1>4, <1>5, <2>0, SpotKept
  <2> QED
    BY <1>1, <1>2, <1>4, <1>6, <1>7, <2>0, <2>1 DEF SpotInv
<1>9. ASSUME NEW d \in Chips PROVE LeftInv(d)'
  <2>1. LeftInv(d) /\ (Left(d)' <=> Left(d)) /\ Earlier' = Earlier /\ This' = This
    BY <1>1, <1>2, <1>4 DEF LossInv, Left, Earlier, Before, This
  <2> QED
    BY <1>1, <1>4, <1>6, <2>1 DEF LeftInv
<1>a. GivenInv'
  <2>1. heap'[holding[c]] = Pixels(filling[c])
    BY <1>1, <1>4 DEF Base, Ring, Typed, TypeOK
  <2> QED
    BY <1>1, <1>2, <1>4, <2>1 DEF GivenInv, HeaderOmr, HeaderMode, Setting, Pixels
<1> QED
  BY <1>8, <1>9, <1>a

(* The loss: nothing of an earlier one is left. *)
LEMMA MissLoss ==
    ASSUME Base, LossInv, NEW c \in Chips, MissPass(c) \/ NoEnd(c)
    PROVE  LossInv'
<1>1. /\ pc = "idle" /\ c \notin through /\ through' = through \cup {c} /\ losses' \in {losses, losses + 1}
      /\ UNCHANGED <<vars, depth24, readout, counter, phase, filling>>
      /\ losses' = losses => phase = "end" /\ filling[c] # This
  BY DEF MissPass, NoEnd, Begun, Base, ReadoutTyped
<1> SUFFICES ASSUME losses' <= 1
             PROVE  /\ \A j \in Counters, d \in Chips : SpotInv(j, d)'
                    /\ \A d \in Chips : LeftInv(d)'
                    /\ GivenInv'
  BY <1>1 DEF LossInv, Counters
<1>2. losses <= 1 /\ (losses' # losses => losses = 0)
  BY <1>1 DEF Base, ReadoutTyped
<1>3. ~ InStep
  BY <1>1, <1>2 DEF InStep
<1>4. UNCHANGED <<head, expectCounterH, frame, heap, holding, pc>>
  BY <1>1 DEF vars, headVars, frameVars
<1>5. ASSUME NEW j \in Counters, NEW d \in Chips PROVE SpotInv(j, d)'
  <2>0. j \in {0, 1} /\ SpotInv(j, d) /\ Fresh(j, d)
    BY <1>2, <1>3, CountersAre DEF LossInv, SpotInv
  <2>1. (Blank(j, d)' <=> Blank(j, d)) /\ (Old(j, d)' <=> Old(j, d)) /\ (Fresh(j, d)' <=> Fresh(j, d))
    BY <1>1, <1>4, <2>0, SpotKept DEF KeepsSpot
  <2> QED
    BY <1>1, <2>0, <2>1 DEF SpotInv
<1>6. ASSUME NEW d \in Chips PROVE LeftInv(d)'
  <2>1. LeftInv(d) /\ (Left(d)' => Left(d)) /\ Earlier' = Earlier /\ This' = This
    BY <1>1, <1>2, <1>4 DEF LossInv, Left, Earlier, Before, This
  <2>2. Left(d) => losses' = losses /\ phase = "begin"
    BY <1>2, <2>1 DEF LeftInv, Left
  <2>3. ~ Left(d)
    BY <1>1, <2>2
  <2> QED
    BY <1>1, <1>4, <2>1, <2>3 DEF LeftInv
<1> QED
  BY <1>1, <1>4, <1>5, <1>6 DEF GivenInv

(* A draft starts from blank frames. *)
CleanStart == headState = 0 => Clean(Slot(head))

LEMMA CleanDraft == ASSUME Ring, CleanInv PROVE CleanStart
BY SlotType, DraftUnpublished DEF CleanInv, CleanRecycle, CleanStart, Ring, Typed, TypeOK

(* The detector goes on. *)
LEMMA PhaseLoss ==
    ASSUME Base, Lossless, CleanStart, LossInv, NextPhase
    PROVE  LossInv'
<1>1. /\ through = Chips /\ through' = {} /\ pc = "idle" /\ pc' = "idle"
      /\ UNCHANGED <<head, headState, expectCounterH, frame, heap, holding, pc, cf, depth24, filling, losses>>
  BY DEF NextPhase, vars, headVars, frameVars
<1> SUFFICES ASSUME losses <= 1
             PROVE  /\ \A j \in Counters, d \in Chips : SpotInv(j, d)'
                    /\ \A d \in Chips : LeftInv(d)'
  BY <1>1 DEF LossInv, Counters, GivenInv
<1>2. /\ \A j \in Counters, d \in Chips : j \in {0, 1} /\ SpotInv(j, d) /\ KeepsSpot(j, d)
      /\ \A d \in Chips : LeftInv(d) /\ ~ Left(d)
  BY <1>1, CountersAre DEF LossInv, KeepsSpot, Left
<1>3. CASE phase = "begin"
  <2>1. phase' = "end" /\ UNCHANGED <<readout, counter>>
    BY <1>3 DEF NextPhase
  <2>2. InStep => InStep'
    BY <1>1, <1>3, <2>1 DEF InStep, This
  <2>3. ASSUME NEW j \in Counters, NEW d \in Chips PROVE SpotInv(j, d)'
    <3>1. (Blank(j, d)' <=> Blank(j, d)) /\ (Old(j, d)' <=> Old(j, d)) /\ (Fresh(j, d)' <=> Fresh(j, d))
      BY <1>1, <1>2, <2>1, SpotKept
    <3>2. Replaced'
      BY <1>1 DEF Replaced
    <3>3. ~ Fresh(j, d) => depth24 /\ counter = 0 /\ InStep
      BY <1>1, <1>2, <1>3 DEF SpotInv
    <3> QED
      BY <1>1, <1>2, <2>1, <2>2, <3>1, <3>2, <3>3 DEF SpotInv
  <2>4. ASSUME NEW d \in Chips PROVE LeftInv(d)'
    BY <1>1, <1>2, <1>3, <2>1 DEF LeftInv, Left, This
  <2> QED
    BY <2>3, <2>4
<1>4. CASE phase = "end" /\ LastPass
  <2>1. /\ phase' = "begin" /\ counter' = 0 /\ readout' = Inc(readout) /\ Before' = readout
        /\ Ended /\ counter \in {0, 1}
    BY <1>1, <1>4 DEF NextPhase, Ended, LastPass, Before, Inc, Base, ReadoutTyped
  <2>2. ASSUME NEW j \in Counters, NEW d \in Chips PROVE Fresh(j, d)
    BY <1>2, <1>4 DEF LastPass, SpotInv
  <2>3. ASSUME losses = 0 PROVE headState = 0 /\ \A d \in Chips : holding[d] = NULL
    BY <2>1, <2>3 DEF Lossless, DraftInv, CallInv
  <2>4. ASSUME losses = 0, NEW j \in Counters, NEW d \in Chips PROVE Blank(j, d)
    <3>1. Clean(Slot(head))
      BY <2>3, <2>4 DEF CleanStart
    <3> QED
      BY <1>2, <3>1 DEF Clean, Blank
  <2>5. losses = 0 \/ losses = 1
    BY DEF Base, ReadoutTyped
  <2>6. losses = 1 => InStep'
    BY <1>1, <2>1 DEF InStep
  <2>7. ASSUME NEW j \in Counters, NEW d \in Chips PROVE SpotInv(j, d)'
    <3>1. Blank(j, d)' <=> Blank(j, d)
      BY <1>1 DEF Blank
    <3>2. Has(j, d) => Old(j, d)'
      BY <1>1, <2>1 DEF Has, Old, Pixels
    <3>3. Blank(j, d)' \/ (Old(j, d)' /\ InStep')
      <4>1. CASE losses = 0
        BY <2>4, <3>1, <4>1
      <4>2. CASE losses = 1
        BY <2>2, <2>6, <3>1, <3>2, <4>2 DEF Fresh
      <4> QED
        BY <2>5, <4>1, <4>2
    <3> QED
      BY <1>1, <2>1, <3>3 DEF SpotInv, Fresh
  <2>8. ASSUME NEW d \in Chips PROVE LeftInv(d)'
    <3>1. holding[d] # NULL => losses = 1 /\ filling[d] = This
      BY <1>2, <2>3, <2>5 DEF LeftInv
    <3>2. Earlier' = This
      BY <1>1, <1>4, <2>1 DEF Earlier, This, LastPass
    <3> QED
      BY <1>1, <2>1, <2>6, <3>1, <3>2 DEF LeftInv, Left
  <2> QED
    BY <2>7, <2>8
<1>5. CASE phase = "end" /\ ~ LastPass
  <2>1. depth24 /\ counter = 0
    BY <1>5 DEF LastPass, Base, ReadoutTyped
  <2>2. phase' = "begin" /\ counter' = 1 /\ readout' = readout
    BY <1>5, <2>1 DEF NextPhase
  <2>3. ASSUME NEW j \in Counters, NEW d \in Chips PROVE SpotInv(j, d)'
    <3>1. (Old(j, d)' <=> Old(j, d)) /\ (Fresh(j, d)' <=> Fresh(j, d))
      BY <1>1, <1>2, <2>2, SpotKept
    <3>2. ASSUME ~ Fresh(j, d) PROVE InStep /\ j = 1 /\ expectCounterH
      <4>1. InStep /\ Replaced
        BY <1>2, <1>5, <2>1, <3>2 DEF SpotInv
      <4>2. \A e \in Chips : Fresh(0, e) /\ expectCounterH
        BY <1>1, <4>1 DEF Replaced
      <4> QED
        BY <1>2, <3>2, <4>1, <4>2
    <3>3. InStep => InStep'
      BY <1>1, <2>2 DEF InStep
    <3> QED
      BY <1>1, <1>2, <2>1, <2>2, <3>1, <3>2, <3>3 DEF SpotInv
  <2>4. ASSUME NEW d \in Chips PROVE LeftInv(d)'
    <3>1. holding[d] # NULL => losses = 1 /\ filling[d] = This
      <4>1. ASSUME losses = 0 PROVE holding[d] = NULL
        BY <1>1, <1>5, <4>1 DEF Lossless, DraftInv, EndInv, Ended, Returned, Done
      <4> QED
        BY <1>2, <4>1 DEF LeftInv, Base, ReadoutTyped
    <3>2. Earlier' = This
      BY <2>1, <2>2 DEF Earlier, This
    <3> QED
      BY <1>1, <2>2, <3>1, <3>2 DEF LeftInv, Left
  <2> QED
    BY <2>3, <2>4
<1> QED
  BY <1>3, <1>4, <1>5 DEF Base, ReadoutTyped

(* A frame is stored, of this pass or of the one whose end was lost. *)
LEMMA StoreLoss ==
    ASSUME Base, DepthInv, LossInv, storeChipFrame, UNCHANGED readoutVars
    PROVE  LossInv'
<1> USE DEF readoutVars
<1> SUFFICES ASSUME losses <= 1
             PROVE  /\ \A j \in Counters, d \in Chips : SpotInv(j, d)'
                    /\ \A d \in Chips : LeftInv(d)'
                    /\ GivenInv'
  BY DEF LossInv, Counters
<1> DEFINE c == cf.chip
           h == HalfOfFrame
           p == filling[cf.chip]
<1>1. /\ pc = "store" /\ c \in Chips /\ h \in {0, 1} /\ holding[c] # NULL
      /\ frame'[<<Slot(head), h, c>>] = holding[c] /\ heap'[holding[c]] = heap[holding[c]]
      /\ holding'[c] = NULL
      /\ \A d \in Chips : d # c => holding'[d] = holding[d]
      /\ \A j \in {0, 1}, d \in Chips : <<j, d>> # <<h, c>> => KeepsSpot(j, d)
  BY StoresSpot DEF Base, storeChipFrame
<1>2. /\ heap[holding[c]] = Pixels(p) /\ cf.omr = HeaderOmr(p) /\ (phase = "end" <=> c \in through)
  BY <1>1 DEF LossInv, GivenInv
<1>3. /\ p \in Passes /\ (p.counter = 1 => depth24)
      /\ IF phase = "end" THEN p = This ELSE p = Earlier /\ Left(c) /\ losses = 1
  <2>1. LeftInv(c)
    BY <1>1 DEF LossInv
  <2> QED
    BY <1>1, <1>2, <2>1 DEF LeftInv, Left, Base, ReadoutTyped
<1>4. /\ h = p.counter /\ (LowCounterOf24 <=> depth24 /\ p.counter = 0)
      /\ CountersAfter = IF depth24 THEN 2 ELSE 1
  BY <1>2, <1>3, CallOfPass
<1>5. /\ head' = head /\ expectCounterH' = (expectCounterH \/ LowCounterOf24) /\ cf' = NULL
      /\ pc' = IF ~ LowCounterOf24 /\ isComplete(frame', Slot(head), CountersAfter)
               THEN "publish" ELSE "idle"
  BY DEF storeChipFrame
<1>6. counter \in {0, 1} /\ depth24 \in BOOLEAN /\ phase \in {"begin", "end"} /\ (counter = 1 => depth24)
  BY DEF Base, ReadoutTyped
(* What the spot holds now. *)
<1> HIDE DEF c, h, p
<1>7. ASSUME NEW j \in {0, 1}, NEW d \in Chips, j = h, d = c
      PROVE  IF phase = "end" \/ counter = 1 THEN Has(j, d)' ELSE Old(j, d)'
  <2>1. /\ frame'[<<Slot(head'), j, d>>] # NULL
        /\ heap'[frame'[<<Slot(head'), j, d>>]] = Pixels(p)
    BY <1>1, <1>2, <1>5, <1>7
  <2>2. IF phase = "end" \/ counter = 1 THEN p.readout = readout ELSE p.readout = Before
    BY <1>3, <1>6 DEF This, Earlier
  <2>3. Pixels(p) = 2 * p.readout + j /\ Before' = Before
    BY <1>4, <1>7 DEF Pixels, Before
  <2>4. CASE phase = "end" \/ counter = 1
    BY <2>1, <2>2, <2>3, <2>4 DEF Has, Pixels
  <2>5. CASE ~ (phase = "end" \/ counter = 1)
    BY <2>1, <2>2, <2>3, <2>5 DEF Old, Pixels
  <2> QED
    BY <2>4, <2>5
<1>8. InStep => InStep'
  BY <1>1, <1>2, <1>6 DEF InStep, This
<1>9. ASSUME NEW d \in Chips PROVE LeftInv(d)' /\ (Left(d)' => Left(d))
  <2>1. LeftInv(d) /\ (Left(d)' => Left(d)) /\ Earlier' = Earlier /\ This' = This
    BY <1>1 DEF LossInv, Left, Earlier, Before, This
  <2>2. CASE d = c
    BY <1>1, <2>1, <2>2 DEF LeftInv, Left
  <2>3. CASE d # c
    BY <1>1, <1>8, <2>1, <2>3 DEF LeftInv, Left
  <2> QED
    BY <2>1, <2>2, <2>3
<1>a. ASSUME phase = "end", counter = 0, depth24, Replaced PROVE Replaced'
  <2> SUFFICES ASSUME NEW d \in through PROVE Fresh(0, d)' /\ expectCounterH'
    BY DEF Replaced
  <2>1. h = 0 /\ LowCounterOf24
    BY <1>3, <1>4, <1>a DEF This
  <2>2. CASE d = c
    <3>1. Has(0, d)' /\ expectCounterH'
      BY <1>1, <1>5, <1>7, <1>a, <2>1, <2>2
    <3> QED
      BY <3>1 DEF Fresh
  <2>3. CASE d # c
    <3>1. Fresh(0, d) /\ d \in Chips
      BY <1>a, <2>3 DEF Replaced, Base, ReadoutTyped, c
    <3>2. Fresh(0, d)'
      BY <1>1, <1>5, <2>3, <3>1, SpotKept
    <3> QED
      BY <1>5, <2>1, <3>2
  <2> QED
    BY <2>2, <2>3
<1>b. ASSUME NEW j \in Counters, NEW d \in Chips PROVE SpotInv(j, d)'
  <2>0. j \in {0, 1} /\ SpotInv(j, d)
    BY CountersAre DEF LossInv
  <2>1. CASE <<j, d>> # <<h, c>>
    <3>1. (Blank(j, d)' <=> Blank(j, d)) /\ (Old(j, d)' <=> Old(j, d)) /\ (Fresh(j, d)' <=> Fresh(j, d))
      BY <1>1, <1>5, <2>0, <2>1, SpotKept
    <3> QED
      BY <1>5, <1>8, <1>a, <2>0, <3>1 DEF SpotInv
  <2>2. CASE j = h /\ d = c
    <3>1. CASE phase = "end" \/ counter = 1
      <4>1. Has(j, d)'
        BY <1>7, <2>0, <2>2, <3>1
      <4> QED
        BY <1>6, <3>1, <4>1 DEF SpotInv, Fresh
    <3>2. CASE phase = "begin" /\ counter = 0
      <4>1. Old(j, d)'
        BY <1>7, <2>0, <2>2, <3>2
      <4>2. InStep'
        BY <1>1, <1>3, <1>8, <3>2 DEF LossInv, LeftInv
      <4>3. d \notin through
        BY <1>2, <2>2, <3>2
      <4> QED
        BY <3>2, <4>1, <4>2, <4>3 DEF SpotInv
    <3> QED
      BY <1>6, <3>1, <3>2
  <2> QED
    BY <2>1, <2>2
<1>c. GivenInv'
  <2> SUFFICES ASSUME ~ LowCounterOf24, isComplete(frame', Slot(head), CountersAfter)
               PROVE  /\ IF phase = "end" THEN LastPass ELSE counter = 0
                      /\ \A j \in Counters, d \in Chips : frame'[<<Slot(head), j, d>>] # NULL
    BY <1>5 DEF GivenInv, LastPass, Counters
  <2>1. IF phase = "end" THEN LastPass ELSE counter = 0
    BY <1>3, <1>4, <1>6 DEF This, Earlier, LastPass
  <2>2. Counters = 0 .. CountersAfter - 1
    <3>1. CASE depth24
      BY <1>4, <3>1 DEF Counters
    <3>2. CASE ~ depth24
      BY <1>4, <3>2 DEF Counters
    <3> QED
      BY <3>1, <3>2
  <2> QED
    BY <2>1, <2>2 DEF isComplete
<1> QED
  BY <1>9, <1>b, <1>c

(* A set whose frames are of one readout, or blank. *)
Unmixed(s) ==
    \E n \in Uint : \A j \in Counters, c \in Chips :
        /\ frame[<<s, j, c>>] # NULL
        /\ heap[frame[<<s, j, c>>]] \in {Pixels([readout |-> n, counter |-> j]), Clear}
AllUnmixed == \A s \in Published : ~ BeingReturned(s) => Unmixed(s)

LEMMA UnmixedKept ==
    ASSUME NEW s \in Slots, Untouched(s), depth24' = depth24, Unmixed(s)
    PROVE  Unmixed(s)'
<1>1. PICK n \in Uint : \A j \in Counters, c \in Chips :
        /\ frame[<<s, j, c>>] # NULL
        /\ heap[frame[<<s, j, c>>]] \in {Pixels([readout |-> n, counter |-> j]), Clear}
  BY DEF Unmixed
<1>2. Counters' = Counters /\ Counters \subseteq {0, 1}
  BY DEF Counters
<1>3. ASSUME NEW j \in Counters', NEW c \in Chips
      PROVE  /\ frame'[<<s, j, c>>] # NULL
             /\ heap'[frame'[<<s, j, c>>]] \in {Pixels([readout |-> n, counter |-> j]), Clear}
  <2>1. /\ frame'[<<s, j, c>>] = frame[<<s, j, c>>]
        /\ frame[<<s, j, c>>] # NULL =>
               heap'[frame[<<s, j, c>>]] = heap[frame[<<s, j, c>>]]
    BY <1>2 DEF Untouched
  <2>2. /\ frame[<<s, j, c>>] # NULL
        /\ heap[frame[<<s, j, c>>]] \in {Pixels([readout |-> n, counter |-> j]), Clear}
    BY <1>1, <1>2
  <2> QED
    BY <2>1, <2>2
<1> QED
  BY <1>3 DEF Unmixed, Pixels

LEMMA SetsUnmixed ==
    ASSUME AllUnmixed, depth24' = depth24,
           \A s \in Slots : s \in Published' /\ ~ BeingReturned(s)' =>
               (WasPublished(s) \/ Unmixed(s)) /\ Untouched(s)
    PROVE  AllUnmixed'
<1> SUFFICES ASSUME NEW s \in Published', ~ BeingReturned(s)' PROVE Unmixed(s)'
  BY DEF AllUnmixed
<1>1. s \in Slots /\ Untouched(s) /\ (WasPublished(s) \/ Unmixed(s))
  BY DEF Published
<1>2. Unmixed(s)
  BY <1>1 DEF AllUnmixed, WasPublished
<1> QED
  BY <1>1, <1>2, UnmixedKept

(* A complete draft is of this readout, or of the one before as long as    *)
(* nothing of this one is in it.                                           *)
LEMMA CompleteUnmixed ==
    ASSUME Base, LossInv, losses <= 1, pc = "publish"
    PROVE  Unmixed(Slot(head))
<1>1. /\ IF phase = "end" THEN LastPass ELSE counter = 0
      /\ \A j \in Counters, c \in Chips : frame[<<Slot(head), j, c>>] # NULL /\ SpotInv(j, c)
  BY DEF LossInv, GivenInv
<1>2. readout \in Uint /\ Before \in Uint /\ phase \in {"begin", "end"}
  BY DEF Base, ReadoutTyped, Before
<1>3. CASE phase = "end"
  <2>1. ASSUME NEW j \in Counters, NEW c \in Chips PROVE Fresh(j, c)
    <3>1. LastPass /\ SpotInv(j, c)
      BY <1>1, <1>3
    <3> QED
      BY <1>3, <3>1 DEF LastPass, SpotInv
  <2> QED
    BY <1>1, <1>2, <2>1 DEF Unmixed, Fresh, Blank, Has
<1>4. CASE phase = "begin"
  <2>1. ASSUME NEW j \in Counters, NEW c \in Chips PROVE Blank(j, c) \/ Old(j, c)
    BY <1>1, <1>4 DEF SpotInv
  <2> QED
    BY <1>1, <1>2, <2>1 DEF Unmixed, Blank, Old
<1> QED
  BY <1>2, <1>3, <1>4

(* The complete draft ends; the next one starts from blank frames. *)
LEMMA FinishLoss ==
    ASSUME Base, LossInv, Base', CleanStart', finishFrame, UNCHANGED readoutVars
    PROVE  LossInv'
<1> USE DEF readoutVars
<1> SUFFICES ASSUME losses <= 1
             PROVE  /\ \A j \in Counters, d \in Chips : SpotInv(j, d)'
                    /\ \A d \in Chips : LeftInv(d)'
                    /\ GivenInv'
  BY DEF LossInv, Counters
<1>1. pc' = "idle" /\ headState' = 0 /\ UNCHANGED holding
  BY DEF finishFrame
<1>2. Slot(head)' \in Slots /\ Clean(Slot(head))'
  BY <1>1, SlotType DEF CleanStart, Base, Ring, Typed, TypeOK
<1>3. ASSUME NEW j \in Counters, NEW d \in Chips PROVE SpotInv(j, d)'
  <2>1. Blank(j, d)'
    BY <1>2, CountersAre DEF Clean, Blank
  <2> QED
    BY <2>1 DEF SpotInv, Fresh
<1>4. InStep => InStep'
  BY <1>1 DEF InStep, This
<1>5. ASSUME NEW d \in Chips PROVE LeftInv(d)'
  <2>1. LeftInv(d) /\ (Left(d)' <=> Left(d)) /\ Earlier' = Earlier /\ This' = This
    BY <1>1 DEF LossInv, Left, Earlier, Before, This
  <2> QED
    BY <1>1, <1>4, <2>1 DEF LeftInv
<1> QED
  BY <1>1, <1>3, <1>5 DEF GivenInv

LEMMA ReaderLoss == ASSUME Base, LossInv, Internal, Reader PROVE LossInv'
<1>1. UNCHANGED <<readoutVars, head, headState, expectCounterH, holding, pc, cf>>
  BY DEF Internal, Reader, Wait, waitFindsNothing, waitBlocks, waitTimesOut, getFrameSet,
         releaseFrameSet, advanceTail, headVars, frameVars
<1>2. Untouched(Slot(head)) /\ \A c \in Chips : holding[c] # NULL => heap'[holding[c]] = heap[holding[c]]
  BY ReaderLeaves DEF Base
<1> QED
  BY <1>1, <1>2, LossKept

(* A mode once guessed remains so. *)
LEMMA GuessedStays ==
    ASSUME ReadoutTyped, [ReadoutNext]_<<vars, readoutVars>>
    PROVE  guessed => guessed'
BY DEF ReadoutTyped, ReadoutNext, BeginPass, BeginLate, FinishCut, EndPass, MissPass, NoEnd, NextPhase,
       Internal, readoutVars

LEMMA StepLoss ==
    ASSUME Base, Base', CleanStart, CleanStart', DepthInv, Lossless, LossInv, ~ guessed',
           [ReadoutNext]_<<vars, readoutVars>>, \A i, j \in FrameIds : i = j
    PROVE  LossInv'
<1>0. ~ guessed
  BY GuessedStays DEF Base
<1>1. CASE Internal
  <2>1. UNCHANGED readoutVars
    BY <1>1 DEF Internal
  <2>2. CASE startNewFrame
    <3>1. CASE losses <= 1
      BY <2>2, <3>1 DEF startNewFrame, LossInv, GivenInv
    <3>2. CASE ~ (losses <= 1)
      BY <2>1, <3>2 DEF LossInv, readoutVars
    <3> QED
      BY <3>1, <3>2
  <2> QED
    BY <1>1, <2>1, <2>2, StoreLoss, FinishLoss, ReaderLoss DEF Internal
<1>2. CASE UNCHANGED <<vars, readoutVars>>
  <2>1. UNCHANGED <<readoutVars, head, headState, expectCounterH, frame, heap, holding, pc, cf, counters>>
    BY <1>2 DEF vars, headVars, frameVars
  <2> QED
    BY <2>1, LossKept DEF Untouched
<1>3. CASE \E c \in Chips : BeginPass(c) \/ BeginLate(c)
  BY <1>3, TakeLoss
<1>4. CASE \E c \in Chips : FinishCut(c) \/ EndPass(c)
  BY <1>0, <1>4, GiveLoss
<1>5. CASE \E c \in Chips : MissPass(c) \/ NoEnd(c)
  BY <1>5, MissLoss
<1>6. CASE NextPhase
  BY <1>6, PhaseLoss
<1> QED
  BY <1>1, <1>2, <1>3, <1>4, <1>5, <1>6 DEF ReadoutNext

(* Until a second loss the published sets stay unmixed. *)
LEMMA StepUnmixed ==
    ASSUME Base, LossInv, losses <= 1 => AllUnmixed, [ReadoutNext]_<<vars, readoutVars>>
    PROVE  losses' <= 1 => AllUnmixed'
<1> SUFFICES ASSUME losses' <= 1 PROVE AllUnmixed'
  OBVIOUS
<1>1. losses <= 1 /\ depth24' = depth24
  BY DEF ReadoutNext, BeginPass, BeginLate, FinishCut, EndPass, MissPass, NoEnd, NextPhase, Internal,
         readoutVars, Base, ReadoutTyped
<1>2. CASE publishDraft /\ finishFrame
  <2>1. UNCHANGED <<tail, frame>> /\ pc = "publish"
    BY <1>2 DEF finishFrame, tailVars
  <2> QED
    BY <1>1, <1>2, <2>1, PublishKeeps, CompleteUnmixed, SetsUnmixed DEF Base
<1>3. CASE UNCHANGED <<head, tail>> /\ Producer
  BY <1>1, <1>3, ProducerKeeps, SetsUnmixed DEF Base
<1>4. CASE Reader
  BY <1>1, <1>4, ReaderKeeps, SetsUnmixed DEF Base
<1>5. CASE UNCHANGED vars
  <2>1. \A s \in Slots : s \in Published' /\ ~ BeingReturned(s)' => WasPublished(s) /\ Untouched(s)
    BY <1>5 DEF vars, headVars, frameVars, tailVars, Published, BeingReturned, WasPublished, Untouched
  <2> QED
    BY <1>1, <2>1, SetsUnmixed
<1>6. ASSUME NEW c \in Chips, FinishCut(c) \/ EndPass(c) PROVE UNCHANGED <<head, tail>> /\ Producer
  <2>1. Producer
    BY <1>6, FinishCutIs, EndPassIs DEF Producer, Base
  <2> QED
    BY <1>6, <2>1 DEF FinishCut, EndPass, GiveBack, putChipFrame, tailVars
<1>7. ASSUME NEW c \in Chips, BeginPass(c) \/ BeginLate(c) PROVE UNCHANGED <<head, tail>> /\ Producer
  BY <1>7 DEF BeginPass, BeginLate, newChipFrame, headVars, tailVars, Producer
<1>8. storeChipFrame => UNCHANGED <<head, tail>> /\ Producer
  BY DEF storeChipFrame, tailVars, Producer
<1>9. finishFrame /\ dropDraft => UNCHANGED <<head, tail>> /\ Producer
  BY DEF finishFrame, dropDraft, tailVars, Producer
<1>a. ~ startNewFrame
  BY <1>1 DEF startNewFrame, LossInv, GivenInv
<1>b. finishFrame => publishDraft \/ dropDraft
  BY DEF finishFrame
<1>c. ASSUME NEW c \in Chips, MissPass(c) \/ NoEnd(c) PROVE UNCHANGED vars
  BY <1>c DEF MissPass, NoEnd
<1>d. NextPhase => UNCHANGED vars
  BY DEF NextPhase
<1>e. CASE Internal
  BY <1>2, <1>3, <1>4, <1>8, <1>9, <1>a, <1>b, <1>e DEF Internal
<1> QED
  BY <1>3, <1>5, <1>6, <1>7, <1>c, <1>d, <1>e DEF ReadoutNext

LEMMA InitLoss == ASSUME ReadoutInit PROVE LossInv /\ AllUnmixed
<1> USE DEF ReadoutInit, Init
<1>1. LossInv
  <2>1. Slot(head) \in Slots /\ \A j \in {0, 1}, c \in Chips : <<Slot(head), j, c>> \in Spots
    BY SlotType, SpotsOfSlot
  <2>2. ASSUME NEW j \in Counters, NEW c \in Chips PROVE SpotInv(j, c)
    <3>1. Blank(j, c)
      BY <2>1 DEF Blank, Counters
    <3> QED
      BY <3>1 DEF SpotInv, Fresh
  <2> QED
    BY <2>2 DEF LossInv, LeftInv, Left, GivenInv
<1>2. AllUnmixed
  BY InitPublished DEF AllUnmixed
<1> QED
  BY <1>1, <1>2

(* After a loss of part of a single pass, whichever part, blank frames may *)
(* take the place of a chip's, in any set, but no published set has frames *)
(* of two readouts or a counter at the other's place, as long as no mode   *)
(* was guessed, that is unless the beginning of a pass was lost at 24 bit: *)
(* the draft that the loss left incomplete loses what it keeps before the  *)
(* next readout completes it.                                              *)
THEOREM ReadoutsNeverMix ==
    ASSUME \A i, j \in FrameIds : i = j
    PROVE  ReadoutSpec => [](~ guessed => NeverMixed)
<1> DEFINE Inv == ~ guessed => LossInv /\ (losses <= 1 => AllUnmixed)
<1>1. ReadoutInit => CleanInv /\ Inv
  BY InitClean, InitLoss DEF ReadoutInit
<1>2. Base /\ CleanInv /\ [ReadoutNext]_<<vars, readoutVars>> => CleanInv'
  <2>1. Base /\ [ReadoutNext]_<<vars, readoutVars>> => [Next]_vars
    BY ReadoutCalls DEF Base
  <2> QED
    BY <2>1, StepClean DEF Base
<1>3. Base /\ CleanInv => CleanStart
  BY CleanDraft DEF Base
<1>4. ASSUME Base, Base', CleanStart, CleanStart', DepthInv, Lossless, Inv,
             [ReadoutNext]_<<vars, readoutVars>>
      PROVE  Inv'
  <2> SUFFICES ASSUME ~ guessed' PROVE LossInv' /\ (losses' <= 1 => AllUnmixed')
    OBVIOUS
  <2>1. ~ guessed
    BY <1>4, GuessedStays DEF Base
  <2>2. LossInv /\ (losses <= 1 => AllUnmixed)
    BY <1>4, <2>1
  <2> QED
    BY <1>4, <2>2, StepLoss, StepUnmixed
<1>5. Inv => (~ guessed => NeverMixed)
  <2>1. ASSUME ~ guessed, losses <= 1, AllUnmixed PROVE NeverMixed
    BY <2>1 DEF AllUnmixed, Unmixed, NeverMixed
  <2> QED
    BY <2>1 DEF NeverMixed
<1> HIDE DEF Inv
<1> QED
  BY <1>1, <1>2, <1>3, <1>4, <1>5, DepthInvariant, LosslessInvariant, PTL DEF ReadoutSpec
=============================================================================
