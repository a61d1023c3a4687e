-------------------------- MODULE FrameSetManager --------------------------
(***************************************************************************)
(* The ring of FrameSets between the receiving thread and the reader       *)
(* (FrameSetManager.cpp, FrameSet.cpp, ChipFrame.h).  The receiving thread *)
(* holds headMut for a whole putChipFrame or newChipFrame call, the reader *)
(* holds tailMut; the two meet only in the atomics head_ and tail_, in the *)
(* slots and in the condition variable, so a call is split into steps      *)
(* wherever the other side can see the difference.                         *)
(***************************************************************************)
EXTENDS Naturals

CONSTANTS
    Chips,         \* the detector's chips (number_of_chips)
    FSM_SIZE,      \* slots in the ring
    UINT_RANGE,    \* values of an atomic_uint, 2^32 in the build
    Objects,       \* the heap's room for ChipFrames; the model's bound
    FrameIds,      \* values of ChipFrame::frameId
    OMRs,          \* [countL, mode] settings a frame can carry
    Payloads,      \* what an assembler writes into a frame
    Clear,         \* contents after ChipFrame::clear
    Garbage,       \* contents after "new ChipFrame()": never initialised
    Free,          \* no object at this place of the heap
    NULL,
    StaleReleases  \* may the reader return a FrameSet it has already returned?

ASSUME SizeAssumption ==
    /\ FSM_SIZE \in Nat /\ FSM_SIZE >= 2
    /\ UINT_RANGE \in Nat /\ UINT_RANGE >= FSM_SIZE
    /\ UINT_RANGE % FSM_SIZE = 0
ASSUME ObjectAssumption ==
    /\ NULL \notin Objects /\ NULL \notin 0 .. FSM_SIZE - 1
    /\ NULL \notin [chip : Chips, frameId : FrameIds, omr : OMRs]
    /\ Free # Clear /\ Free # Garbage /\ Free \notin Payloads
ASSUME OmrAssumption == OMRs \subseteq [countL : 0 .. 3, mode : 0 .. 7]
ASSUME StaleAssumption == StaleReleases \in BOOLEAN

VARIABLES
    head, tail,     \* head_ and tail_: free running, a slot is their low bits
    headState,      \* 0 no draft in the head slot, 1 a draft
    tailState,      \* 3 the tail slot was lent to the reader
    frameId,        \* the id of the draft
    expectCounterH, \* the low counter of a 24-bit frame has arrived
    counters,       \* slot -> FrameSet::counters
    frame,          \* slot, counter, chip -> the ChipFrame there, or NULL
    framesReceived, framesLost,
    heap,           \* object -> its contents, or Free
    holding,        \* chip -> the ChipFrame its FrameAssembler is filling
    pc, cf,         \* the putChipFrame call in progress and its argument
    cons,           \* the reader's place inside wait or releaseFrameSet
    got,            \* the slot lent to the reader, or NULL
    aborted         \* "no", or the assertion that stopped the process

headVars == <<head, headState, frameId, expectCounterH, framesReceived, framesLost>>
frameVars == <<counters, frame, heap, holding>>
tailVars == <<tail, tailState, got>>
vars == <<headVars, frameVars, tailVars, pc, cf, cons, aborted>>

Slots == 0 .. FSM_SIZE - 1
Uint == 0 .. UINT_RANGE - 1
Spots == Slots \X {0, 1} \X Chips
Contents == Payloads \cup {Clear, Garbage}

(* The operators named ...Variant are not part of the model: each is a      *)
(* plausible mistake in the definition that follows it, which a property   *)
(* must detect (see the README).                                           *)

IncVariant(i) == i + 1
Inc(i) == IF i = UINT_RANGE - 1 THEN 0 ELSE i + 1
(* Unsigned subtraction: a borrow adds UINT_RANGE. *)
Minus(h, t) == IF t <= h THEN h - t ELSE h - t + UINT_RANGE
Slot(i) == i % FSM_SIZE

isFullLateVariant == Minus(head, tail) = FSM_SIZE
isFullEarlyVariant == Minus(head, tail) >= FSM_SIZE - 2
isFull == Minus(head, tail) = FSM_SIZE - 1
isEmpty == head = tail

ClearedVariant(s) == [o \in Objects |->
    IF \E c \in Chips : frame[<<s, 0, c>>] = o THEN Clear ELSE heap[o]]
NotClearedVariant(s) == heap
(* FrameSet::clear wipes the frames of a slot and keeps them for reuse. *)
Cleared(s) == [o \in Objects |->
    IF \E j \in {0, 1}, c \in Chips : frame[<<s, j, c>>] = o THEN Clear ELSE heap[o]]

(* FrameSet::isComplete, for a slot with n counters. *)
isComplete(f, s, n) == \A j \in 0 .. n - 1, c \in Chips : f[<<s, j, c>>] # NULL

(* notify_one wakes the reader only if it already waits. *)
Notified(c) == IF c = "blocked" THEN "idle" ELSE c

Init ==
    /\ head = 0 /\ tail = 0
    /\ headState = 0 /\ tailState = 0
    /\ frameId \in FrameIds
    /\ expectCounterH = FALSE
    /\ counters = [s \in Slots |-> 1]
    /\ frame = [p \in Spots |-> NULL]
    /\ framesReceived = 0 /\ framesLost = 0
    /\ heap = [o \in Objects |-> Free]
    /\ holding = [c \in Chips |-> NULL]
    /\ pc = "idle" /\ cf = NULL
    /\ cons = "idle" /\ got = NULL
    /\ aborted = "no"

-----------------------------------------------------------------------------
(* The receiving thread.                                                   *)

CounterHalf == IF expectCounterH THEN 1 ELSE 0

takeChipFrameVariant(chip) ==
    /\ expectCounterH => counters[Slot(head)] = 2
    /\ frame[<<Slot(head), CounterHalf, chip>>] # NULL
    /\ holding' = [holding EXCEPT ![chip] = frame[<<Slot(head), CounterHalf, chip>>]]
    /\ UNCHANGED <<frame, heap, aborted>>

(* takeChipFrame: the assertion on the number of counters, then the frame  *)
(* kept at this chip's spot leaves the set.                                *)
takeChipFrame(chip) ==
    LET spot == <<Slot(head), CounterHalf, chip>> IN
    /\ expectCounterH => counters[Slot(head)] = 2
    /\ frame[spot] # NULL
    /\ holding' = [holding EXCEPT ![chip] = frame[spot]]
    /\ frame' = [frame EXCEPT ![spot] = NULL]
    /\ UNCHANGED <<heap, aborted>>

allocateChipFrame(chip) ==
    /\ expectCounterH => counters[Slot(head)] = 2
    /\ frame[<<Slot(head), CounterHalf, chip>>] = NULL
    /\ \E o \in Objects :
        /\ heap[o] = Free
        /\ heap' = [heap EXCEPT ![o] = Garbage]
        /\ holding' = [holding EXCEPT ![chip] = o]
    /\ UNCHANGED <<frame, aborted>>

counterAssertFails ==
    /\ expectCounterH /\ counters[Slot(head)] # 2
    /\ aborted' = "counterH"
    /\ UNCHANGED <<frame, heap, holding>>

newChipFrame(chip) ==
    /\ pc = "idle" /\ holding[chip] = NULL
    /\ \/ takeChipFrame(chip)
       \/ allocateChipFrame(chip)
       \/ counterAssertFails
    /\ UNCHANGED <<headVars, counters, tailVars, pc, cf, cons>>

(* Entry of putChipFrame(chip, cf), up to the comparison of the ids.  What *)
(* the caller wrote into the frame since it got it is written here.        *)
putChipFrame(chip, id, omr, payload) ==
    /\ pc = "idle" /\ holding[chip] # NULL
    /\ heap' = [heap EXCEPT ![holding[chip]] = payload]
    /\ cf' = [chip |-> chip, frameId |-> id, omr |-> omr]
    /\ frameId' = IF headState = 0 THEN id ELSE frameId
    /\ headState' = 1
    /\ pc' = IF frameId' # id THEN "newframe" ELSE "store"
    /\ UNCHANGED <<head, expectCounterH, framesReceived, framesLost,
                   counters, frame, holding, tailVars, cons, aborted>>

dropUncountedVariant ==
    /\ isFull
    /\ heap' = Cleared(Slot(head))
    /\ counters' = [counters EXCEPT ![Slot(head)] = 1]
    /\ UNCHANGED <<head, framesReceived, framesLost, cons>>

(* The two ways a draft ends: dropped when the ring is full, else          *)
(* published.  Both occur in putChipFrame twice, with the same text.       *)
dropDraft ==
    /\ isFull
    /\ framesLost' = Inc(framesLost)
    /\ heap' = Cleared(Slot(head))
    /\ counters' = [counters EXCEPT ![Slot(head)] = 1]
    /\ UNCHANGED <<head, framesReceived, cons>>

publishDraft ==
    /\ ~ isFull
    /\ head' = Inc(head)
    /\ framesReceived' = Inc(framesReceived)
    /\ cons' = Notified(cons)
    /\ UNCHANGED <<framesLost, heap, counters>>

(* Lines 64-75: the frame belongs to another frame set than the draft. *)
startNewFrame ==
    /\ pc = "newframe"
    /\ dropDraft \/ publishDraft
    /\ pc' = "store"
    /\ UNCHANGED <<headState, frameId, expectCounterH, frame, holding,
                   tailVars, cf, aborted>>

CountersAfter == IF cf.omr.countL = 3 THEN 2 ELSE counters[Slot(head)]
HalfOfFrame == IF CountersAfter = 2 /\ cf.omr.mode = 4 THEN 1 ELSE 0
StorageSpot == <<Slot(head), HalfOfFrame, cf.chip>>
LowCounterOf24 == cf.omr.countL = 3 /\ cf.omr.mode = 0
DeletedFromVariant(spot) == heap
\* The frame a spot already held is deleted.
DeletedFrom(spot) == [o \in Objects |-> IF o = frame[spot] THEN Free ELSE heap[o]]

(* Line 76, FrameSet::putChipFrame, and the choice of lines 77-80. *)
storeChipFrame ==
    /\ pc = "store"
    /\ counters' = [counters EXCEPT ![Slot(head)] = CountersAfter]
    /\ frame' = [frame EXCEPT ![StorageSpot] = holding[cf.chip]]
    /\ heap' = DeletedFrom(StorageSpot)
    /\ holding' = [holding EXCEPT ![cf.chip] = NULL]
    /\ expectCounterH' = (expectCounterH \/ LowCounterOf24)
    /\ pc' = IF ~ LowCounterOf24 /\ isComplete(frame', Slot(head), CountersAfter)
             THEN "publish" ELSE "idle"
    /\ cf' = NULL
    /\ UNCHANGED <<head, headState, frameId, framesReceived, framesLost,
                   tailVars, cons, aborted>>

finishFrameVariant ==
    /\ pc = "publish"
    /\ dropDraft \/ publishDraft
    /\ headState' = 0
    /\ pc' = "idle"
    /\ UNCHANGED <<expectCounterH, frameId, frame, holding, tailVars, cf, aborted>>

(* Lines 81-90: the set is complete. *)
finishFrame ==
    /\ pc = "publish"
    /\ dropDraft \/ publishDraft
    /\ expectCounterH' = FALSE
    /\ headState' = 0
    /\ pc' = "idle"
    /\ UNCHANGED <<frameId, frame, holding, tailVars, cf, aborted>>

-----------------------------------------------------------------------------
(* The reader.  wait() tests for a set under tailMut and then waits; the   *)
(* producer does not take tailMut, so a set and its notification can come  *)
(* between the two.                                                        *)

waitFindsNothing ==
    /\ cons = "idle"
    /\ isEmpty
    /\ cons' = "checked"
    /\ UNCHANGED <<headVars, frameVars, tailVars, pc, cf, aborted>>

waitBlocks ==
    /\ cons = "checked"
    /\ cons' = "blocked"
    /\ UNCHANGED <<headVars, frameVars, tailVars, pc, cf, aborted>>

waitTimesOutVariant == cons = "blocked" /\ FALSE /\ UNCHANGED vars

(* The duration is over, or a spurious wake-up. *)
waitTimesOut ==
    /\ cons = "blocked"
    /\ cons' = "idle"
    /\ UNCHANGED <<headVars, frameVars, tailVars, pc, cf, aborted>>

getFrameSet ==
    /\ cons = "idle" /\ ~ isEmpty
    /\ tailState' = 3
    /\ got' = Slot(tail)
    /\ UNCHANGED <<headVars, frameVars, tail, pc, cf, cons, aborted>>

(* clear() on the tail slot; the tail_++ and tailState = 0 that follow are *)
(* advanceTail, since the producer tests isFull() in between.              *)
clearTail ==
    /\ heap' = Cleared(Slot(tail))
    /\ counters' = [counters EXCEPT ![Slot(tail)] = 1]
    /\ got' = NULL
    /\ cons' = "advance"
    /\ UNCHANGED <<tailState, aborted>>

(* What the reader may pass as fsUsed. *)
Returnable == {NULL} \cup (IF got = NULL THEN {} ELSE {got})
                     \cup (IF StaleReleases THEN Slots ELSE {})

releaseLent(fsUsed) ==
    /\ fsUsed = Slot(tail)
    /\ \/ tailState = 3 /\ clearTail
       \/ /\ tailState # 3
          /\ aborted' = "tailState"
          /\ UNCHANGED <<heap, counters, tailState, got, cons>>

releaseOldest(fsUsed) ==
    /\ fsUsed = NULL
    /\ \/ ~ isEmpty /\ clearTail
       \/ isEmpty /\ tailState' = 0 /\ UNCHANGED <<heap, counters, got, cons, aborted>>

releaseSpurious(fsUsed) ==
    /\ fsUsed \notin {NULL, Slot(tail)}
    /\ tailState' = 0
    /\ UNCHANGED <<heap, counters, got, cons, aborted>>

releaseFrameSet(fsUsed) ==
    /\ cons = "idle"
    /\ releaseLent(fsUsed) \/ releaseOldest(fsUsed) \/ releaseSpurious(fsUsed)
    /\ UNCHANGED <<headVars, tail, frame, holding, pc, cf>>

advanceTailVariant ==
    /\ cons = "advance"
    /\ tail' = Inc(tail)
    /\ cons' = "idle"
    /\ UNCHANGED <<headVars, frameVars, tailState, got, pc, cf, aborted>>

advanceTail ==
    /\ cons = "advance"
    /\ tail' = Inc(tail)
    /\ tailState' = 0
    /\ cons' = "idle"
    /\ UNCHANGED <<headVars, frameVars, got, pc, cf, aborted>>

(* SpidrDaq::resetLostCount writes an int the receiving thread increments  *)
(* under headMut: while the increment is under way the write may get lost. *)
resetLostCount ==
    /\ framesLost' \in {0} \cup
         (IF pc \in {"newframe", "publish"} /\ isFull THEN {framesLost} ELSE {})
    /\ UNCHANGED <<head, headState, frameId, expectCounterH, framesReceived,
                   frameVars, tailVars, pc, cf, cons, aborted>>

-----------------------------------------------------------------------------
Producer ==
    \/ \E c \in Chips : newChipFrame(c)
    \/ \E c \in Chips, id \in FrameIds, omr \in OMRs, x \in Payloads :
            putChipFrame(c, id, omr, x)
    \/ startNewFrame
    \/ storeChipFrame
    \/ finishFrame

Wait == waitFindsNothing \/ waitBlocks \/ waitTimesOut

Reader ==
    \/ Wait
    \/ getFrameSet
    \/ \E p \in Returnable : releaseFrameSet(p)
    \/ advanceTail

Next == aborted = "no" /\ (Producer \/ Reader \/ resetLostCount)

Spec == Init /\ [][Next]_vars

(* The reader polls: it leaves wait when its time is over, fetches what is *)
(* there and returns what it fetched.  Nothing is asked of the chips.      *)
ReaderFairness ==
    /\ WF_vars(aborted = "no" /\ (waitBlocks \/ waitTimesOut))
    /\ WF_vars(aborted = "no" /\ getFrameSet /\ got = NULL)
    /\ WF_vars(aborted = "no" /\ got # NULL /\ releaseFrameSet(got))
    /\ WF_vars(aborted = "no" /\ advanceTail)

FairSpec == Spec /\ ReaderFairness
=============================================================================
