----------------------- MODULE FrameSetManagerProofs -----------------------
(***************************************************************************)
(* Theorems about the FrameSetManager for every number of chips, slots and *)
(* heap places and every width of the indices that FrameSetManager's       *)
(* assumptions allow: type correctness, the ring, the ownership of         *)
(* ChipFrames and the assertions.  Then that it implements FrameQueue: the *)
(* published slots are a bounded queue of frame sets that nobody touches   *)
(* until they are given back; and that the slots which are not published   *)
(* hold nothing of the sets they carried before.                           *)
(***************************************************************************)
EXTENDS FrameSetManagerProps, Integers, SequenceTheorems, TLAPS

USE SizeAssumption DEF Uint

LEMMA IncType == ASSUME NEW i \in Uint PROVE Inc(i) \in Uint
BY DEF Inc

LEMMA SlotType == ASSUME NEW i \in Nat PROVE Slot(i) \in Slots
BY DEF Slot, Slots

LEMMA MinusType == ASSUME NEW h \in Uint, NEW t \in Uint PROVE Minus(h, t) \in 0 .. UINT_RANGE - 1
BY DEF Minus

LEMMA MinusZero ==
    ASSUME NEW h \in Uint, NEW t \in Uint
    PROVE  Minus(h, t) = 0 <=> h = t
BY DEF Minus

LEMMA MinusIncHead ==
    ASSUME NEW h \in Uint, NEW t \in Uint, Minus(h, t) < UINT_RANGE - 1
    PROVE  Minus(Inc(h), t) = Minus(h, t) + 1
BY DEF Minus, Inc

LEMMA MinusIncTail ==
    ASSUME NEW h \in Uint, NEW t \in Uint, h # t
    PROVE  Minus(h, Inc(t)) = Minus(h, t) - 1
BY DEF Minus, Inc

(* A multiple of the size that is smaller than the size is 0. *)
LEMMA SmallMultiple ==
    ASSUME NEW n \in Nat \ {0}, NEW q \in Int, 0 < n * q, n * q < n
    PROVE  FALSE
<1>1. CASE q <= 0
  BY <1>1
<1>2. CASE q >= 1
  BY <1>2
<1> QED
  BY <1>1, <1>2

LEMMA Division ==
    ASSUME NEW n \in Nat \ {0}, NEW i \in Nat
    PROVE  \E q \in Nat : i = n * q + (i % n)
<1> WITNESS i \div n \in Nat
<1> QED OBVIOUS

LEMMA SlotQuotient ==
    ASSUME NEW i \in Uint
    PROVE  \E q \in Nat : i = FSM_SIZE * q + Slot(i)
<1>1. FSM_SIZE \in Nat \ {0} /\ i \in Nat
  OBVIOUS
<1>2. \E q \in Nat : i = FSM_SIZE * q + (i % FSM_SIZE)
  BY <1>1, Division, Zenon
<1> QED
  BY <1>2, Zenon DEF Slot

LEMMA SlotsDiffer ==
    ASSUME NEW h \in Uint, NEW t \in Uint, h # t, Minus(h, t) <= FSM_SIZE - 1
    PROVE  Slot(h) # Slot(t)
<1> SUFFICES ASSUME Slot(h) = Slot(t) PROVE FALSE
  OBVIOUS
<1>1. PICK a \in Nat : h = FSM_SIZE * a + Slot(h)
  BY SlotQuotient
<1>2. PICK b \in Nat : t = FSM_SIZE * b + Slot(t)
  BY SlotQuotient
<1>3. PICK k \in Nat : UINT_RANGE = FSM_SIZE * k
  <2>1. FSM_SIZE \in Nat \ {0} /\ UINT_RANGE \in Nat
    OBVIOUS
  <2>2. \E q \in Nat : UINT_RANGE = FSM_SIZE * q + (UINT_RANGE % FSM_SIZE)
    BY <2>1, Division, Zenon
  <2> QED
    BY <2>2
<1>4. Slot(h) \in Nat
  BY DEF Slot
<1>5. CASE t <= h
  <2>1. h - t = FSM_SIZE * (a - b)
    BY <1>1, <1>2, <1>4
  <2> QED
    BY <1>5, <2>1, SmallMultiple DEF Minus
<1>6. CASE h < t
  <2>1. h - t + UINT_RANGE = FSM_SIZE * (a - b + k)
    BY <1>1, <1>2, <1>3, <1>4
  <2> QED
    BY <1>6, <2>1, SmallMultiple DEF Minus
<1> QED
  BY <1>5, <1>6
-----------------------------------------------------------------------------
(* Type correctness.  The argument of a putChipFrame call is there exactly *)
(* while it is needed, and names a chip whose frame is still held.         *)

CallOK ==
    /\ pc \in {"newframe", "store"} <=> cf # NULL
    /\ cf # NULL => holding[cf.chip] # NULL

Typed == TypeOK /\ CallOK

LEMMA ClearedType == ASSUME TypeOK, NEW s \in Slots PROVE Cleared(s) \in [Objects -> Contents \cup {Free}]
BY DEF TypeOK, Cleared, Contents

LEMMA InitTyped == ASSUME Init PROVE Typed
<1> USE DEF Init
<1>1. 0 \in Uint
  OBVIOUS
<1>2. expectCounterH \in BOOLEAN
  OBVIOUS
<1>3. /\ counters \in [Slots -> {1, 2}]
      /\ frame \in [Spots -> Objects \cup {NULL}]
      /\ heap \in [Objects -> Contents \cup {Free}]
      /\ holding \in [Chips -> Objects \cup {NULL}]
  OBVIOUS
<1>4. CallOK
  BY DEF CallOK
<1> QED
  BY <1>1, <1>2, <1>3, <1>4 DEF Typed, TypeOK

LEMMA NewChipFrameTyped ==
    ASSUME Typed, NEW c \in Chips, newChipFrame(c)
    PROVE  Typed'
<1> USE ObjectAssumption DEF Typed, newChipFrame, headVars, tailVars
<1>1. Slot(head) \in Slots
  BY SlotType DEF TypeOK
<1>2. <<Slot(head), CounterHalf, c>> \in Spots
  BY <1>1 DEF CounterHalf, Spots
<1>3. CASE takeChipFrame(c)
  BY <1>2, <1>3 DEF takeChipFrame, TypeOK, CallOK
<1>4. CASE allocateChipFrame(c)
  BY <1>4 DEF allocateChipFrame, TypeOK, CallOK, Contents
<1>5. CASE counterAssertFails
  BY <1>5 DEF counterAssertFails, TypeOK, CallOK
<1> QED
  BY <1>3, <1>4, <1>5

LEMMA PutChipFrameTyped ==
    ASSUME Typed, NEW c \in Chips, NEW id \in FrameIds, NEW omr \in OMRs, NEW x \in Payloads,
           putChipFrame(c, id, omr, x)
    PROVE  Typed'
BY ObjectAssumption DEF Typed, TypeOK, CallOK, putChipFrame, tailVars, Contents

LEMMA EndDraftTyped ==
    ASSUME Typed, dropDraft \/ publishDraft
    PROVE  /\ head' \in Uint /\ framesReceived' \in Uint /\ framesLost' \in Uint
           /\ heap' \in [Objects -> Contents \cup {Free}]
           /\ counters' \in [Slots -> {1, 2}]
           /\ cons' \in {"idle", "checked", "blocked", "advance"}
<1>1. Slot(head) \in Slots
  BY SlotType DEF Typed, TypeOK
<1>2. CASE dropDraft
  BY <1>1, <1>2, IncType, ClearedType DEF dropDraft, Typed, TypeOK
<1>3. CASE publishDraft
  BY <1>3, IncType DEF publishDraft, Notified, Typed, TypeOK
<1> QED
  BY <1>2, <1>3

LEMMA StartNewFrameTyped == ASSUME Typed, startNewFrame PROVE Typed'
BY EndDraftTyped DEF startNewFrame, tailVars, Typed, TypeOK, CallOK

LEMMA FinishFrameTyped == ASSUME Typed, finishFrame PROVE Typed'
BY EndDraftTyped DEF finishFrame, tailVars, Typed, TypeOK, CallOK

LEMMA StoreTyped == ASSUME Typed, storeChipFrame PROVE Typed'
<1> USE DEF Typed, storeChipFrame, tailVars
<1>1. cf # NULL /\ cf.chip \in Chips
  BY DEF TypeOK, CallOK
<1>2. CountersAfter \in {1, 2} /\ HalfOfFrame \in {0, 1} /\ Slot(head) \in Slots
  BY SlotType DEF CountersAfter, HalfOfFrame, TypeOK
<1>3. StorageSpot \in Spots
  BY <1>1, <1>2 DEF StorageSpot, Spots
<1>4. heap' \in [Objects -> Contents \cup {Free}]
  BY DEF DeletedFrom, TypeOK
<1> QED
  BY <1>1, <1>2, <1>3, <1>4 DEF TypeOK, CallOK

LEMMA ReaderTyped == ASSUME Typed, Reader PROVE Typed'
<1> USE ObjectAssumption DEF Typed, TypeOK, CallOK, headVars, frameVars, tailVars
<1>1. Slot(tail) \in Slots
  BY SlotType
<1>2. CASE Wait
  BY <1>2 DEF Wait, waitFindsNothing, waitBlocks, waitTimesOut
<1>3. CASE getFrameSet
  BY <1>1, <1>3 DEF getFrameSet
<1>4. ASSUME NEW p \in Returnable, releaseFrameSet(p) PROVE Typed'
  <2>1. Cleared(Slot(tail)) \in [Objects -> Contents \cup {Free}]
    BY <1>1, ClearedType
  <2> QED
    BY <1>1, <1>4, <2>1 DEF releaseFrameSet, releaseLent, releaseOldest, releaseSpurious, clearTail
<1>5. CASE advanceTail
  BY <1>5, IncType DEF advanceTail
<1> QED
  BY <1>2, <1>3, <1>4, <1>5 DEF Reader

LEMMA ResetTyped == ASSUME Typed, resetLostCount PROVE Typed'
BY DEF resetLostCount, frameVars, tailVars, Typed, TypeOK, CallOK

LEMMA StepTyped == ASSUME Typed, [Next]_vars PROVE Typed'
<1>1. CASE Producer
  BY <1>1, NewChipFrameTyped, PutChipFrameTyped, StartNewFrameTyped, StoreTyped,
     FinishFrameTyped DEF Producer
<1>2. CASE UNCHANGED vars
  BY <1>2 DEF vars, headVars, frameVars, tailVars, Typed, TypeOK, CallOK
<1> QED
  BY <1>1, <1>2, ReaderTyped, ResetTyped DEF Next

(* Every variable keeps its type for every number of chips and slots, and  *)
(* putChipFrame never loses the frame it was called with.                  *)
THEOREM TypeCorrect == Spec => []TypeOK
<1>1. Init => Typed
  BY InitTyped
<1>2. Typed /\ [Next]_vars => Typed'
  BY StepTyped
<1>3. Typed => TypeOK
  BY DEF Typed
<1> QED
  BY <1>1, <1>2, <1>3, PTL DEF Spec

-----------------------------------------------------------------------------
(* The ring.  While a slot is given back it still counts as published, and *)
(* the reader no longer holds it.                                          *)

RingInv ==
    /\ RingBounded
    /\ ReaderHoldsPublished
    /\ cons = "advance" => head # tail /\ got = NULL

ringVars == <<head, tailVars, cons>>

LEMMA RingUnchanged == ASSUME RingInv, UNCHANGED ringVars PROVE RingInv'
BY DEF RingInv, RingBounded, ReaderHoldsPublished, ringVars, tailVars

LEMMA PublishRing ==
    ASSUME Typed, RingInv, publishDraft, UNCHANGED tailVars
    PROVE  RingInv'
<1> USE DEF Typed, TypeOK, publishDraft, tailVars
<1>1. Minus(head, tail) < FSM_SIZE - 1
  BY MinusType DEF isFull, RingInv, RingBounded
<1>2. Minus(head', tail) = Minus(head, tail) + 1
  BY <1>1, MinusIncHead, MinusType
<1>3. RingBounded'
  BY <1>1, <1>2 , MinusType DEF RingBounded
<1>4. head' # tail
  BY <1>2, IncType, MinusZero, MinusType
<1> QED
  BY <1>3, <1>4 DEF RingInv, ReaderHoldsPublished, Notified

LEMMA ProducerRing == ASSUME Typed, RingInv, Producer PROVE RingInv'
<1> USE DEF ringVars, tailVars, headVars
<1>1. ASSUME NEW c \in Chips, newChipFrame(c) PROVE RingInv'
  BY <1>1, RingUnchanged DEF newChipFrame
<1>2. ASSUME NEW c \in Chips, NEW id \in FrameIds, NEW omr \in OMRs, NEW x \in Payloads,
             putChipFrame(c, id, omr, x)
      PROVE  RingInv'
  BY <1>2, RingUnchanged DEF putChipFrame
<1>3. CASE startNewFrame
  BY <1>3, RingUnchanged, PublishRing DEF startNewFrame, dropDraft
<1>4. CASE storeChipFrame
  BY <1>4, RingUnchanged DEF storeChipFrame
<1>5. CASE finishFrame
  BY <1>5, RingUnchanged, PublishRing DEF finishFrame, dropDraft
<1> QED
  BY <1>1, <1>2, <1>3, <1>4, <1>5 DEF Producer

LEMMA ReaderRing == ASSUME Typed, RingInv, Reader PROVE RingInv'
<1> USE DEF headVars, tailVars, frameVars
<1>1. CASE Wait
  BY <1>1 DEF Wait, waitFindsNothing, waitBlocks, waitTimesOut,
              RingInv, RingBounded, ReaderHoldsPublished
<1>2. CASE getFrameSet
  <2>1. Slot(tail) \in Slots /\ Slot(tail) # NULL
    BY SlotType, ObjectAssumption DEF Typed, TypeOK, Slots
  <2> QED
    BY <1>2, <2>1 DEF getFrameSet, isEmpty, RingInv, RingBounded, ReaderHoldsPublished
<1>3. ASSUME NEW p \in Returnable, releaseFrameSet(p) PROVE RingInv'
  BY <1>3 DEF releaseFrameSet, releaseLent, releaseOldest, releaseSpurious, clearTail,
              isEmpty, RingInv, RingBounded, ReaderHoldsPublished
<1>4. CASE advanceTail
  <2>1. Minus(head, tail') = Minus(head, tail) - 1
    BY <1>4, MinusIncTail DEF advanceTail, RingInv, Typed, TypeOK
  <2>2. RingBounded'
    BY <1>4, <2>1, MinusType DEF advanceTail, RingInv, RingBounded, Typed, TypeOK
  <2> QED
    BY <1>4, <2>2 DEF advanceTail, RingInv, ReaderHoldsPublished
<1> QED
  BY <1>1, <1>2, <1>3, <1>4 DEF Reader

LEMMA StepRing == ASSUME Typed, RingInv, [Next]_vars PROVE RingInv'
<1>1. CASE resetLostCount
  BY <1>1, RingUnchanged DEF resetLostCount, ringVars
<1>2. CASE UNCHANGED vars
  BY <1>2, RingUnchanged DEF vars, ringVars, headVars
<1> QED
  BY <1>1, <1>2, ProducerRing, ReaderRing DEF Next

LEMMA InitRing == ASSUME Init PROVE RingInv
BY DEF Init, RingInv, RingBounded, ReaderHoldsPublished, Minus

LEMMA RingInvariant == Spec => [](Typed /\ RingInv)
<1>1. Init => Typed /\ RingInv
  BY InitTyped, InitRing
<1>2. Typed /\ RingInv /\ [Next]_vars => (Typed /\ RingInv)'
  BY StepTyped, StepRing
<1> QED
  BY <1>1, <1>2, PTL DEF Spec

(* For every ring size and every width of the two indices, head_ never     *)
(* laps tail_: the draft has a slot of its own.                            *)
THEOREM RingStaysBounded == Spec => []RingBounded
<1>1. RingInv => RingBounded
  BY DEF RingInv
<1> QED
  BY <1>1, RingInvariant, PTL

(* The FrameSet lent to the reader stays the oldest published one until it *)
(* is returned, also when the reader returns other sets by mistake.        *)
THEOREM ReaderKeepsItsSet == Spec => []ReaderHoldsPublished
<1>1. RingInv => ReaderHoldsPublished
  BY DEF RingInv
<1> QED
  BY <1>1, RingInvariant, PTL

-----------------------------------------------------------------------------
(* Ownership of ChipFrames.                                                *)

ownVars == <<frame, heap, holding>>

LEMMA OwnerUnchanged == ASSUME OneOwner, UNCHANGED ownVars PROVE OneOwner'
BY DEF OneOwner, NoAlias, NoDangling, NoLeak, ownVars

(* Wiping the frames of a slot allocates and frees nothing. *)
LEMMA ClearedOwner ==
    ASSUME Typed, OneOwner, NEW s \in Slots,
           heap' = Cleared(s), UNCHANGED <<frame, holding>>
    PROVE  OneOwner'
<1>1. ASSUME NEW o \in Objects PROVE heap'[o] = Free <=> heap[o] = Free
  <2>1. ASSUME NEW j \in {0, 1}, NEW c \in Chips, frame[<<s, j, c>>] = o
        PROVE  heap[o] # Free
    <3>1. <<s, j, c>> \in Spots
      BY DEF Spots
    <3> QED
      BY <2>1, <3>1, ObjectAssumption DEF OneOwner, NoDangling
  <2> QED
    BY <2>1, ObjectAssumption DEF Cleared
<1>2. NoAlias'
  BY DEF OneOwner, NoAlias
<1>3. NoDangling'
  BY <1>1 DEF OneOwner, NoDangling, Typed, TypeOK
<1>4. NoLeak'
  BY <1>1 DEF OneOwner, NoLeak
<1> QED
  BY <1>2, <1>3, <1>4 DEF OneOwner

LEMMA TakeOwner ==
    ASSUME Typed, OneOwner, NEW c \in Chips, holding[c] = NULL, takeChipFrame(c)
    PROVE  OneOwner'
<1> DEFINE spot == <<Slot(head), CounterHalf, c>>
<1>1. spot \in Spots
  BY SlotType DEF CounterHalf, Spots, Typed, TypeOK
<1>2. /\ frame[spot] # NULL
      /\ frame' = [frame EXCEPT ![spot] = NULL]
      /\ holding' = [holding EXCEPT ![c] = frame[spot]]
      /\ heap' = heap
  BY DEF takeChipFrame
<1> HIDE DEF spot
<1> USE <1>1, <1>2 DEF Typed, TypeOK
<1>3. NoAlias'
  BY DEF OneOwner, NoAlias
<1>4. NoDangling'
  BY DEF OneOwner, NoDangling
<1>5. NoLeak'
  <2> SUFFICES ASSUME NEW o \in Objects, heap'[o] # Free
               PROVE  \/ \E p \in Spots : frame'[p] = o
                      \/ \E d \in Chips : holding'[d] = o
    BY DEF NoLeak
  <2>1. CASE o = frame[spot]
    BY <2>1
  <2>2. ASSUME NEW p \in Spots, frame[p] = o, o # frame[spot] PROVE frame'[p] = o
    BY <2>2
  <2>3. ASSUME NEW d \in Chips, holding[d] = o PROVE holding'[d] = o
    BY <2>3, ObjectAssumption
  <2> QED
    BY <2>1, <2>2, <2>3 DEF OneOwner, NoLeak
<1> QED
  BY <1>3, <1>4, <1>5 DEF OneOwner

LEMMA AllocateOwner ==
    ASSUME Typed, OneOwner, NEW c \in Chips, holding[c] = NULL, allocateChipFrame(c)
    PROVE  OneOwner'
<1>1. PICK n \in Objects :
        /\ heap[n] = Free
        /\ heap' = [heap EXCEPT ![n] = Garbage]
        /\ holding' = [holding EXCEPT ![c] = n]
        /\ frame' = frame
  BY DEF allocateChipFrame
<1> USE <1>1, ObjectAssumption DEF Typed, TypeOK
<1>2. NoAlias'
  BY DEF OneOwner, NoAlias, NoDangling
<1>3. NoDangling'
  BY DEF OneOwner, NoDangling
<1>4. NoLeak'
  <2> SUFFICES ASSUME NEW o \in Objects, heap'[o] # Free
               PROVE  \/ \E p \in Spots : frame'[p] = o
                      \/ \E d \in Chips : holding'[d] = o
    BY DEF NoLeak
  <2>1. CASE o = n
    BY <2>1
  <2>2. CASE o # n
    <3>1. heap[o] # Free
      BY <2>2
    <3>2. ASSUME NEW d \in Chips, holding[d] = o PROVE holding'[d] = o
      BY <3>2
    <3> QED
      BY <3>1, <3>2 DEF OneOwner, NoLeak
  <2> QED
    BY <2>1, <2>2
<1> QED
  BY <1>2, <1>3, <1>4 DEF OneOwner

LEMMA PutOwner ==
    ASSUME Typed, OneOwner, NEW c \in Chips, NEW id \in FrameIds, NEW omr \in OMRs,
           NEW x \in Payloads, putChipFrame(c, id, omr, x)
    PROVE  OneOwner'
<1>1. /\ holding[c] # NULL /\ heap' = [heap EXCEPT ![holding[c]] = x]
      /\ UNCHANGED <<frame, holding>>
  BY DEF putChipFrame
<1> USE <1>1, ObjectAssumption DEF Typed, TypeOK
<1>2. ASSUME NEW o \in Objects PROVE heap'[o] = Free <=> heap[o] = Free
  BY DEF OneOwner, NoDangling
<1> QED
  BY <1>2 DEF OneOwner, NoAlias, NoDangling, NoLeak

(* The frame moves from its assembler into the set, and the one it         *)
(* displaces, if any, is freed.                                            *)
LEMMA StoreOwner == ASSUME Typed, OneOwner, storeChipFrame PROVE OneOwner'
<1> DEFINE spot == StorageSpot
           c == cf.chip
           n == holding[cf.chip]
<1>1. c \in Chips /\ n \in Objects
  BY DEF storeChipFrame, Typed, TypeOK, CallOK
<1>2. spot \in Spots
  BY <1>1, SlotType DEF StorageSpot, HalfOfFrame, Spots, Typed, TypeOK
<1>3. /\ frame' = [frame EXCEPT ![spot] = n]
      /\ holding' = [holding EXCEPT ![c] = NULL]
      /\ \A o \in Objects : heap'[o] = IF o = frame[spot] THEN Free ELSE heap[o]
  BY DEF storeChipFrame, DeletedFrom
<1>4. holding[c] = n /\ n # NULL
  BY <1>1, ObjectAssumption
<1> HIDE DEF spot, c, n
<1> USE <1>1, <1>2, <1>3, <1>4, ObjectAssumption DEF Typed, TypeOK
<1>5. NoAlias'
  BY DEF OneOwner, NoAlias
<1>6. NoDangling'
  <2>1. ASSUME NEW p \in Spots, frame'[p] # NULL PROVE heap'[frame'[p]] # Free
    BY <2>1 DEF OneOwner, NoAlias, NoDangling
  <2>2. ASSUME NEW d \in Chips, holding'[d] # NULL PROVE heap'[holding'[d]] # Free
    BY <2>2 DEF OneOwner, NoAlias, NoDangling
  <2> QED
    BY <2>1, <2>2 DEF NoDangling
<1>7. NoLeak'
  <2> SUFFICES ASSUME NEW o \in Objects, heap'[o] # Free
               PROVE  \/ \E p \in Spots : frame'[p] = o
                      \/ \E d \in Chips : holding'[d] = o
    BY DEF NoLeak
  <2>1. heap[o] # Free /\ o # frame[spot]
    OBVIOUS
  <2>2. ASSUME NEW p \in Spots, frame[p] = o PROVE frame'[p] = o
    BY <2>1, <2>2
  <2>3. ASSUME NEW d \in Chips, holding[d] = o PROVE frame'[spot] = o \/ holding'[d] = o
    BY <2>3
  <2> QED
    BY <2>1, <2>2, <2>3 DEF OneOwner, NoLeak
<1> QED
  BY <1>5, <1>6, <1>7 DEF OneOwner

LEMMA EndDraftOwner ==
    ASSUME Typed, OneOwner, dropDraft \/ publishDraft, UNCHANGED <<frame, holding>>
    PROVE  OneOwner'
<1>1. Slot(head) \in Slots
  BY SlotType DEF Typed, TypeOK
<1>2. CASE dropDraft
  BY <1>1, <1>2, ClearedOwner DEF dropDraft
<1>3. CASE publishDraft
  BY <1>3, OwnerUnchanged DEF publishDraft, ownVars
<1> QED
  BY <1>2, <1>3

LEMMA ReleaseOwner ==
    ASSUME Typed, OneOwner, NEW p \in Returnable, releaseFrameSet(p)
    PROVE  OneOwner'
<1>1. Slot(tail) \in Slots
  BY SlotType DEF Typed, TypeOK
<1>2. UNCHANGED <<frame, holding>> /\ (clearTail \/ heap' = heap)
  BY DEF releaseFrameSet, releaseLent, releaseOldest, releaseSpurious
<1>3. CASE clearTail
  BY <1>1, <1>2, <1>3, ClearedOwner DEF clearTail
<1> QED
  BY <1>2, <1>3, OwnerUnchanged DEF ownVars

LEMMA StepOwner == ASSUME Typed, OneOwner, [Next]_vars PROVE OneOwner'
<1> USE DEF ownVars
<1>1. ASSUME NEW c \in Chips, newChipFrame(c) PROVE OneOwner'
  BY <1>1, TakeOwner, AllocateOwner, OwnerUnchanged DEF newChipFrame, counterAssertFails
<1>2. CASE startNewFrame
  BY <1>2, EndDraftOwner DEF startNewFrame
<1>3. CASE finishFrame
  BY <1>3, EndDraftOwner DEF finishFrame
<1>4. CASE Producer
  BY <1>1, <1>2, <1>3, <1>4, PutOwner, StoreOwner DEF Producer
<1>5. CASE Wait \/ getFrameSet \/ advanceTail \/ resetLostCount
  BY <1>5, OwnerUnchanged DEF Wait, waitFindsNothing, waitBlocks, waitTimesOut,
     getFrameSet, advanceTail, resetLostCount, frameVars
<1>6. CASE UNCHANGED vars
  BY <1>6, OwnerUnchanged DEF vars, frameVars
<1> QED
  BY <1>4, <1>5, <1>6, ReleaseOwner DEF Next, Reader

LEMMA InitOwner == ASSUME Init PROVE OneOwner
BY ObjectAssumption DEF Init, OneOwner, NoAlias, NoDangling, NoLeak

(* For any number of chips, slots and objects and any order of calls:      *)
(* ChipFrames are neither shared nor leaked nor used after delete, though  *)
(* newChipFrame takes them out of a set that still counts on them.         *)
THEOREM EveryFrameHasOneOwner == Spec => []OneOwner
<1>1. Init => Typed /\ OneOwner
  BY InitTyped, InitOwner
<1>2. Typed /\ OneOwner /\ [Next]_vars => (Typed /\ OneOwner)'
  BY StepTyped, StepOwner
<1> QED
  BY <1>1, <1>2, PTL DEF Spec

-----------------------------------------------------------------------------
(* The assertions of takeChipFrame and releaseFrameSet, for a reader that  *)
(* returns what it was lent and a detector whose depth does not change.    *)

OneDepth == \/ \A omr \in OMRs : omr.countL = 3
            \/ \A omr \in OMRs : omr.countL # 3

(* An expected high counter has a draft with two counters to go to, except *)
(* while putChipFrame moves on to another slot.                            *)
AssertInv ==
    /\ aborted = "no"
    /\ got # NULL => tailState = 3
    /\ expectCounterH => \A omr \in OMRs : omr.countL = 3
    /\ expectCounterH /\ pc = "idle" => counters[Slot(head)] = 2

LEMMA ProducerAsserts ==
    ASSUME Typed, AssertInv, OneDepth, Producer
    PROVE  AssertInv'
<1> USE DEF AssertInv, headVars, tailVars, frameVars
<1>1. ASSUME NEW c \in Chips, newChipFrame(c) PROVE AssertInv'
  BY <1>1 DEF newChipFrame, takeChipFrame, allocateChipFrame, counterAssertFails
<1>2. ASSUME NEW c \in Chips, NEW id \in FrameIds, NEW omr \in OMRs, NEW x \in Payloads,
             putChipFrame(c, id, omr, x)
      PROVE  AssertInv'
  BY <1>2 DEF putChipFrame
<1>3. CASE startNewFrame
  BY <1>3 DEF startNewFrame
<1>4. CASE storeChipFrame
  <2>1. cf.omr \in OMRs /\ Slot(head) \in Slots
    BY <1>4, SlotType DEF storeChipFrame, Typed, TypeOK, CallOK
  <2>2. expectCounterH' => cf.omr.countL = 3
    BY <1>4, <2>1 DEF storeChipFrame, LowCounterOf24
  <2>3. expectCounterH' => counters'[Slot(head)] = 2
    BY <1>4, <2>1, <2>2 DEF storeChipFrame, CountersAfter, Typed, TypeOK
  <2> QED
    BY <1>4, <2>1, <2>2, <2>3 DEF storeChipFrame, OneDepth
<1>5. CASE finishFrame
  BY <1>5 DEF finishFrame
<1> QED
  BY <1>1, <1>2, <1>3, <1>4, <1>5 DEF Producer

LEMMA ReaderAsserts ==
    ASSUME Typed, RingInv, AssertInv, ~ StaleReleases, Reader
    PROVE  AssertInv'
<1> USE DEF AssertInv, headVars, tailVars, frameVars
<1>1. CASE Wait \/ getFrameSet
  BY <1>1 DEF Wait, waitFindsNothing, waitBlocks, waitTimesOut, getFrameSet
<1>2. ASSUME NEW p \in Returnable, releaseFrameSet(p) PROVE AssertInv'
  <2>1. Slot(tail) \in Slots /\ Slot(head) \in Slots /\ Slot(tail) # NULL
    BY SlotType, ObjectAssumption DEF Typed, TypeOK, Slots
  <2>2. p = NULL \/ (p = got /\ got # NULL /\ got = Slot(tail) /\ head # tail)
    BY DEF Returnable, RingInv, ReaderHoldsPublished
  <2>3. CASE clearTail /\ head # tail
    <3>1. Slot(head) # Slot(tail)
      BY <2>3, SlotsDiffer DEF RingInv, RingBounded, Typed, TypeOK
    <3> QED
      BY <1>2, <2>1, <2>3, <3>1 DEF clearTail, releaseFrameSet, Typed, TypeOK
  <2>4. CASE ~ (clearTail /\ head # tail)
    BY <1>2, <2>1, <2>2, <2>4 DEF releaseFrameSet, releaseLent, releaseOldest,
       releaseSpurious, isEmpty, RingInv, ReaderHoldsPublished
  <2> QED
    BY <2>3, <2>4
<1>3. CASE advanceTail
  BY <1>3 DEF advanceTail, RingInv
<1> QED
  BY <1>1, <1>2, <1>3 DEF Reader

(* assert (! counterH || counters == 2) in takeChipFrame and               *)
(* assert (tailState == 3) in releaseFrameSet never fail, for any          *)
(* interleaving of chips and reader.                                       *)
THEOREM AssertionsNeverFail ==
    ASSUME StaleReleases = FALSE, OneDepth
    PROVE  Spec => []AssertionsHold
<1>1. Init => AssertInv
  BY DEF Init, AssertInv
<1>2. Typed /\ RingInv /\ AssertInv /\ [Next]_vars => AssertInv'
  <2> SUFFICES ASSUME Typed, RingInv, AssertInv, [Next]_vars PROVE AssertInv'
    OBVIOUS
  <2>1. CASE resetLostCount
    BY <2>1 DEF resetLostCount, AssertInv, frameVars, tailVars
  <2>2. CASE UNCHANGED vars
    BY <2>2 DEF vars, headVars, frameVars, tailVars, AssertInv
  <2> QED
    BY <2>1, <2>2, ProducerAsserts, ReaderAsserts DEF Next
<1>3. AssertInv => AssertionsHold
  BY DEF AssertInv, AssertionsHold
<1> QED
  BY <1>1, <1>2, <1>3, RingInvariant, PTL DEF Spec


-----------------------------------------------------------------------------
(* Slots: the indices modulo FSM_SIZE, of which UINT_RANGE is a multiple.  *)

(* A remainder is the only one of its size. *)
LEMMA Remainder ==
    ASSUME NEW n \in Nat \ {0}, NEW q \in Nat, NEW r \in 0 .. n - 1
    PROVE  (n * q + r) % n = r
<1> DEFINE i == n * q + r
<1>1. i \in Nat
  <2>1. n * q \in Nat
    OBVIOUS
  <2> QED
    BY <2>1
<1>2. PICK d \in Nat : i = n * d + (i % n)
  BY <1>1, Division, Zenon
<1>3. i % n \in 0 .. n - 1
  BY <1>1
<1>4. n * (q - d) = (i % n) - r /\ n * (d - q) = r - (i % n)
  BY <1>2, <1>3
<1>5. ~ (0 < n * (q - d)) /\ ~ (0 < n * (d - q))
  BY <1>3, <1>4, SmallMultiple
<1> QED
  BY <1>3, <1>4, <1>5

(* Whole laps of the ring do not change the slot. *)
LEMMA SlotOfMultiple ==
    ASSUME NEW q \in Nat, NEW r \in Slots
    PROVE  Slot(FSM_SIZE * q + r) = r
BY Remainder DEF Slot, Slots

(* Every index is some laps and a slot. *)
LEMMA Quotient == ASSUME NEW i \in Nat PROVE \E q \in Nat : i = FSM_SIZE * q + Slot(i)
<1>1. FSM_SIZE \in Nat \ {0}
  OBVIOUS
<1> QED
  BY <1>1, Division, Zenon DEF Slot

(* The slot survives the wrap-around of an index. *)
LEMMA SlotWrap == ASSUME NEW i \in Nat PROVE Slot(i + UINT_RANGE) = Slot(i)
<1>1. PICK a \in Nat : i = FSM_SIZE * a + Slot(i)
  BY Quotient
<1>2. PICK b \in Nat : UINT_RANGE = FSM_SIZE * b
  <2>1. PICK q \in Nat : UINT_RANGE = FSM_SIZE * q + Slot(UINT_RANGE)
    BY Quotient
  <2> QED
    BY <2>1 DEF Slot
<1>3. Slot(i) \in Slots
  BY SlotType
<1>4. i + UINT_RANGE = FSM_SIZE * (a + b) + Slot(i)
  BY <1>1, <1>2, <1>3 DEF Slots
<1>5. Slot(FSM_SIZE * (a + b) + Slot(i)) = Slot(i)
  <2>1. a + b \in Nat
    OBVIOUS
  <2> HIDE SizeAssumption
  <2> QED
    BY <1>3, <2>1, SlotOfMultiple
<1> QED
  BY <1>4, <1>5, Zenon

(* Indices less than a lap apart are in different slots. *)
LEMMA SlotsApart ==
    ASSUME NEW i \in Nat, NEW k \in 1 .. FSM_SIZE - 1
    PROVE  Slot(i + k) # Slot(i)
<1> SUFFICES ASSUME Slot(i + k) = Slot(i) PROVE FALSE
  OBVIOUS
<1>1. PICK a \in Nat : i = FSM_SIZE * a + Slot(i)
  BY Quotient
<1>2. PICK b \in Nat : i + k = FSM_SIZE * b + Slot(i)
  <2>1. i + k \in Nat
    OBVIOUS
  <2>2. \E q \in Nat : i + k = FSM_SIZE * q + Slot(i + k)
    BY <2>1, Quotient, Zenon
  <2> QED
    BY <2>2
<1>3. Slot(i) \in Nat
  BY DEF Slot
<1>4. k = FSM_SIZE * (b - a)
  BY <1>1, <1>2, <1>3
<1>5. FSM_SIZE \in Nat \ {0} /\ b - a \in Int
  OBVIOUS
<1>6. 0 < FSM_SIZE * (b - a) /\ FSM_SIZE * (b - a) < FSM_SIZE
  BY <1>4
<1> QED
  BY <1>5, <1>6, SmallMultiple, Zenon

(* head_++ and tail_++ move on by one slot, also across the wrap-around. *)
LEMMA SlotAfterInc ==
    ASSUME NEW i \in Uint, NEW k \in Nat
    PROVE  Slot(Inc(i) + k) = Slot(i + 1 + k)
<1>1. CASE i = UINT_RANGE - 1
  <2>1. Slot(k + UINT_RANGE) = Slot(k)
    BY SlotWrap
  <2>2. i + 1 + k = k + UINT_RANGE /\ Inc(i) + k = k
    BY <1>1 DEF Inc
  <2> QED
    BY <2>1, <2>2
<1>2. CASE i # UINT_RANGE - 1
  BY <1>2 DEF Inc
<1> QED
  BY <1>1, <1>2

(* Counted from the tail, the draft's slot comes after the published ones. *)
LEMMA HeadSlot ==
    ASSUME NEW h \in Uint, NEW t \in Uint
    PROVE  Slot(t + Minus(h, t)) = Slot(h)
<1>1. CASE t <= h
  BY <1>1 DEF Minus
<1>2. CASE h < t
  <2>1. t + Minus(h, t) = h + UINT_RANGE
    BY <1>2 DEF Minus
  <2> QED
    BY <2>1, SlotWrap
<1> QED
  BY <1>1, <1>2

-----------------------------------------------------------------------------
(* What a step leaves alone.                                              *)

(* The frames of slot s and what they hold stay as they are. *)
Untouched(s) ==
    /\ counters'[s] = counters[s]
    /\ \A j \in {0, 1}, c \in Chips :
        /\ frame'[<<s, j, c>>] = frame[<<s, j, c>>]
        /\ frame[<<s, j, c>>] # NULL => heap'[frame[<<s, j, c>>]] = heap[frame[<<s, j, c>>]]

(* A slot left alone keeps its set. *)
LEMMA UntouchedSet == ASSUME NEW s \in Slots, Untouched(s) PROVE SetIn(s)' = SetIn(s)
BY DEF Untouched, SetIn

(* The spots of a slot. *)
LEMMA SpotsOfSlot ==
    ASSUME NEW s \in Slots, NEW j \in {0, 1}, NEW c \in Chips
    PROVE  <<s, j, c>> \in Spots
BY DEF Spots

(* Wiping one slot leaves the others alone, as no two share a frame. *)
LEMMA ClearedUntouched ==
    ASSUME Typed, OneOwner, NEW r \in Slots, NEW s \in Slots, r # s,
           heap' = Cleared(r), frame' = frame, counters' = [counters EXCEPT ![r] = 1]
    PROVE  Untouched(s)
<1> SUFFICES ASSUME NEW j \in {0, 1}, NEW c \in Chips, frame[<<s, j, c>>] # NULL
             PROVE  heap'[frame[<<s, j, c>>]] = heap[frame[<<s, j, c>>]]
  BY DEF Untouched, Typed, TypeOK
<1>1. ASSUME NEW k \in {0, 1}, NEW d \in Chips PROVE frame[<<r, k, d>>] # frame[<<s, j, c>>]
  BY SpotsOfSlot DEF OneOwner, NoAlias
<1>2. frame[<<s, j, c>>] \in Objects
  BY SpotsOfSlot DEF Typed, TypeOK
<1> QED
  BY <1>1, <1>2 DEF Cleared

(* Storing a frame deletes at most what the draft held. *)
LEMMA StoreUntouched ==
    ASSUME Typed, OneOwner, storeChipFrame, NEW s \in Slots, s # Slot(head)
    PROVE  Untouched(s)
<1>1. StorageSpot \in Spots /\ Slot(head) \in Slots
  BY SlotType DEF storeChipFrame, StorageSpot, HalfOfFrame, Spots, Typed, TypeOK, CallOK
<1>2. counters'[s] = counters[s]
  BY <1>1 DEF storeChipFrame, Typed, TypeOK
<1> SUFFICES ASSUME NEW j \in {0, 1}, NEW c \in Chips
             PROVE  /\ frame'[<<s, j, c>>] = frame[<<s, j, c>>]
                    /\ frame[<<s, j, c>>] # NULL =>
                          heap'[frame[<<s, j, c>>]] = heap[frame[<<s, j, c>>]]
  BY <1>2 DEF Untouched
<1>3. <<s, j, c>> \in Spots /\ <<s, j, c>> # StorageSpot
  BY SpotsOfSlot DEF StorageSpot
<1>4. frame'[<<s, j, c>>] = frame[<<s, j, c>>]
  BY <1>3 DEF storeChipFrame, Typed, TypeOK
<1>5. frame[<<s, j, c>>] # NULL =>
          frame[<<s, j, c>>] \in Objects /\ frame[<<s, j, c>>] # frame[StorageSpot]
  BY <1>1, <1>3 DEF OneOwner, NoAlias, Typed, TypeOK
<1> QED
  BY <1>4, <1>5 DEF storeChipFrame, DeletedFrom

(* Dropping or publishing a draft leaves the other slots alone. *)
LEMMA EndDraftUntouched ==
    ASSUME Typed, OneOwner, dropDraft \/ publishDraft, frame' = frame,
           NEW s \in Slots, s # Slot(head)
    PROVE  Untouched(s)
<1>1. Slot(head) \in Slots
  BY SlotType DEF Typed, TypeOK
<1>2. CASE dropDraft
  BY <1>1, <1>2, ClearedUntouched DEF dropDraft
<1>3. CASE publishDraft
  BY <1>3 DEF publishDraft, Untouched
<1> QED
  BY <1>2, <1>3

(* The receiving thread touches the draft's slot alone. *)
LEMMA ProducerUntouched ==
    ASSUME Typed, OneOwner, Producer, NEW s \in Slots, s # Slot(head)
    PROVE  Untouched(s)
<1> USE SpotsOfSlot DEF Untouched
<1>1. Slot(head) \in Slots
  BY SlotType DEF Typed, TypeOK
<1>2. ASSUME NEW d \in Chips, newChipFrame(d) PROVE Untouched(s)
  <2>1. <<Slot(head), CounterHalf, d>> \in Spots
    BY <1>1 DEF CounterHalf
  <2>2. CASE takeChipFrame(d)
    BY <1>2, <2>1, <2>2 DEF newChipFrame, takeChipFrame, Typed, TypeOK
  <2>3. CASE allocateChipFrame(d)
    BY <1>2, <2>3 DEF newChipFrame, allocateChipFrame, OneOwner, NoDangling, Typed, TypeOK
  <2>4. CASE counterAssertFails
    BY <1>2, <2>4 DEF newChipFrame, counterAssertFails
  <2> QED
    BY <1>2, <2>2, <2>3, <2>4 DEF newChipFrame
<1>3. ASSUME NEW d \in Chips, NEW id \in FrameIds, NEW omr \in OMRs, NEW x \in Payloads,
             putChipFrame(d, id, omr, x)
      PROVE  Untouched(s)
  BY <1>3 DEF putChipFrame, OneOwner, NoAlias, Typed, TypeOK
<1>4. CASE startNewFrame
  BY <1>4, EndDraftUntouched DEF startNewFrame
<1>5. CASE storeChipFrame
  BY <1>5, StoreUntouched
<1>6. CASE finishFrame
  BY <1>6, EndDraftUntouched DEF finishFrame
<1> QED
  BY <1>2, <1>3, <1>4, <1>5, <1>6 DEF Producer

(* The reader wipes the slot it gives back and touches no other. *)
LEMMA ReaderUntouched ==
    ASSUME Typed, OneOwner, Reader, NEW s \in Slots, s # Slot(tail) \/ ~ clearTail
    PROVE  Untouched(s)
<1> USE DEF Untouched, frameVars
<1>1. Slot(tail) \in Slots
  BY SlotType DEF Typed, TypeOK
<1>2. CASE Wait \/ getFrameSet \/ advanceTail
  BY <1>2 DEF Wait, waitFindsNothing, waitBlocks, waitTimesOut, getFrameSet, advanceTail
<1>3. ASSUME NEW p \in Returnable, releaseFrameSet(p) PROVE Untouched(s)
  <2>1. CASE clearTail
    BY <1>1, <1>3, <2>1, ClearedUntouched DEF releaseFrameSet, clearTail
  <2>2. CASE ~ clearTail
    BY <1>3, <2>2 DEF releaseFrameSet, releaseLent, releaseOldest, releaseSpurious
  <2> QED
    BY <2>1, <2>2
<1> QED
  BY <1>2, <1>3 DEF Reader

-----------------------------------------------------------------------------
(* The queue.                                                              *)

FrameSets == [{0, 1} \X Chips -> Contents \cup {NULL}]

(* What a slot holds is a frame set. *)
LEMMA SetType == ASSUME Typed, OneOwner, NEW s \in Slots PROVE SetIn(s) \in FrameSets
<1> SUFFICES ASSUME NEW j \in {0, 1}, NEW c \in Chips, frame[<<s, j, c>>] # NULL
             PROVE  heap[frame[<<s, j, c>>]] \in Contents
  BY DEF SetIn, FrameSets
<1> QED
  BY SpotsOfSlot DEF OneOwner, NoDangling, Typed, TypeOK

Ring == Typed /\ RingInv /\ OneOwner

(* Where the queue begins and how long it is. *)
LEMMA QueueShape ==
    ASSUME Ring
    PROVE  /\ QueueLength \in 0 .. FSM_SIZE - 1
           /\ QueueStart \in Nat
           /\ QueueStart + QueueLength = tail + Minus(head, tail)
           /\ cons # "advance" => QueueStart = tail /\ QueueLength = Minus(head, tail)
           /\ cons = "advance" => QueueStart = tail + 1 /\ QueueLength = Minus(head, tail) - 1
<1>1. Minus(head, tail) \in 0 .. FSM_SIZE - 1
  BY MinusType DEF Ring, RingInv, RingBounded, Typed, TypeOK
<1>2. cons = "advance" => Minus(head, tail) # 0
  BY MinusZero DEF Ring, RingInv, Typed, TypeOK
<1> QED
  BY <1>1, <1>2 DEF QueueLength, QueueStart, Ring, Typed, TypeOK

(* A queued set is in a slot of its own, neither the draft's nor the one   *)
(* being given back.                                                       *)
LEMMA QueuedSlots ==
    ASSUME Ring, NEW i \in 1 .. QueueLength
    PROVE  /\ QueuedSlot(i) \in Slots
           /\ QueuedSlot(i) # Slot(head)
           /\ i > 1 \/ cons = "advance" => QueuedSlot(i) # Slot(tail)
<1> DEFINE a == QueueStart + i - 1
           k == QueueLength + 1 - i
           m == a - tail
<1>1. head \in Uint /\ tail \in Uint
  BY DEF Ring, Typed, TypeOK
<1>2. a \in Nat /\ k \in 1 .. FSM_SIZE - 1 /\ a + k = tail + Minus(head, tail)
  BY QueueShape
<1>3. QueuedSlot(i) = Slot(a)
  BY DEF QueuedSlot
<1>4. i > 1 \/ cons = "advance" => m \in 1 .. FSM_SIZE - 1 /\ a = tail + m
  BY <1>1, QueueShape
<1> HIDE DEF a, k, m
<1>5. Slot(a + k) = Slot(head)
  BY <1>1, <1>2, HeadSlot
<1>6. Slot(a + k) # Slot(a)
  BY <1>2, SlotsApart
<1>7. m \in 1 .. FSM_SIZE - 1 => Slot(tail + m) # Slot(tail)
  <2>1. tail \in Nat
    BY <1>1
  <2> QED
    BY <2>1, SlotsApart, Zenon
<1> QED
  BY <1>2, <1>3, <1>4, <1>5, <1>6, <1>7, SlotType

(* The queue is a sequence of frame sets. *)
LEMMA QueueSeq ==
    ASSUME Ring
    PROVE  /\ QueueOfSets \in Seq(FrameSets)
           /\ Len(QueueOfSets) = QueueLength
           /\ \A i \in 1 .. QueueLength : QueueOfSets[i] = SetIn(QueuedSlot(i))
<1>1. QueueLength \in Nat
  BY QueueShape
<1>2. \A i \in 1 .. QueueLength : SetIn(QueuedSlot(i)) \in FrameSets
  BY QueuedSlots, SetType DEF Ring
<1> HIDE DEF Ring
<1> QED
  BY <1>1, <1>2 DEF QueueOfSets

(* The queue before and after a step, from its length and its sets. *)
LEMMA SameQueue ==
    ASSUME QueueLength' = QueueLength,
           \A i \in 1 .. QueueLength : SetIn(QueuedSlot(i))' = SetIn(QueuedSlot(i))
    PROVE  QueueOfSets' = QueueOfSets
BY DEF QueueOfSets

(* A set more, at the end. *)
LEMMA LongerQueue ==
    ASSUME Ring, QueueLength' = QueueLength + 1,
           \A i \in 1 .. QueueLength : SetIn(QueuedSlot(i))' = SetIn(QueuedSlot(i)),
           \A i \in 1 .. QueueLength' : i = QueueLength' =>
               SetIn(QueuedSlot(i))' \in FrameSets
    PROVE  /\ Len(QueueOfSets') = Len(QueueOfSets) + 1
           /\ SubSeq(QueueOfSets', 1, Len(QueueOfSets)) = QueueOfSets
           /\ QueueOfSets'[Len(QueueOfSets) + 1] \in FrameSets
<1> DEFINE q == QueueOfSets
           r == QueueOfSets'
<1>1. /\ q \in Seq(FrameSets) /\ Len(q) = QueueLength
      /\ \A i \in 1 .. Len(q) : q[i] = SetIn(QueuedSlot(i))
  BY QueueSeq
<1>2. /\ r \in Seq(FrameSets) /\ Len(r) = QueueLength'
      /\ \A i \in 1 .. Len(r) : r[i] = SetIn(QueuedSlot(i))'
  <2>1. QueueLength' \in Nat
    BY QueueShape
  <2>2. \A i \in 1 .. QueueLength' : SetIn(QueuedSlot(i))' \in FrameSets
    BY QueueShape, QueuedSlots, SetType DEF Ring
  <2> QED
    BY <2>1, <2>2 DEF QueueOfSets
<1>3. Len(q) \in Nat /\ Len(r) = Len(q) + 1 /\ \A i \in 1 .. Len(q) : r[i] = q[i]
  BY <1>1, <1>2, QueueShape
<1> HIDE DEF q, r
<1>4. \A i \in 1 .. Len(r) : r[i] \in FrameSets
  BY <1>2, ElementOfSeq
<1>5. /\ SubSeq(r, 1, Len(q)) \in Seq(FrameSets)
      /\ Len(SubSeq(r, 1, Len(q))) = Len(q)
      /\ \A i \in 1 .. Len(q) : SubSeq(r, 1, Len(q))[i] = r[i]
  BY <1>3, <1>4, SubSeqProperties
<1>6. SubSeq(r, 1, Len(q)) = q
  BY <1>1, <1>3, <1>5, SeqEqual
<1> QED
  BY <1>3, <1>4, <1>6 DEF q, r

(* A set less, at the front. *)
LEMMA ShorterQueue ==
    ASSUME Ring, QueueLength # 0, QueueLength' = QueueLength - 1,
           \A i \in 1 .. QueueLength' : SetIn(QueuedSlot(i))' = SetIn(QueuedSlot(i + 1))
    PROVE  QueueOfSets # <<>> /\ QueueOfSets' = Tail(QueueOfSets)
<1> DEFINE q == QueueOfSets
           r == QueueOfSets'
<1>1. /\ q \in Seq(FrameSets) /\ Len(q) = QueueLength
      /\ \A i \in 1 .. Len(q) : q[i] = SetIn(QueuedSlot(i))
  BY QueueSeq
<1>2. /\ r \in Seq(FrameSets) /\ Len(r) = QueueLength'
      /\ \A i \in 1 .. Len(r) : r[i] = SetIn(QueuedSlot(i))'
  <2>1. QueueLength' \in Nat
    BY QueueShape
  <2>2. \A i \in 1 .. QueueLength' : SetIn(QueuedSlot(i))' \in FrameSets
    BY QueueShape, QueuedSlots, SetType DEF Ring
  <2> QED
    BY <2>1, <2>2 DEF QueueOfSets
<1>3. Len(q) \in Nat \ {0} /\ Len(r) = Len(q) - 1 /\ \A i \in 1 .. Len(r) : r[i] = q[i + 1]
  BY <1>1, <1>2, QueueShape
<1> HIDE DEF q, r
<1>4. q # <<>>
  BY <1>3, EmptySeq
<1>5. /\ Tail(q) \in Seq(FrameSets) /\ Len(Tail(q)) = Len(q) - 1
      /\ \A i \in 1 .. Len(Tail(q)) : Tail(q)[i] = q[i + 1]
  BY <1>1, <1>4, HeadTailProperties
<1>6. r = Tail(q)
  BY <1>2, <1>3, <1>5, SeqEqual
<1> QED
  BY <1>4, <1>6 DEF q, r
-----------------------------------------------------------------------------
(* Each step of the FrameSetManager is a step of the queue or none.        *)

(* Unless a set is given back, the queued ones stay as they are. *)
LEMMA KeptSets ==
    ASSUME Ring, UNCHANGED <<tail, cons>>,
           Producer \/ (Reader /\ ~ clearTail) \/ UNCHANGED frameVars,
           NEW i \in 1 .. QueueLength
    PROVE  SetIn(QueuedSlot(i))' = SetIn(QueuedSlot(i))
<1>1. QueuedSlot(i) \in Slots /\ QueuedSlot(i) # Slot(head) /\ QueuedSlot(i)' = QueuedSlot(i)
  BY QueuedSlots DEF QueuedSlot, QueueStart
<1> DEFINE s == QueuedSlot(i)
<1>2. Untouched(s)
  BY <1>1, ProducerUntouched, ReaderUntouched DEF Ring, Untouched, frameVars
<1>3. \A r \in Slots : Untouched(r) => SetIn(r)' = SetIn(r)
  BY UntouchedSet
<1> QED
  BY <1>1, <1>2, <1>3 DEF SetIn

(* The ring's distance is the number of slots FrameQueue counts. *)
LEMMA UsedSlots == ASSUME Ring PROVE Queue!SlotsUsed = Minus(head, tail)
<1>1. ReaderHas = "returning" <=> cons = "advance"
  BY DEF ReaderHas
<1>2. QueueLength = Minus(head, tail) - (IF cons = "advance" THEN 1 ELSE 0)
  BY DEF QueueLength
<1>3. Minus(head, tail) \in Nat
  BY MinusType DEF Ring, Typed, TypeOK
<1> QED
  BY <1>1, <1>2, <1>3, QueueSeq DEF Queue!SlotsUsed

(* What the queue does not see. *)
LEMMA Stutter ==
    ASSUME QueueOfSets' = QueueOfSets,
           UNCHANGED <<cons, got, framesReceived, framesLost>>
    PROVE  UNCHANGED Queue!vars
BY DEF Queue!vars, ReaderHas

(* head_++ appends the draft. *)
LEMMA PublishStep ==
    ASSUME Ring, publishDraft, UNCHANGED <<frame, tailVars>>
    PROVE  Queue!Publish
<1>0. Minus(head, tail) \in Nat
  BY MinusType DEF Ring, Typed, TypeOK
<1> USE DEF publishDraft, tailVars
<1>1. Minus(head, tail) < FSM_SIZE - 1
  BY <1>0 DEF isFull, Ring, RingInv, RingBounded
<1>2. Minus(head', tail') = Minus(head, tail) + 1
  BY <1>1, MinusIncHead, MinusType DEF Ring, Typed, TypeOK
<1>3. cons' = "advance" <=> cons = "advance"
  BY DEF Notified
<1>4. QueueLength' = QueueLength + 1 /\ QueueStart' = QueueStart
  BY <1>0, <1>2, <1>3 DEF QueueLength, QueueStart
<1>5. ASSUME NEW i \in 1 .. QueueLength PROVE SetIn(QueuedSlot(i))' = SetIn(QueuedSlot(i))
  BY <1>4 DEF SetIn, QueuedSlot
<1>6. ASSUME NEW i \in 1 .. QueueLength', i = QueueLength'
      PROVE  SetIn(QueuedSlot(i))' \in FrameSets
  <2>1. QueueStart + i - 1 = tail + Minus(head, tail)
    BY <1>4, <1>6, QueueShape
  <2>2. QueuedSlot(i)' = Slot(head) /\ Slot(head) \in Slots
    BY <1>4, <2>1, HeadSlot, SlotType DEF QueuedSlot, Ring, Typed, TypeOK
  <2>3. SetIn(QueuedSlot(i))' = SetIn(Slot(head))
    BY <2>2 DEF SetIn
  <2> QED
    BY <2>2, <2>3, SetType DEF Ring
<1>7. /\ Len(QueueOfSets') = Len(QueueOfSets) + 1
      /\ SubSeq(QueueOfSets', 1, Len(QueueOfSets)) = QueueOfSets
      /\ QueueOfSets'[Len(QueueOfSets) + 1] \in FrameSets
  BY <1>4, <1>5, <1>6, LongerQueue
<1>8. ReaderHas' = ReaderHas
  BY <1>3 DEF ReaderHas
<1> QED
  BY <1>1, <1>7, <1>8, UsedSlots DEF Queue!Publish, Queue!Count, Inc, FrameSets

(* A draft dropped on a full ring is a loss. *)
LEMMA DiscardStep ==
    ASSUME Ring, dropDraft, UNCHANGED <<frame, tailVars>>, Producer
    PROVE  Queue!Discard
<1> USE DEF dropDraft, tailVars
<1>1. Minus(head, tail) = FSM_SIZE - 1
  BY DEF isFull
<1>2. QueueLength' = QueueLength
  BY DEF QueueLength
<1>3. \A i \in 1 .. QueueLength : SetIn(QueuedSlot(i))' = SetIn(QueuedSlot(i))
  BY KeptSets
<1>4. QueueOfSets' = QueueOfSets
  BY <1>2, <1>3, SameQueue
<1> QED
  BY <1>1, <1>4, UsedSlots DEF Queue!Discard, Queue!Count, Inc, ReaderHas

(* The receiving thread publishes, discards, or does nothing the queue shows. *)
LEMMA ProducerStep == ASSUME Ring, Producer PROVE [Queue!Next]_(Queue!vars)
<1> USE DEF headVars, tailVars
<1>1. CASE startNewFrame \/ finishFrame
  <2>1. (dropDraft \/ publishDraft) /\ UNCHANGED <<frame, tailVars>>
    BY <1>1 DEF startNewFrame, finishFrame
  <2> QED
    BY <2>1, PublishStep, DiscardStep DEF Queue!Next
<1>2. ASSUME UNCHANGED <<head, tail, cons, got, framesReceived, framesLost>>
      PROVE  UNCHANGED Queue!vars
  <2>1. QueueLength' = QueueLength
    BY <1>2 DEF QueueLength
  <2>2. \A i \in 1 .. QueueLength : SetIn(QueuedSlot(i))' = SetIn(QueuedSlot(i))
    BY <1>2, KeptSets
  <2> QED
    BY <1>2, <2>1, <2>2, SameQueue, Stutter
<1>3. CASE \E c \in Chips : newChipFrame(c)
  BY <1>2, <1>3 DEF newChipFrame
<1>4. CASE \E c \in Chips, id \in FrameIds, omr \in OMRs, x \in Payloads :
               putChipFrame(c, id, omr, x)
  BY <1>2, <1>4 DEF putChipFrame
<1>5. CASE storeChipFrame
  BY <1>2, <1>5 DEF storeChipFrame
<1> QED
  BY <1>1, <1>3, <1>4, <1>5 DEF Producer

(* wait and a spurious release change nothing the queue shows. *)
LEMMA QuietReader ==
    ASSUME Ring, Reader, ~ clearTail, cons # "advance", cons' # "advance",
           UNCHANGED <<head, tail, got, framesReceived, framesLost>>
    PROVE  UNCHANGED Queue!vars
<1>1. QueueLength' = QueueLength /\ QueueStart' = QueueStart
  BY DEF QueueLength, QueueStart
<1>2. ASSUME NEW i \in 1 .. QueueLength PROVE SetIn(QueuedSlot(i))' = SetIn(QueuedSlot(i))
  <2>1. QueuedSlot(i) \in Slots /\ QueuedSlot(i)' = QueuedSlot(i)
    BY <1>1, QueuedSlots DEF QueuedSlot
  <2>2. Untouched(QueuedSlot(i))
    BY <2>1, ReaderUntouched DEF Ring
  <2> QED
    BY <2>1, <2>2, UntouchedSet DEF SetIn
<1>3. QueueOfSets' = QueueOfSets
  BY <1>1, <1>2, SameQueue
<1> QED
  BY <1>3 DEF ReaderHas, Queue!vars

(* clear() on the oldest set takes it out of the queue. *)
LEMMA ReturnStep ==
    ASSUME Ring, NEW p \in Returnable, releaseFrameSet(p), clearTail, head # tail
    PROVE  Queue!Return
<1>1. QueueLength # 0 /\ QueueLength' = QueueLength - 1 /\ QueueStart' = QueueStart + 1
  <2>1. tail \in Uint /\ Minus(head, tail) \in Nat \ {0}
    BY MinusZero, MinusType DEF Ring, Typed, TypeOK
  <2>2. cons = "idle" /\ cons' = "advance" /\ UNCHANGED <<head, tail>>
    BY DEF releaseFrameSet, clearTail, headVars
  <2> QED
    BY <2>1, <2>2 DEF QueueLength, QueueStart
<1> USE DEF releaseFrameSet, clearTail, headVars
<1>2. ASSUME NEW i \in 1 .. QueueLength'
      PROVE  SetIn(QueuedSlot(i))' = SetIn(QueuedSlot(i + 1))
  <2>1. i + 1 \in 1 .. QueueLength /\ i + 1 > 1
    BY <1>1, QueueShape
  <2>2. QueuedSlot(i + 1) \in Slots /\ QueuedSlot(i + 1) # Slot(tail)
    BY <2>1, QueuedSlots
  <2>3. QueuedSlot(i)' = QueuedSlot(i + 1)
    BY <1>1, QueueShape DEF QueuedSlot
  <2>4. Untouched(QueuedSlot(i + 1))
    BY <2>2, ReaderUntouched DEF Reader, Ring
  <2> QED
    BY <2>2, <2>3, <2>4, UntouchedSet DEF SetIn
<1>3. QueueOfSets # <<>> /\ QueueOfSets' = Tail(QueueOfSets)
  BY <1>1, <1>2, ShorterQueue
<1> QED
  BY <1>3 DEF Queue!Return, ReaderHas

(* tail_++ frees the slot. *)
LEMMA ReturnedStep == ASSUME Ring, advanceTail PROVE Queue!Returned
<1> USE DEF advanceTail, headVars, frameVars
<1>1. head # tail /\ got = NULL
  BY DEF Ring, RingInv
<1>2. Minus(head', tail') = Minus(head, tail) - 1
  BY <1>1, MinusIncTail DEF Ring, Typed, TypeOK
<1>3. QueueLength' = QueueLength
  BY <1>2, MinusType DEF QueueLength, Ring, Typed, TypeOK
<1>4. ASSUME NEW i \in 1 .. QueueLength PROVE SetIn(QueuedSlot(i))' = SetIn(QueuedSlot(i))
  <2>1. i - 1 \in Nat /\ tail \in Uint
    BY <1>4, QueueShape DEF Ring, Typed, TypeOK
  <2>2. Slot(Inc(tail) + (i - 1)) = Slot(tail + 1 + (i - 1))
    BY <2>1, SlotAfterInc
  <2>3. QueueStart' = Inc(tail) /\ QueueStart = tail + 1 /\ Inc(tail) \in Nat
    BY <2>1, IncType DEF QueueStart
  <2>4. QueuedSlot(i)' = QueuedSlot(i)
    <3>1. QueueStart' + i - 1 = Inc(tail) + (i - 1) /\ QueueStart + i - 1 = tail + 1 + (i - 1)
      BY <2>1, <2>3
    <3> QED
      BY <2>2, <3>1 DEF QueuedSlot
  <2> QED
    BY <2>4 DEF SetIn
<1>5. QueueOfSets' = QueueOfSets
  BY <1>3, <1>4, SameQueue
<1> QED
  BY <1>1, <1>5 DEF Queue!Returned, ReaderHas

(* The client borrows, returns, or does nothing the queue shows. *)
LEMMA ReaderStep == ASSUME Ring, Reader PROVE [Queue!Next]_(Queue!vars)
<1> USE DEF headVars, frameVars, tailVars
<1>1. CASE Wait
  <2>1. ~ clearTail
    BY <1>1 DEF Wait, waitFindsNothing, waitBlocks, waitTimesOut, clearTail
  <2> QED
    BY <1>1, <2>1, QuietReader DEF Wait, waitFindsNothing, waitBlocks, waitTimesOut
<1>2. CASE getFrameSet
  <2>1. QueueLength # 0 /\ cons # "advance"
    BY <1>2, MinusZero DEF getFrameSet, isEmpty, QueueLength, Ring, Typed, TypeOK
  <2>2. QueueOfSets # <<>>
    BY <2>1, QueueSeq, EmptySeq
  <2>3. QueueOfSets' = QueueOfSets
    BY <1>2 DEF getFrameSet, QueueOfSets, QueueLength, QueuedSlot, QueueStart, SetIn
  <2>4. ReaderHas # "returning" /\ ReaderHas' = "lent"
    <3>1. Slot(tail) # NULL
      BY SlotType, ObjectAssumption DEF Slots, Ring, Typed, TypeOK
    <3> QED
      BY <1>2, <2>1, <3>1 DEF getFrameSet, ReaderHas
  <2> QED
    BY <1>2, <2>2, <2>3, <2>4 DEF getFrameSet, Queue!Lend, Queue!Next
<1>3. ASSUME NEW p \in Returnable, releaseFrameSet(p) PROVE [Queue!Next]_(Queue!vars)
  <2>1. CASE clearTail
    <3>1. head # tail
      BY <1>3, <2>1, SlotType, ObjectAssumption DEF releaseFrameSet, releaseLent, releaseOldest,
         releaseSpurious, clearTail, isEmpty, Ring, RingInv, ReaderHoldsPublished, Typed, TypeOK
    <3> QED
      BY <1>3, <2>1, <3>1, ReturnStep DEF Queue!Next
  <2>2. CASE ~ clearTail
    BY <1>3, <2>2, QuietReader DEF releaseFrameSet, releaseLent, releaseOldest, releaseSpurious,
       Reader
  <2> QED
    BY <2>1, <2>2
<1>4. CASE advanceTail
  BY <1>4, ReturnedStep DEF Queue!Next
<1> QED
  BY <1>1, <1>2, <1>3, <1>4 DEF Reader

(* Resetting the lost count. *)
LEMMA ResetStep == ASSUME Ring, resetLostCount PROVE [Queue!Next]_(Queue!vars)
<1> USE DEF resetLostCount, frameVars, tailVars
<1>1. QueueOfSets' = QueueOfSets /\ ReaderHas' = ReaderHas
  BY DEF QueueOfSets, QueueLength, QueuedSlot, QueueStart, SetIn, ReaderHas
<1> QED
  BY <1>1 DEF Queue!ResetLost, Queue!Next, Queue!vars

(* An empty ring is an empty queue. *)
LEMMA QueueInit == ASSUME Init PROVE Queue!Init
<1>1. QueueLength = 0 /\ ReaderHas = "none"
  BY ObjectAssumption DEF Init, QueueLength, ReaderHas, Minus
<1>2. QueueOfSets = <<>>
  BY <1>1 DEF QueueOfSets
<1> QED
  BY <1>1, <1>2 DEF Init, Queue!Init

(* The FrameSetManager implements the bounded queue: whatever the chips,   *)
(* the reader and the ring's size, published sets reach the reader in      *)
(* order and unchanged, and sets that end are counted once.                *)
THEOREM ManagerImplementsQueue == Spec => ImplementsQueue
<1>1. Init => Queue!Init
  BY QueueInit
<1>2. Ring /\ [Next]_vars => [Queue!Next]_(Queue!vars)
  <2> SUFFICES ASSUME Ring, [Next]_vars PROVE [Queue!Next]_(Queue!vars)
    OBVIOUS
  <2>1. CASE UNCHANGED vars
    BY <2>1 DEF vars, headVars, frameVars, tailVars, QueueOfSets, QueueLength, QueuedSlot,
                QueueStart, SetIn, ReaderHas, Queue!vars
  <2> QED
    BY <2>1, ProducerStep, ReaderStep, ResetStep DEF Next
<1>3. Spec => []Ring
  BY RingInvariant, EveryFrameHasOneOwner, PTL DEF Ring
<1> QED
  BY <1>1, <1>2, <1>3, PTL DEF Spec, ImplementsQueue, Queue!Spec
-----------------------------------------------------------------------------
(* Recycled slots.                                                         *)

(* Products of a sum, for PublishedFromTail. *)
LEMMA Distribute ==
    ASSUME NEW n \in Nat, NEW a \in Nat, NEW b \in Nat, NEW c \in Nat
    PROVE  /\ n * (a + c - b - 1) = n * a + n * c - n * b - n
           /\ n * (b + 1 - a - c) = n * b + n - n * a - n * c
OBVIOUS

(* The published slots, counted from the tail. *)
LEMMA PublishedFromTail ==
    ASSUME NEW h \in Uint, NEW t \in Uint, NEW s \in Slots, Minus(h, t) <= FSM_SIZE - 1
    PROVE  (s + FSM_SIZE - Slot(t)) % FSM_SIZE < Minus(h, t)
               <=> \E k \in 0 .. Minus(h, t) - 1 : s = Slot(t + k)
<1> DEFINE e == s + FSM_SIZE - Slot(t)
           d == Slot(e)
<1>1. Slot(t) \in 0 .. FSM_SIZE - 1 /\ s \in 0 .. FSM_SIZE - 1 /\ Minus(h, t) \in Nat
  BY SlotType, MinusType DEF Slots
<1>2. e \in Nat /\ d \in 0 .. FSM_SIZE - 1
  BY <1>1, SlotType DEF Slots
<1>3. s = Slot(t + d)
  <2> HIDE DEF d
  <2>1. PICK b \in Nat : t = FSM_SIZE * b + Slot(t)
    BY SlotQuotient, Zenon
  <2>2. PICK c \in Nat : e = FSM_SIZE * c + d
    <3> HIDE DEF e
    <3> QED
      BY <1>2, Quotient, Zenon DEF d
  <2>3. Slot(t + d) \in 0 .. FSM_SIZE - 1 /\ t + d \in Nat
    BY <1>2, SlotType DEF Slots
  <2>4. PICK a \in Nat : t + d = FSM_SIZE * a + Slot(t + d)
    BY <2>3, Quotient, Zenon
  <2> DEFINE r == Slot(t + d)
             A == FSM_SIZE * a
             B == FSM_SIZE * b
             C == FSM_SIZE * c
  <2>5. A \in Int /\ B \in Int /\ C \in Int
    OBVIOUS
  <2>6. /\ FSM_SIZE * (a + c - b - 1) = A + C - B - FSM_SIZE
        /\ FSM_SIZE * (b + 1 - a - c) = B + FSM_SIZE - A - C
    BY Distribute
  <2>7. /\ ~ (0 < FSM_SIZE * (a + c - b - 1) /\ FSM_SIZE * (a + c - b - 1) < FSM_SIZE)
        /\ ~ (0 < FSM_SIZE * (b + 1 - a - c) /\ FSM_SIZE * (b + 1 - a - c) < FSM_SIZE)
    <3>1. FSM_SIZE \in Nat \ {0} /\ a + c - b - 1 \in Int /\ b + 1 - a - c \in Int
      OBVIOUS
    <3> QED
      BY <3>1, SmallMultiple, Zenon
  <2> HIDE DEF A, B, C, r
  <2>8. A + C - B - FSM_SIZE = s - r /\ r \in 0 .. FSM_SIZE - 1
    <3>1. t = B + Slot(t) /\ s + FSM_SIZE - Slot(t) = C + d /\ t + d = A + r
      BY <2>1, <2>2, <2>4, Zenon DEF A, B, C, r, e
    <3>2. r \in 0 .. FSM_SIZE - 1
      BY <2>3 DEF r
    <3> QED
      BY <1>1, <1>2, <2>5, <3>1, <3>2
  <2>9. s = r
    BY <1>1, <2>5, <2>6, <2>7, <2>8
  <2> QED
    BY <2>9 DEF r
<1> HIDE DEF d, e
<1>4. ASSUME NEW k \in 0 .. Minus(h, t) - 1, s = Slot(t + k) PROVE k = d
  <2>1. k \in 0 .. FSM_SIZE - 1 /\ t \in Nat
    BY <1>1
  <2>2. CASE k < d
    <3>1. t + k \in Nat /\ d - k \in 1 .. FSM_SIZE - 1 /\ (t + k) + (d - k) = t + d
      BY <1>2, <2>1, <2>2
    <3> QED
      BY <1>3, <1>4, <3>1, SlotsApart
  <2>3. CASE d < k
    <3>1. t + d \in Nat /\ k - d \in 1 .. FSM_SIZE - 1 /\ (t + d) + (k - d) = t + k
      BY <1>2, <2>1, <2>3
    <3> QED
      BY <1>3, <1>4, <3>1, SlotsApart
  <2> QED
    BY <1>2, <2>1, <2>2, <2>3
<1>5. (s + FSM_SIZE - Slot(t)) % FSM_SIZE = d
  BY DEF d, e, Slot
<1>6. d < Minus(h, t) <=> \E k \in 0 .. Minus(h, t) - 1 : s = Slot(t + k)
  BY <1>1, <1>2, <1>3, <1>4
<1> QED
  BY <1>5, <1>6

(* Publishing adds the draft's slot. *)
LEMMA PublishedGrows ==
    ASSUME Ring, publishDraft, tail' = tail
    PROVE  Published' = Published \cup {Slot(head)}
<1> DEFINE m == Minus(head, tail)
<1>1. head \in Uint /\ tail \in Uint /\ head' \in Uint /\ m \in Nat /\ m < FSM_SIZE - 1
  BY IncType, MinusType DEF publishDraft, isFull, Ring, RingInv, RingBounded, Typed, TypeOK
<1>2. Minus(head', tail) = m + 1
  BY <1>1, MinusIncHead DEF publishDraft
<1>3. Slot(tail + m) = Slot(head) /\ Slot(head) \in Slots
  BY <1>1, HeadSlot, SlotType
<1> HIDE DEF m
<1>4. ASSUME NEW s \in Slots PROVE s \in Published <=> \E k \in 0 .. m - 1 : s = Slot(tail + k)
  BY <1>1, PublishedFromTail DEF Published, m
<1>5. ASSUME NEW s \in Slots PROVE s \in Published' <=> \E k \in 0 .. m : s = Slot(tail + k)
  <2>1. Minus(head', tail) <= FSM_SIZE - 1
    BY <1>1, <1>2
  <2>2. (s + FSM_SIZE - Slot(tail)) % FSM_SIZE < Minus(head', tail)
            <=> \E k \in 0 .. Minus(head', tail) - 1 : s = Slot(tail + k)
    BY <1>1, <2>1, PublishedFromTail
  <2>3. s \in Published' <=> (s + FSM_SIZE - Slot(tail)) % FSM_SIZE < Minus(head', tail)
    BY DEF Published
  <2> QED
    BY <1>1, <1>2, <2>2, <2>3
<1>6. \A k \in 0 .. m : k = m \/ k \in 0 .. m - 1
  BY <1>1
<1>7. Published \subseteq Slots /\ Published' \subseteq Slots
  BY DEF Published
<1>8. ASSUME NEW s \in Slots PROVE s \in Published' <=> s \in Published \/ s = Slot(head)
  <2>1. m \in 0 .. m /\ 0 .. m - 1 \subseteq 0 .. m
    BY <1>1
  <2> QED
    BY <1>3, <1>4, <1>5, <1>6, <2>1
<1> QED
  BY <1>3, <1>7, <1>8

(* Advancing tail_ takes away the tail's slot alone. *)
LEMMA PublishedShrinks ==
    ASSUME Ring, advanceTail, NEW s \in Published, s # Slot(tail)
    PROVE  s \in Published'
<1> DEFINE m == Minus(head, tail)
<1>1. /\ head \in Uint /\ tail \in Uint /\ tail' = Inc(tail) /\ tail' \in Uint /\ head' = head
      /\ head # tail /\ m \in Nat /\ m <= FSM_SIZE - 1
  BY IncType, MinusType DEF advanceTail, headVars, Ring, RingInv, RingBounded, Typed, TypeOK
<1>2. Minus(head, tail') = m - 1
  BY <1>1, MinusIncTail
<1> HIDE DEF m
<1>3. s \in Slots
  BY DEF Published
<1>4. PICK k \in 0 .. m - 1 : s = Slot(tail + k)
  BY <1>1, <1>3, PublishedFromTail DEF Published, m
<1>5. k # 0
  BY <1>1, <1>4
<1>6. k - 1 \in 0 .. m - 2 /\ s = Slot(tail' + (k - 1))
  <2>1. k - 1 \in Nat /\ tail + 1 + (k - 1) = tail + k
    BY <1>1, <1>4, <1>5
  <2> QED
    BY <1>1, <1>4, <2>1, SlotAfterInc
<1>7. Minus(head, tail') <= FSM_SIZE - 1 /\ k - 1 \in 0 .. Minus(head, tail') - 1
  BY <1>1, <1>2, <1>6
<1>8. (s + FSM_SIZE - Slot(tail')) % FSM_SIZE < Minus(head, tail')
  BY <1>1, <1>3, <1>6, <1>7, PublishedFromTail
<1> QED
  BY <1>1, <1>3, <1>8 DEF Published

(* A clean slot left alone stays clean. *)
LEMMA UntouchedClean == ASSUME NEW s \in Slots, Clean(s), Untouched(s) PROVE Clean(s)'
BY DEF Clean, Untouched

(* clear() makes a slot clean. *)
LEMMA ClearedClean ==
    ASSUME Typed, NEW s \in Slots,
           heap' = Cleared(s), frame' = frame, counters' = [counters EXCEPT ![s] = 1]
    PROVE  Clean(s)'
BY SpotsOfSlot DEF Clean, Cleared, Typed, TypeOK

(* The slot being given back is clean before it stops being published, and *)
(* a call in progress means that the head slot is a draft.                 *)
CleanInv ==
    /\ CleanRecycle
    /\ cons = "advance" => Clean(Slot(tail))
    /\ pc # "idle" => headState = 1

(* The receiving thread dirties the draft's slot only, once a draft is begun. *)
LEMMA ProducerClean == ASSUME Ring, CleanInv, Producer PROVE CleanInv'
<1> USE DEF headVars, tailVars
<1>1. Slot(head) \in Slots /\ Slot(tail) \in Slots
  BY SlotType DEF Ring, Typed, TypeOK
<1>2. (cons = "advance") <=> (cons' = "advance")
  BY DEF Producer, newChipFrame, putChipFrame, startNewFrame, storeChipFrame, finishFrame,
         dropDraft, publishDraft, Notified
<1>3. tail' = tail
  BY DEF Producer, newChipFrame, putChipFrame, startNewFrame, storeChipFrame, finishFrame
<1>4. pc' # "idle" => headState' = 1
  BY DEF Producer, newChipFrame, putChipFrame, startNewFrame, storeChipFrame, finishFrame,
         CleanInv
<1>5. cons' = "advance" => Clean(Slot(tail))'
  <2> SUFFICES ASSUME cons = "advance" PROVE Clean(Slot(tail))'
    BY <1>2
  <2>1. Slot(tail) # Slot(head)
    BY SlotsDiffer DEF Ring, RingInv, RingBounded, Typed, TypeOK
  <2>2. Untouched(Slot(tail)) /\ Clean(Slot(tail))
    BY <1>1, <2>1, ProducerUntouched DEF Ring, CleanInv
  <2> QED
    BY <1>1, <1>3, <2>2 DEF Clean, Untouched
<1>6. ASSUME NEW s \in Slots, s \notin Published', s = Slot(head)' => headState' = 0
      PROVE  Clean(s)'
  <2>1. ASSUME s \notin Published, s # Slot(head) PROVE Clean(s)'
    BY <2>1, ProducerUntouched, UntouchedClean DEF CleanInv, CleanRecycle, Ring
  <2>2. ASSUME UNCHANGED <<head, tail>> PROVE s \notin Published
    BY <1>6, <2>2 DEF Published
  <2>3. ASSUME NEW c \in Chips, newChipFrame(c) PROVE Clean(s)'
    <3>1. UNCHANGED <<head, tail, headState, counters>>
      BY <2>3 DEF newChipFrame
    <3>2. CASE s # Slot(head)
      BY <2>1, <2>2, <3>1, <3>2
    <3>3. CASE s = Slot(head)
      <4>1. Clean(s)
        BY <1>6, <2>2, <3>1, <3>3 DEF CleanInv, CleanRecycle
      <4>2. <<Slot(head), CounterHalf, c>> \in Spots
        BY <1>1, SpotsOfSlot DEF CounterHalf
      <4>3. CASE takeChipFrame(c)
        BY <3>1, <4>1, <4>2, <4>3, SpotsOfSlot DEF takeChipFrame, Clean, Ring, Typed, TypeOK
      <4>4. CASE allocateChipFrame(c)
        BY <3>1, <4>1, <4>4, SpotsOfSlot
           DEF allocateChipFrame, Clean, Ring, OneOwner, NoDangling, Typed, TypeOK
      <4>5. CASE counterAssertFails
        BY <3>1, <4>1, <4>5 DEF counterAssertFails, Clean
      <4> QED
        BY <2>3, <4>3, <4>4, <4>5 DEF newChipFrame
    <3> QED
      BY <3>2, <3>3
  <2>4. ASSUME NEW c \in Chips, NEW id \in FrameIds, NEW omr \in OMRs, NEW x \in Payloads,
               putChipFrame(c, id, omr, x)
        PROVE  Clean(s)'
    BY <1>6, <2>1, <2>2, <2>4 DEF putChipFrame
  <2>5. CASE storeChipFrame
    BY <1>6, <2>1, <2>2, <2>5 DEF storeChipFrame, CleanInv
  <2>6. CASE publishDraft
    BY <1>3, <1>6, <2>1, <2>6, PublishedGrows
  <2>7. CASE startNewFrame /\ dropDraft
    BY <1>6, <2>1, <2>2, <2>7 DEF startNewFrame, dropDraft, CleanInv
  <2>8. CASE finishFrame /\ dropDraft
    <3>1. UNCHANGED <<head, tail>>
      BY <2>8 DEF finishFrame, dropDraft
    <3>2. CASE s = Slot(head)
      BY <1>1, <2>8, <3>2, ClearedClean DEF finishFrame, dropDraft, Ring
    <3> QED
      BY <2>1, <2>2, <3>1, <3>2
  <2> QED
    BY <2>3, <2>4, <2>5, <2>6, <2>7, <2>8 DEF Producer, startNewFrame, finishFrame
<1> QED
  BY <1>4, <1>5, <1>6 DEF CleanInv, CleanRecycle

(* The client's steps only clean. *)
LEMMA ReaderClean == ASSUME Ring, CleanInv, Reader PROVE CleanInv'
<1> USE DEF headVars, frameVars, tailVars
<1>1. Slot(head) \in Slots /\ Slot(tail) \in Slots
  BY SlotType DEF Ring, Typed, TypeOK
<1>2. UNCHANGED <<head, headState, pc>>
  BY DEF Reader, Wait, waitFindsNothing, waitBlocks, waitTimesOut, getFrameSet,
         releaseFrameSet, advanceTail
<1>3. CASE advanceTail
  <2>1. ASSUME NEW s \in Slots, s \notin Published', s = Slot(head)' => headState' = 0
        PROVE  Clean(s)'
    <3>1. s = Slot(tail) \/ s \notin Published
      BY <1>3, <2>1, PublishedShrinks
    <3>2. Clean(s)
      BY <1>2, <1>3, <2>1, <3>1 DEF CleanInv, CleanRecycle, advanceTail
    <3> QED
      BY <1>3, <3>2 DEF Clean, advanceTail
  <2> QED
    BY <1>2, <1>3, <2>1 DEF CleanInv, CleanRecycle, advanceTail
<1>4. CASE tail' = tail
  <2>1. clearTail => Clean(Slot(tail))'
    <3>1. clearTail => frame' = frame
      BY DEF Reader, Wait, waitFindsNothing, waitBlocks, waitTimesOut, getFrameSet,
             releaseFrameSet, advanceTail
    <3>2. ASSUME NEW s \in Slots, s = Slot(tail), clearTail PROVE Clean(s)'
      BY <3>1, <3>2, ClearedClean DEF clearTail, Ring
    <3> QED
      BY <1>1, <1>4, <3>2 DEF Clean
  <2>2. ASSUME NEW s \in Slots, Clean(s) PROVE Clean(s)'
    <3>1. CASE s # Slot(tail) \/ ~ clearTail
      BY <2>2, <3>1, ReaderUntouched, UntouchedClean DEF Ring
    <3>2. CASE s = Slot(tail) /\ clearTail
      BY <1>4, <2>1, <3>2 DEF Clean
    <3> QED
      BY <3>1, <3>2
  <2>3. CleanRecycle'
    BY <1>2, <1>4, <2>2 DEF CleanInv, CleanRecycle, Published
  <2>4. cons' = "advance" => clearTail
    BY <1>4 DEF Reader, Wait, waitFindsNothing, waitBlocks, waitTimesOut, getFrameSet,
           releaseFrameSet, releaseLent, releaseOldest, releaseSpurious, advanceTail
  <2> QED
    BY <1>2, <2>1, <2>3, <2>4 DEF CleanInv
<1>5. advanceTail \/ tail' = tail
  BY DEF Reader, Wait, waitFindsNothing, waitBlocks, waitTimesOut, getFrameSet,
         releaseFrameSet
<1> QED
  BY <1>3, <1>4, <1>5

LEMMA InitClean == ASSUME Init PROVE CleanInv
BY DEF Init, CleanInv, CleanRecycle, Clean, Spots

LEMMA StepClean == ASSUME Ring, CleanInv, [Next]_vars PROVE CleanInv'
<1>1. CASE resetLostCount \/ UNCHANGED vars
  BY <1>1 DEF resetLostCount, vars, headVars, frameVars, tailVars, CleanInv, CleanRecycle,
              Clean, Published
<1> QED
  BY <1>1, ProducerClean, ReaderClean DEF Next

(* A slot that comes back carries nothing over: its frames are blank and   *)
(* it counts one counter when newChipFrame next hands out its frames, for  *)
(* every interleaving of clear() and the advance of tail_ with the         *)
(* receiving thread, and with sets that are returned twice.                *)
THEOREM RecycledSlotsAreClean == Spec => []CleanRecycle
<1>1. Spec => []Ring
  BY RingInvariant, EveryFrameHasOneOwner, PTL DEF Ring
<1>2. Init => CleanInv
  BY InitClean
<1>3. Ring /\ CleanInv /\ [Next]_vars => CleanInv'
  BY StepClean
<1>4. CleanInv => CleanRecycle
  BY DEF CleanInv
<1> QED
  BY <1>1, <1>2, <1>3, <1>4, PTL DEF Spec
=============================================================================
