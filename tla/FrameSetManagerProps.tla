------------------------ MODULE FrameSetManagerProps ------------------------
(* What must hold of the FrameSetManager, whatever its two sides do. *)
EXTENDS FrameSetManager, Sequences

(* Type correctness. *)
TypeOK ==
    /\ head \in Uint /\ tail \in Uint
    /\ headState \in {0, 1} /\ tailState \in {0, 3}
    /\ frameId \in FrameIds
    /\ expectCounterH \in BOOLEAN
    /\ counters \in [Slots -> {1, 2}]
    /\ frame \in [Spots -> Objects \cup {NULL}]
    /\ framesReceived \in Uint /\ framesLost \in Uint
    /\ heap \in [Objects -> Contents \cup {Free}]
    /\ holding \in [Chips -> Objects \cup {NULL}]
    /\ pc \in {"idle", "newframe", "store", "publish"}
    /\ cf \in [chip : Chips, frameId : FrameIds, omr : OMRs] \cup {NULL}
    /\ cons \in {"idle", "checked", "blocked", "advance"}
    /\ got \in Slots \cup {NULL}
    /\ aborted \in {"no", "counterH", "tailState"}

(* The producer publishes only after isFull() said no and the reader only  *)
(* advances over a published set, so tail_ never passes head_ and head_    *)
(* never laps tail_: one slot always stays free for the draft.             *)
RingBounded == Minus(head, tail) <= FSM_SIZE - 1

(* Two pointers to a ChipFrame are never equal: a frame is in one spot of  *)
(* one set or with one assembler (takeChipFrame nulls the spot, and        *)
(* putChipFrame deletes what it replaces).                                 *)
NoAlias ==
    /\ \A p, q \in Spots : frame[p] # NULL /\ frame[p] = frame[q] => p = q
    /\ \A c, d \in Chips : holding[c] # NULL /\ holding[c] = holding[d] => c = d
    /\ \A p \in Spots, c \in Chips : frame[p] # NULL => frame[p] # holding[c]

(* No pointer outlives the ChipFrame that FrameSet::putChipFrame deletes. *)
NoDangling ==
    /\ \A p \in Spots : frame[p] # NULL => heap[frame[p]] # Free
    /\ \A c \in Chips : holding[c] # NULL => heap[holding[c]] # Free

(* An allocated ChipFrame is always reachable. *)
NoLeak ==
    \A o \in Objects : heap[o] # Free =>
        \/ \E p \in Spots : frame[p] = o
        \/ \E c \in Chips : holding[c] = o

(* Every ChipFrame has exactly one owner, whatever order the chips take    *)
(* and put their frames in.                                                *)
OneOwner == NoAlias /\ NoDangling /\ NoLeak

(* A FrameSet in the reader's hands is the oldest published one: the       *)
(* producer is not writing to it and nobody has recycled it.               *)
ReaderHoldsPublished ==
    /\ got # NULL => head # tail /\ got = Slot(tail)
    /\ tailState = 3 /\ cons # "advance" => got # NULL

Published == {s \in Slots :
    (s + FSM_SIZE - Slot(tail)) % FSM_SIZE < Minus(head, tail)}

Clean(s) ==
    /\ counters[s] = 1
    /\ \A j \in {0, 1}, c \in Chips :
          frame[<<s, j, c>>] # NULL => heap[frame[<<s, j, c>>]] = Clear

(* A slot that is neither published nor a draft in progress holds nothing  *)
(* of the frame set it carried before: its frames are wiped and it counts  *)
(* one counter.  The frames that newChipFrame takes out of it are blank.   *)
CleanRecycle ==
    \A s \in Slots :
        s \notin Published /\ (s = Slot(head) => headState = 0) => Clean(s)

(* The assertions of takeChipFrame and releaseFrameSet hold. *)
AssertionsHold == aborted = "no"

-----------------------------------------------------------------------------
(* The queue of FrameQueue: the published slots from the oldest on, each   *)
(* with the contents the reader would find.                                *)
SetIn(s) == [p \in {0, 1} \X Chips |->
    LET o == frame[<<s, p[1], p[2]>>] IN IF o = NULL THEN NULL ELSE heap[o]]

QueueStart == IF cons = "advance" THEN tail + 1 ELSE tail
QueueLength == Minus(head, tail) - (IF cons = "advance" THEN 1 ELSE 0)
QueuedSlot(i) == Slot(QueueStart + i - 1)
QueueOfSets == [i \in 1 .. QueueLength |-> SetIn(QueuedSlot(i))]
ReaderHas == IF cons = "advance" THEN "returning"
             ELSE IF got # NULL THEN "lent" ELSE "none"

Queue == INSTANCE FrameQueue WITH
    Capacity <- FSM_SIZE - 1,
    FrameSets <- [{0, 1} \X Chips -> Contents \cup {NULL}],
    queue <- QueueOfSets,
    reader <- ReaderHas,
    received <- framesReceived,
    lost <- framesLost

(* The FrameSetManager implements the queue: sets reach the reader in the  *)
(* order they were published and unchanged, and every set that ends is     *)
(* counted as received or as lost, the latter only when the ring is full.  *)
ImplementsQueue == Queue!Spec

(* Whatever is published is given back to the producer in the end, though  *)
(* a notification sent between wait's test and its sleep is lost: the      *)
(* time limit of wait makes up for it.                                     *)
EverySetReturns == \A h \in Uint : head = h /\ tail # h ~> tail = h
=============================================================================
