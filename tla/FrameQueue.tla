----------------------------- MODULE FrameQueue -----------------------------
(***************************************************************************)
(* What a FrameSetManager promises its reader: a bounded queue of frame    *)
(* sets.  A set enters at the end and nobody touches it until the reader   *)
(* gives it back; the reader is only ever lent the oldest one; a set is    *)
(* discarded only when the queue has no room; each set that ends is        *)
(* counted once, as received or as lost.                                   *)
(***************************************************************************)
EXTENDS Naturals, Sequences

CONSTANTS Capacity,   \* FSM_SIZE - 1
          FrameSets,  \* what a set can contain
          UINT_RANGE  \* the range of the two statistics

VARIABLES queue,      \* the published sets, the oldest first
          reader,     \* "none", "lent", or "returning" while a slot is given back
          received, lost

vars == <<queue, reader, received, lost>>

Count(n) == IF n = UINT_RANGE - 1 THEN 0 ELSE n + 1
SlotsUsed == Len(queue) + (IF reader = "returning" THEN 1 ELSE 0)

Init == queue = <<>> /\ reader = "none" /\ received = 0 /\ lost = 0

Publish ==
    /\ SlotsUsed < Capacity
    /\ Len(queue') = Len(queue) + 1
    /\ SubSeq(queue', 1, Len(queue)) = queue
    /\ queue'[Len(queue) + 1] \in FrameSets
    /\ received' = Count(received)
    /\ UNCHANGED <<reader, lost>>

Discard ==
    /\ SlotsUsed = Capacity
    /\ lost' = Count(lost)
    /\ UNCHANGED <<queue, reader, received>>

Lend ==
    /\ queue # <<>> /\ reader # "returning"
    /\ reader' = "lent"
    /\ UNCHANGED <<queue, received, lost>>

Return ==
    /\ queue # <<>> /\ reader # "returning"
    /\ queue' = Tail(queue)
    /\ reader' = "returning"
    /\ UNCHANGED <<received, lost>>

Returned ==
    /\ reader = "returning"
    /\ reader' = "none"
    /\ UNCHANGED <<queue, received, lost>>

ResetLost ==
    /\ lost' = 0
    /\ UNCHANGED <<queue, reader, received>>

Next == Publish \/ Discard \/ Lend \/ Return \/ Returned \/ ResetLost

Spec == Init /\ [][Next]_vars
=============================================================================
