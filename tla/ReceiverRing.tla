---------------------------- MODULE ReceiverRing ----------------------------
(***************************************************************************)
(* What a receiver promises the consumer of its frames: a bounded queue in *)
(* which a frame stays as it was published until the consumer takes it,    *)
(* the oldest first.  A frame that ends is published unless there is no    *)
(* room, and counted as received in either case, as lost in the other.     *)
(***************************************************************************)
EXTENDS Naturals, Sequences

CONSTANT Room    \* frames it holds, one less than its buffers

VARIABLES queue, received, lost

vars == <<queue, received, lost>>

Init == queue = <<>> /\ received = 0 /\ lost = 0

Publish ==
    /\ Len(queue) < Room
    /\ Len(queue') = Len(queue) + 1 /\ SubSeq(queue', 1, Len(queue)) = queue
    /\ received' = received + 1 /\ UNCHANGED lost
Overrun ==
    /\ Len(queue) = Room
    /\ received' = received + 1 /\ lost' = lost + 1 /\ UNCHANGED queue
Take == queue # <<>> /\ queue' = Tail(queue) /\ UNCHANGED <<received, lost>>
ResetLost == lost' = 0 /\ UNCHANGED <<queue, received>>

Next == Publish \/ Overrun \/ Take \/ ResetLost
Spec == Init /\ [][Next]_vars
=============================================================================
