----------------------------- MODULE FrameBuilder -----------------------------
(***************************************************************************)
(* The frame builder of the Qt receivers (FramebuilderThread, with the     *)
(* processFrame of FramebuilderThreadC): a thread that waits until every   *)
(* receiver has a frame, drops the frames of chips that lag behind until   *)
(* all hold the same frame number, decodes them and releases the buffers.  *)
(* Receivers publish into rings of their own and wake the builder.         *)
(***************************************************************************)
EXTENDS Integers, Sequences

CONSTANTS
    N,          \* receivers, as many as the arrays of processFrame allow
    Depth,      \* frames a ring can hold, NR_OF_FRAMEBUFS - 1
    Half,       \* half the range of the signed compare of frame numbers, 128
    Streams,    \* what receivers may see: frame numbers, -1 if not readable
    MaxCalls    \* bound: calls of the builder's client

Chips == 0 .. N - 1

ASSUME BuilderAssumption ==
    /\ N \in 2 .. 4 /\ Depth \in Nat \ {0} /\ Half \in Nat \ {0} /\ MaxCalls \in Nat
    /\ Streams \subseteq [Chips -> Seq(Int)]

VARIABLES
    stream, ring,     \* receiver -> frames still to come, and frames in its ring
    notifiers,        \* receivers that have and notify a frame builder
    pending,          \* receivers that have published and not yet notified
    pc,               \* where the builder is
    stop, abortFrame, decode,   \* _stop, _abortFrame, _decode and not _flush
    frameId,          \* _frameId
    todo,             \* the receivers that the step at hand still has to do
    chipmask,         \* the receivers whose frame is new and must be decoded
    processed,        \* the frames at hand have been decoded
    framesReceived, framesProcessed,
    calls, stopping,  \* calls made, and how far a stop() is
    common,           \* the numbers that all receivers see
    gathered, dropped \* numbers decoded of all chips, and lost in a full ring

vars == <<stream, ring, notifiers, pending, pc, stop, abortFrame, decode, frameId, todo, chipmask,
          processed, framesReceived, framesProcessed, calls, stopping, common, gathered, dropped>>
receivers == <<stream, notifiers, common, dropped>>
client == <<decode, calls, stopping>>
counts == <<framesReceived, framesProcessed>>

Numbers(i) == {stream[i][k] : k \in DOMAIN stream[i]}
Common == {id \in Numbers(0) : id >= 0 /\ \A i \in Chips : id \in Numbers(i)}
Init ==
    /\ stream \in Streams /\ ring = [i \in Chips |-> <<>>]
    /\ notifiers \in {Chips, {0}} /\ pending = {}
    /\ pc = "loop" /\ stop = FALSE /\ abortFrame = FALSE /\ decode = TRUE
    /\ frameId = [i \in Chips |-> 0] /\ todo = {} /\ chipmask = {} /\ processed = FALSE
    /\ framesReceived = 0 /\ framesProcessed = 0
    /\ calls = 0 /\ stopping = "no" /\ common = Common /\ gathered = {} /\ dropped = {}

hasFrame(i) == ring[i] # <<>>
First(chips) == CHOOSE i \in chips : \A j \in chips : i <= j

-----------------------------------------------------------------------------
(* The receivers.                                                          *)
nextFrameBuffer(i) ==
    /\ stream[i] # <<>> /\ i \notin pending
    /\ stream' = [stream EXCEPT ![i] = Tail(@)]
    /\ \/ /\ Len(ring[i]) < Depth
          /\ ring' = [ring EXCEPT ![i] = Append(@, Head(stream[i]))] /\ UNCHANGED dropped
       \/ /\ Len(ring[i]) >= Depth
          /\ dropped' = dropped \cup {Head(stream[i])} /\ UNCHANGED ring
    /\ pending' = IF i \in notifiers THEN pending \cup {i} ELSE pending
    /\ UNCHANGED <<notifiers, common, pc, stop, abortFrame, frameId, todo, chipmask, processed, counts,
                   client, gathered>>

(* wakeOne on _inputCondition.  The mutex makes the builder's test and wait *)
(* one step.                                                               *)
Woken ==
    IF pc = "asleep" THEN "loop" ELSE IF pc = "lagAsleep" THEN "lagAwait" ELSE pc
inputNotification(i) ==
    /\ i \in pending
    /\ pending' = pending \ {i} /\ pc' = Woken
    /\ UNCHANGED <<receivers, ring, stop, abortFrame, frameId, todo, chipmask, processed, counts,
                   client, gathered>>

-----------------------------------------------------------------------------
(* The builder's run.                                                      *)
GoTo(from, to) == pc = from /\ pc' = to
Elsewhere == UNCHANGED <<receivers, pending, stop, client>>
Bookkeeping == <<frameId, todo, chipmask, processed, gathered>>

TestStop ==
    /\ pc = "loop" /\ pc' = IF stop THEN "exited" ELSE "look"
    /\ Elsewhere /\ UNCHANGED <<ring, abortFrame, Bookkeeping, counts>>
LookForInput ==
    /\ pc = "look" /\ pc' = IF hasFrame(0) THEN "accept" ELSE "await"
    /\ Elsewhere /\ UNCHANGED <<ring, abortFrame, Bookkeeping, counts>>
(* Looked for again under the mutex, before the wait. *)
WaitForInputVariant == GoTo("await", "asleep")
    /\ Elsewhere /\ UNCHANGED <<ring, abortFrame, Bookkeeping, counts>>
WaitForInput ==
    /\ pc = "await" /\ pc' = IF hasFrame(0) THEN "loop" ELSE "asleep"
    /\ Elsewhere /\ UNCHANGED <<ring, abortFrame, Bookkeeping, counts>>
Accept ==
    /\ GoTo("accept", "spin") /\ abortFrame' = FALSE
    /\ Elsewhere /\ UNCHANGED <<ring, Bookkeeping, counts>>
AwaitOthers ==
    /\ GoTo("spin", "process")
    /\ abortFrame \/ \A i \in Chips : hasFrame(i)
    /\ Elsewhere /\ UNCHANGED <<ring, abortFrame, Bookkeeping, counts>>
releaseFrames ==
    /\ pc = "release"
    /\ ring' = [ring EXCEPT ![First(todo)] = IF @ = <<>> THEN @ ELSE Tail(@)]
    /\ todo' = todo \ {First(todo)}
    /\ IF todo' = {} THEN pc' = "loop" /\ framesReceived' = framesReceived + 1
                     ELSE pc' = pc /\ UNCHANGED framesReceived
    /\ processed' = FALSE
    /\ Elsewhere /\ UNCHANGED <<abortFrame, frameId, chipmask, gathered, framesProcessed>>

-----------------------------------------------------------------------------
(* processFrame.  With an abort pending, or nothing to decode, it returns. *)
BeginProcess ==
    /\ pc = "process"
    /\ IF decode /\ ~abortFrame
       THEN pc' = "decode" /\ chipmask' = Chips /\ UNCHANGED todo
       ELSE pc' = "release" /\ todo' = Chips /\ UNCHANGED chipmask
    /\ processed' = FALSE
    /\ Elsewhere /\ UNCHANGED <<ring, abortFrame, frameId, gathered, counts>>

(* The frame numbers after the new frames are decoded, and the latest of   *)
(* them by the sign of their 8-bit difference.                             *)
Decoded == [i \in Chips |-> IF i \in chipmask THEN Head(ring[i]) ELSE frameId[i]]
LaterVariant(a, b) == a > b
Later(a, b) == (a - b) % (2 * Half) \in 1 .. Half - 1
maxid(ids) ==
    LET max[i \in 0 .. N] ==
            IF i = 0 THEN -1
            ELSE LET fid == ids[i - 1] IN
                 IF max[i - 1] = -1 \/ (fid >= 0 /\ Later(fid, max[i - 1]))
                 THEN fid ELSE max[i - 1]
    IN  max[N]
DifferentVariant(ids) == \E i, j \in Chips : ids[i] # ids[j] /\ ids[i] >= 0 /\ ids[j] >= 0
Different(ids) == \E i, j \in Chips : ids[i] # ids[j]
Behind(ids) == {i \in Chips : ids[i] # maxid(ids)}

(* The frames to decode again: the next ones of the chips that lag, or     *)
(* all, the same ones, if no number is readable.                           *)
Again(ids) == IF Different(ids) THEN Behind(ids) ELSE IF maxid(ids) = -1 THEN Chips ELSE {}
Decode ==
    /\ pc = "decode" /\ frameId' = Decoded /\ chipmask' = Again(frameId')
    /\ IF chipmask' = {}
       THEN /\ todo' = Chips /\ pc' = "release"
            /\ processed' = TRUE /\ framesProcessed' = framesProcessed + 1
            /\ gathered' = gathered \cup {maxid(frameId')}
       ELSE /\ IF Different(frameId') THEN pc' = "lagRelease" /\ todo' = chipmask'
                                      ELSE UNCHANGED <<pc, todo>>
            /\ UNCHANGED <<processed, gathered, framesProcessed>>
    /\ Elsewhere /\ UNCHANGED <<ring, abortFrame, framesReceived>>

(* A chip that lags behind: its frame is dropped and the next awaited.     *)
Lagging == First(todo)
DropLagging ==
    /\ GoTo("lagRelease", "lagAwait")
    /\ ring' = [ring EXCEPT ![Lagging] = Tail(@)]
    /\ Elsewhere /\ UNCHANGED <<abortFrame, Bookkeeping, counts>>
AwaitLaggingVariant ==
    /\ GoTo("lagAwait", "lagAsleep")
    /\ Elsewhere /\ UNCHANGED <<ring, abortFrame, Bookkeeping, counts>>
AwaitLagging ==
    /\ pc = "lagAwait"
    /\ IF hasFrame(Lagging)
       THEN /\ todo' = todo \ {Lagging}
            /\ pc' = IF todo' = {} THEN "decode" ELSE "lagRelease"
       ELSE pc' = "lagAsleep" /\ UNCHANGED todo
    /\ Elsewhere /\ UNCHANGED <<ring, abortFrame, frameId, chipmask, processed, gathered, counts>>

-----------------------------------------------------------------------------
(* The client: abortFrame, setFlush and setDecodeFrames, and stop, which   *)
(* sets two flags and wakes the builder.                                   *)
Call(step) == calls < MaxCalls /\ stopping = "no" /\ calls' = calls + 1 /\ stopping' = step
builder == <<ring, pc, Bookkeeping, counts>>
AbortFrame ==
    /\ Call("no") /\ abortFrame' = TRUE
    /\ UNCHANGED <<receivers, pending, stop, decode, builder>>
SetDecodeFrames ==
    /\ Call("no") /\ decode' = ~decode
    /\ UNCHANGED <<receivers, pending, stop, abortFrame, builder>>
Stop ==
    /\ Call("stopped") /\ pc # "exited" /\ stop' = TRUE
    /\ UNCHANGED <<receivers, pending, abortFrame, decode, builder>>
StopAborts ==
    /\ stopping = "stopped" /\ stopping' = "aborted" /\ abortFrame' = TRUE
    /\ UNCHANGED <<receivers, pending, stop, decode, calls, builder>>
StopWakes ==
    /\ stopping = "aborted" /\ stopping' = "waiting" /\ pc' = Woken
    /\ UNCHANGED <<receivers, ring, pending, stop, abortFrame, decode, calls, Bookkeeping, counts>>

run == TestStop \/ LookForInput \/ WaitForInput \/ Accept \/ AwaitOthers \/ releaseFrames
processFrame == BeginProcess \/ Decode \/ DropLagging \/ AwaitLagging
Client == AbortFrame \/ SetDecodeFrames \/ Stop \/ StopAborts \/ StopWakes
Receive == \E i \in Chips : nextFrameBuffer(i) \/ inputNotification(i)
Next ==
    \/ Receive
    \/ run \/ processFrame
    \/ Client
Fairness ==
    /\ WF_vars(run \/ processFrame)
    /\ \A i \in Chips : WF_vars(inputNotification(i))
Spec == Init /\ [][Next]_vars /\ Fairness

-----------------------------------------------------------------------------
(* The builder does not sleep on a frame of the first receiver, unless the *)
(* receiver is about to notify it ("Mutex to make sure that the 'wake'     *)
(* does not occur just in front of the 'wait' in run()").                  *)
NoSleepOnInput == (pc = "asleep" /\ hasFrame(0)) => 0 \in pending

(* Nor on a lagging chip's frame, if that chip's receiver notifies it: the *)
(* others' notifications end the wait early, and it waits again.           *)
NoSleepOnLagging ==
    (pc = "lagAsleep" /\ Lagging \in notifiers /\ hasFrame(Lagging)) => Lagging \in pending

(* What is decoded as one frame is there in all rings under one number.    *)
Aligned ==
    processed => \A i \in Chips : hasFrame(i) /\ Head(ring[i]) = Head(ring[0])

(* A number that all chips had and none lost is decoded as one frame, as   *)
(* long as all receivers notify and nobody calls the builder.              *)
Arrived == \A i \in Chips : stream[i] = <<>>
Unreadable == \A i \in Chips : hasFrame(i) /\ Head(ring[i]) = -1
Gathers ==
    \A id \in 0 .. 2 * Half - 1 :
        (Arrived /\ id \in common)
            ~> (id \in gathered \cup dropped \/ calls > 0 \/ notifiers # Chips \/ Unreadable)
=============================================================================
