---------------------------- MODULE ReceiverThread ----------------------------
(***************************************************************************)
(* The Qt receiver of one chip (ReceiverThread.cpp): a thread that turns   *)
(* numbered packets into frames, in a ring of frame buffers shared with a  *)
(* consumer.  The thread fills the buffer at head_; the consumer reads and *)
(* releases the one at tail_.  Packets may be lost, repeated, reordered.   *)
(***************************************************************************)
EXTENDS Integers, Sequences, FiniteSets

CONSTANTS
    NR_OF_FRAMEBUFS,
    FrameSize,     \* _expFrameSize
    Payloads,      \* the payload sizes the module can cut a frame into
    Shutters,      \* values of shutter_cnt, a local that is never assigned
    MaxPackets,    \* bound: packets of a behaviour
    MaxBeforeStop  \* bound: packets of a behaviour in which stop() is called

ASSUME ReceiverAssumption ==
    /\ NR_OF_FRAMEBUFS \in Nat /\ NR_OF_FRAMEBUFS > 1
    /\ FrameSize \in Nat \ {0} /\ Payloads \subseteq 1 .. FrameSize
    /\ FrameSize \in Payloads
    /\ Shutters \subseteq Int /\ MaxPackets \in Nat /\ MaxBeforeStop \in Nat

VARIABLES
    head, tail, empty,
    frameBuffer,       \* slot -> what it holds: positions, and their counters
    isCounterhFrame, packetsLostFrame,
    currShutterCnt, expSequenceNr, expPayloadSize, expPacketsPerFrame,
    packet,            \* number of the packet that readDatagrams still has to store
    recvTimeoutCount,
    framesReceived, framesLost, packetsReceived, packetsLost,
    cut,               \* the payload size of this behaviour's module
    stop,              \* _stop
    thread,            \* "starting", "opening", "running", "exited"
    stopCalled,        \* "no", or where the thread was when stop() was called
    history            \* what has become of earlier frames, for the properties

ring == <<head, tail, empty, frameBuffer, isCounterhFrame, packetsLostFrame>>
expected == <<currShutterCnt, expSequenceNr, expPayloadSize, expPacketsPerFrame>>
stats == <<framesReceived, framesLost, packetsReceived, packetsLost>>
control == <<cut, stop, thread, stopCalled>>
receiver == <<ring, expected, packet, recvTimeoutCount, stats, control, history>>

Slots == 0 .. NR_OF_FRAMEBUFS - 1
NextSlot(s) == (s + 1) % NR_OF_FRAMEBUFS
PacketsPerFrame(payload) == (FrameSize + payload - 1) \div payload

(* A packet carries its number, which runs on over the two counters of a   *)
(* 24-bit frame; the last one of a frame may be shorter.                   *)
Packets ==
    LET n == PacketsPerFrame(cut)
    IN  {[seq |-> i, size |-> IF i % n = n - 1 THEN FrameSize - (n - 1) * cut ELSE cut] :
             i \in 0 .. 2 * n - 1}

NoPacket == -1

BaseInit ==
    /\ head = 0 /\ tail = 0 /\ empty = TRUE
    /\ frameBuffer = [s \in Slots |-> {}]
    /\ isCounterhFrame = [s \in Slots |-> FALSE]
    /\ packetsLostFrame = [s \in Slots |-> 9999]
    /\ currShutterCnt = -1 /\ expSequenceNr = 0
    /\ expPayloadSize = 0 /\ expPacketsPerFrame = 999
    /\ packet = NoPacket /\ recvTimeoutCount = 0 /\ cut \in Payloads
    /\ framesReceived = 0 /\ framesLost = 0 /\ packetsReceived = 0 /\ packetsLost = 0
    /\ stop = FALSE /\ thread = "starting" /\ stopCalled = "no"
    /\ history = [losses |-> 0, misled |-> FALSE, overrun |-> FALSE]

-----------------------------------------------------------------------------
(* The ring.                                                               *)

(* With no buffer left the thread steps back and uses the same one again.  *)
FullVariant == NextSlot(NextSlot(head)) = tail
Full == NextSlot(head) = tail
NewHead == IF Full THEN head ELSE NextSlot(head)
nextFrameBuffer ==
    /\ head' = NewHead /\ empty' = FALSE
    /\ framesReceived' = framesReceived + 1
    /\ framesLost' = IF Full THEN framesLost + 1 ELSE framesLost
Emptied(buffer) == [buffer EXCEPT ![NewHead] = {}]
(* A frame ends, with so many of its losses in the total. *)
Finished(losses) == [history EXCEPT !.losses = @ + losses, !.overrun = @ \/ Full]

ClearedFlag == [isCounterhFrame EXCEPT ![tail] = FALSE]
releaseFrame ==
    /\ ~empty
    /\ tail' = NextSlot(tail) /\ empty' = (NextSlot(tail) = head)
    /\ isCounterhFrame' = ClearedFlag
    /\ UNCHANGED <<head, frameBuffer, packetsLostFrame, expected, packet, recvTimeoutCount,
                   stats, control, history>>

-----------------------------------------------------------------------------
(* readDatagrams, in two steps: a packet is read and found to continue the *)
(* frame or to begin another, and it is stored.  The first packet, and any *)
(* while the shutter count means "none", sets what is expected.            *)

Looping == thread = "running" /\ ~stop
First == currShutterCnt = -1
Payload(pkt) == IF First THEN pkt.size ELSE expPayloadSize
Per(pkt) == IF First THEN PacketsPerFrame(pkt.size) ELSE expPacketsPerFrame
ModuloVariant(pkt) == pkt.seq
Modulo(pkt) == pkt.seq % Per(pkt)
(* The first packet of the frame of the second counter. *)
FirstOfHVariant(pkt) == pkt.seq >= Per(pkt) - 1
FirstOfH(pkt) == pkt.seq = Per(pkt)
CountFromVariant(pkt) == packetsLostFrame
CountFrom(pkt) == [packetsLostFrame EXCEPT ![head] = IF First THEN Per(pkt) ELSE @]
BeginsFrame(pkt, shutter_cnt) ==
    (~First /\ shutter_cnt # currShutterCnt) \/ Modulo(pkt) < expSequenceNr

(* The receiver is misled by taking the size of the shorter last packet    *)
(* for that of all, and by a shutter count that means "none".              *)
Misled(shutter_cnt) == shutter_cnt = -1 \/ expPayloadSize' # cut

Read(pkt, shutter_cnt) ==
    /\ Looping /\ packet = NoPacket /\ packetsReceived < MaxPackets
    /\ packetsReceived' = packetsReceived + 1
    /\ currShutterCnt' = shutter_cnt
    /\ expSequenceNr' = Modulo(pkt) + 1 /\ packet' = pkt.seq
    /\ UNCHANGED <<tail, recvTimeoutCount, control>>

SameFrame == \E pkt \in Packets, shutter_cnt \in Shutters :
    /\ Read(pkt, shutter_cnt) /\ ~BeginsFrame(pkt, shutter_cnt)
    /\ packetsLost' = packetsLost + (Modulo(pkt) - expSequenceNr)
    /\ expPayloadSize' = Payload(pkt) /\ expPacketsPerFrame' = Per(pkt)
    /\ packetsLostFrame' = CountFrom(pkt)
    /\ history' = [history EXCEPT !.misled = @ \/ Misled(shutter_cnt)]
    /\ UNCHANGED <<head, empty, frameBuffer, isCounterhFrame, framesReceived, framesLost>>

NewFrame == \E pkt \in Packets, shutter_cnt \in Shutters :
    LET early == expSequenceNr # Per(pkt)
        resized == pkt.size # Payload(pkt)
    IN
    /\ Read(pkt, shutter_cnt) /\ BeginsFrame(pkt, shutter_cnt)
    /\ IF early THEN nextFrameBuffer /\ frameBuffer' = Emptied(frameBuffer)
                ELSE UNCHANGED <<head, empty, framesReceived, framesLost, frameBuffer>>
    /\ isCounterhFrame' = [isCounterhFrame EXCEPT ![head'] = @ \/ FirstOfH(pkt)]
    /\ packetsLost' = packetsLost + (Per(pkt) - expSequenceNr + Modulo(pkt))
    /\ expPayloadSize' = pkt.size
    /\ expPacketsPerFrame' = IF resized THEN PacketsPerFrame(pkt.size) ELSE Per(pkt)
    /\ packetsLostFrame' = [CountFrom(pkt) EXCEPT
           ![head'] = IF early \/ resized THEN expPacketsPerFrame' ELSE @]
    /\ history' = [IF early THEN Finished(CountFrom(pkt)[head]) ELSE history
                       EXCEPT !.misled = @ \/ resized \/ Misled(shutter_cnt)]

Complete == expSequenceNr = expPacketsPerFrame
Stored ==
    LET pos == expSequenceNr - 1
        piece == [pos |-> pos, counter |-> packet \div PacketsPerFrame(cut)]
    IN  IF pos < expPacketsPerFrame
        THEN [frameBuffer EXCEPT ![head] = @ \cup {piece}] ELSE frameBuffer
Counted ==
    IF expSequenceNr - 1 < expPacketsPerFrame
    THEN [packetsLostFrame EXCEPT ![head] = @ - 1] ELSE packetsLostFrame

Store ==
    /\ packet # NoPacket /\ packet' = NoPacket
    /\ IF Complete
       THEN /\ nextFrameBuffer
            /\ frameBuffer' = Emptied(Stored)
            /\ packetsLostFrame' = [Counted EXCEPT ![NewHead] = expPacketsPerFrame]
            /\ history' = Finished(Counted[head])
       ELSE /\ frameBuffer' = Stored /\ packetsLostFrame' = Counted
            /\ UNCHANGED <<head, empty, framesReceived, framesLost, history>>
    /\ UNCHANGED <<tail, isCounterhFrame, expected, recvTimeoutCount, packetsReceived,
                   packetsLost, control>>

(* Packets missed before the last one that came of the current frame.      *)
InProgress ==
    IF Complete \/ currShutterCnt = -1 THEN 0
    ELSE expSequenceNr - (expPacketsPerFrame - packetsLostFrame[head])

(* waitForReadyRead found nothing for 100 ms. *)
UnfinishedVariant == currShutterCnt > 0 /\ ~Complete
Unfinished == currShutterCnt >= 0 /\ ~Complete
handleFrameTimeout ==
    /\ Looping /\ packet = NoPacket
    /\ \/ /\ Unfinished /\ recvTimeoutCount + 1 # 2
          /\ recvTimeoutCount' = recvTimeoutCount + 1
          /\ UNCHANGED <<ring, expSequenceNr, framesReceived, framesLost, history>>
       \/ /\ Unfinished /\ recvTimeoutCount + 1 = 2
          /\ nextFrameBuffer
          /\ frameBuffer' = Emptied(frameBuffer)
          /\ packetsLostFrame' = [packetsLostFrame EXCEPT ![NewHead] = expPacketsPerFrame]
          /\ history' = Finished(InProgress)
          /\ expSequenceNr' = expPacketsPerFrame /\ recvTimeoutCount' = 0
          /\ UNCHANGED <<tail, isCounterhFrame>>
       \/ /\ ~Unfinished /\ recvTimeoutCount # 0 /\ recvTimeoutCount' = 0
          /\ UNCHANGED <<ring, expSequenceNr, framesReceived, framesLost, history>>
    /\ UNCHANGED <<currShutterCnt, expPayloadSize, expPacketsPerFrame, packet, packetsReceived,
                   packetsLost, control>>

-----------------------------------------------------------------------------
(* The thread: run takes itself for stopped until its socket is open, and  *)
(* then clears the flag, also if stop() has just set it.                   *)

idle == <<ring, expected, packet, recvTimeoutCount, stats, history>>
BeginRun ==
    /\ thread = "starting" /\ thread' = "opening" /\ stop' = TRUE
    /\ UNCHANGED <<cut, stopCalled, idle>>
Open ==
    /\ thread = "opening" /\ thread' = "running" /\ stop' \in {FALSE, stop}
    /\ UNCHANGED <<cut, stopCalled, idle>>
LeaveLoopVariant ==
    /\ thread = "running" /\ stop /\ packet # NoPacket /\ thread' = "exited"
    /\ UNCHANGED <<cut, stop, stopCalled, idle>>
LeaveLoop ==
    /\ thread = "running" /\ stop /\ packet = NoPacket /\ thread' = "exited"
    /\ UNCHANGED <<cut, stop, stopCalled, idle>>
Stop ==
    /\ thread # "exited" /\ stopCalled = "no" /\ packetsReceived <= MaxBeforeStop
    /\ stop' = TRUE /\ stopCalled' = thread
    /\ UNCHANGED <<cut, thread, idle>>
(* resetLost, called by whoever reads the counts, takes no lock: while the *)
(* thread runs, a count it clears may be in the middle of an increment,    *)
(* which then writes the old value back.  Each total by itself, so that a  *)
(* reset of one before and of another after an event is two such calls.    *)
Cleared(count) == {0} \cup (IF thread = "running" THEN {count} ELSE {})
resetLost ==
    /\ framesLost' \in Cleared(framesLost) /\ packetsLost' \in Cleared(packetsLost)
    /\ history' = [history EXCEPT !.losses = @ - (packetsLost - packetsLost')]
    /\ UNCHANGED <<ring, expected, packet, recvTimeoutCount, framesReceived, packetsReceived,
                   control>>

Lifetime == BeginRun \/ Open \/ LeaveLoop \/ Stop
readDatagrams == SameFrame \/ NewFrame \/ Store
ReceiverNext == readDatagrams \/ handleFrameTimeout \/ releaseFrame \/ Lifetime \/ resetLost
ReceiverFairness ==
    /\ WF_receiver(BeginRun \/ Open \/ LeaveLoop)
    /\ WF_receiver(Store) /\ WF_receiver(handleFrameTimeout)
ReceiverSpec == BaseInit /\ [][ReceiverNext]_receiver /\ ReceiverFairness

-----------------------------------------------------------------------------
(* What the consumer can get: the buffers from the tail to the head. *)
Queue == [i \in 1 .. (IF empty THEN 0 ELSE (head - tail) % NR_OF_FRAMEBUFS) |->
    LET s == (tail + i - 1) % NR_OF_FRAMEBUFS
    IN  <<frameBuffer[s], packetsLostFrame[s], isCounterhFrame[s]>>]

Ring == INSTANCE ReceiverRing WITH Room <- NR_OF_FRAMEBUFS - 1, queue <- Queue,
                                   received <- framesReceived, lost <- framesLost

(* The receiver, of either class, implements the queue: between            *)
(* publication and release a buffer is not touched, frames leave in the    *)
(* order they came in, every frame that ends is counted, and one is lost   *)
(* only if all other buffers are taken (nextFrameBuffer's step back,       *)
(* releaseFrame's early test), though only the steps of head_ and tail_    *)
(* are made under a lock and the buffers are filled and read outside it.   *)
ImplementsRing == Ring!Spec

(* Numbered packets have come, and the receiver knows how to count them.    *)
Counting == packetsReceived > 0 /\ ~history.misled

(* A published frame's count of lost packets is the number of positions    *)
(* that nothing was stored at, however packets were lost, repeated or      *)
(* reordered, and whatever the uninitialised shutter count says.           *)
LostFrameIsMissing ==
    Counting => \A i \in DOMAIN Queue :
        Queue[i][2] = expPacketsPerFrame - Cardinality({p.pos : p \in Queue[i][1]})

(* The total of lost packets is the sum of the frames' counts and of what   *)
(* the current frame misses so far, since the last reset that was not      *)
(* undone by an increment.  Of a frame that ended by a time-out only the   *)
(* losses before its last packet are in it: TimeoutLossCounted.            *)
LossesAddUp ==
    (packet = NoPacket /\ Counting) =>
        packetsLost = history.losses + InProgress

(* "declare the frame complete, count the loss and continue": when the      *)
(* time-outs end a frame, what it misses behind its last packet is added   *)
(* to the total.  It is not: expSequenceNr is set ("Don't count losses     *)
(* again") before anything has counted it.                                 *)
TimeoutLossCounted ==
    [][handleFrameTimeout /\ framesReceived' > framesReceived /\ Counting =>
           packetsLost' = packetsLost + packetsLostFrame[head] - InProgress]_receiver

(* A frame flagged as counter H holds packets of the second counter, until *)
(* the ring has overrun: the buffer used again keeps the flag of the frame *)
(* that was lost in it.                                                    *)
FlaggedIsCounterH ==
    (Counting /\ ~history.overrun) => \A i \in DOMAIN Queue :
        Queue[i][3] => \E p \in Queue[i][1] : p.counter = 1

(* A frame whose last packets were lost is published by the time-outs,     *)
(* unless the shutter count is taken for none.                             *)
Begun == currShutterCnt >= 0 /\ expSequenceNr # expPacketsPerFrame
CutFrameEnds == (Begun /\ thread = "running") ~> (~Begun \/ stop)

(* stop() returns, if it was called when the socket was open: before, its  *)
(* request is overwritten and it waits for ever.                           *)
StopReturns == (stopCalled = "running") ~> (thread = "exited")
=============================================================================
