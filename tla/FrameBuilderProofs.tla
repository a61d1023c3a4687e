-------------------------- MODULE FrameBuilderProofs --------------------------
(***************************************************************************)
(* Proofs about the frame builder: it sleeps through no frame, and what it *)
(* decodes as one frame has one number, for every number of chips, ring    *)
(* size, frame numbers and calls.                                          *)
(***************************************************************************)
EXTENDS FrameBuilder, TLAPS

PCs == {"loop", "look", "await", "asleep", "accept", "spin", "process", "decode",
        "lagRelease", "lagAwait", "lagAsleep", "release", "exited"}

(* Every variable that the other parts refer to has its type. *)
TypeOK ==
    /\ stream \in [Chips -> Seq(Int)] /\ ring \in [Chips -> Seq(Int)]
    /\ notifiers \subseteq Chips /\ 0 \in notifiers
    /\ frameId \in [Chips -> Int] /\ todo \subseteq Chips /\ chipmask \subseteq Chips
    /\ pc \in PCs /\ processed \in BOOLEAN

(* The frames that the builder takes for granted are there. *)
InHand ==
    /\ pc = "process" => abortFrame \/ \A i \in Chips : hasFrame(i)
    /\ pc \in {"decode", "lagRelease"} => \A i \in Chips : hasFrame(i)
    /\ pc \in {"lagAwait", "lagAsleep"} => \A i \in Chips \ {Lagging} : hasFrame(i)

(* The work left is some, and of chips whose frame is not current. *)
WorkLeft ==
    /\ pc \in {"lagRelease", "lagAwait", "lagAsleep"} => todo # {} /\ todo \subseteq chipmask
    /\ pc = "release" => todo # {}

(* Numbers already read are those of the frames still in hand. *)
NumbersCurrent ==
    pc \in {"decode", "lagRelease", "lagAwait", "lagAsleep"} =>
        \A i \in Chips \ chipmask : hasFrame(i) /\ frameId[i] = Head(ring[i])

ProcessedInHand == processed => pc = "release"

IInv == TypeOK /\ InHand /\ WorkLeft /\ NumbersCurrent /\ ProcessedInHand
        /\ Aligned /\ NoSleepOnInput /\ NoSleepOnLagging

-----------------------------------------------------------------------------
(* A set of chips has a first one. *)
LEMMA FirstOfSet ==
    ASSUME NEW S, S \subseteq Chips, S # {}
    PROVE  First(S) \in S
<1>1. S \subseteq {0, 1, 2, 3}
  BY BuilderAssumption DEF Chips
<1>2. \E i \in S : \A j \in S : i <= j
  <2>1. CASE 0 \in S  BY <2>1, <1>1
  <2>2. CASE 0 \notin S /\ 1 \in S  BY <2>2, <1>1
  <2>3. CASE 0 \notin S /\ 1 \notin S /\ 2 \in S  BY <2>3, <1>1
  <2>4. CASE 0 \notin S /\ 1 \notin S /\ 2 \notin S
    <3>1. \A i \in S : i = 3  BY <2>4, <1>1
    <3>2. PICK i \in S : i = 3  BY <3>1
    <3> QED  BY <3>1, <3>2
  <2> QED  BY <2>1, <2>2, <2>3, <2>4
<1> QED  BY <1>2 DEF First

(* Frames are appended to a ring behind its head. *)
LEMMA AppendKeepsHead ==
    ASSUME NEW s \in Seq(Int), NEW e \in Int
    PROVE  /\ Append(s, e) \in Seq(Int) /\ Append(s, e) # <<>>
           /\ s # <<>> => Head(Append(s, e)) = Head(s)
OBVIOUS

LEMMA TailIsSeq ==
    ASSUME NEW s \in Seq(Int), s # <<>>
    PROVE  Tail(s) \in Seq(Int) /\ Head(s) \in Int
OBVIOUS

(* No chip behind means no two numbers differ. *)
LEMMA NoneToDecodeAgain ==
    ASSUME NEW ids, Again(ids) = {}
    PROVE  \A i, j \in Chips : ids[i] = ids[j]
<1>1. CASE Different(ids)
  <2>1. Behind(ids) = {}  BY <1>1 DEF Again
  <2>2. \A i \in Chips : ids[i] = maxid(ids)  BY <2>1 DEF Behind
  <2> QED  BY <2>2
<1>2. CASE ~Different(ids)  BY <1>2 DEF Different
<1> QED  BY <1>1, <1>2

LEMMA InitIInv == Init => IInv
<1> SUFFICES ASSUME Init PROVE IInv  OBVIOUS
<1>1. 0 \in Chips  BY BuilderAssumption DEF Chips
<1>2. stream \in [Chips -> Seq(Int)] /\ ring \in [Chips -> Seq(Int)]
  BY BuilderAssumption DEF Init
<1>3. notifiers \subseteq Chips /\ 0 \in notifiers  BY <1>1 DEF Init
<1>4. TypeOK  BY <1>2, <1>3 DEF Init, TypeOK, PCs
<1>5. pc = "loop" /\ processed = FALSE  BY DEF Init
<1> QED
  BY <1>4, <1>5 DEF IInv, InHand, WorkLeft, NumbersCurrent, ProcessedInHand, Aligned,
      NoSleepOnInput, NoSleepOnLagging

-----------------------------------------------------------------------------
(* The receivers' steps. *)
LEMMA PublishIInv ==
    ASSUME IInv, NEW i \in Chips, nextFrameBuffer(i)
    PROVE  IInv'
<1> USE DEF IInv
<1>1. Head(stream[i]) \in Int /\ Tail(stream[i]) \in Seq(Int)
  BY TailIsSeq DEF nextFrameBuffer, TypeOK
<1>2. stream' \in [Chips -> Seq(Int)]  BY <1>1 DEF nextFrameBuffer, TypeOK
<1>3. /\ ring' \in [Chips -> Seq(Int)]
      /\ \A j \in Chips : hasFrame(j) => hasFrame(j)' /\ Head(ring'[j]) = Head(ring[j])
      /\ \A j \in Chips : j # i => ring'[j] = ring[j]
  <2>1. CASE UNCHANGED ring  BY <2>1 DEF TypeOK, hasFrame
  <2>2. CASE ring' = [ring EXCEPT ![i] = Append(@, Head(stream[i]))]
    BY <2>2, <1>1, AppendKeepsHead DEF TypeOK, hasFrame
  <2> QED  BY <2>1, <2>2 DEF nextFrameBuffer
<1>4. UNCHANGED <<notifiers, pc, stop, abortFrame, frameId, todo, chipmask, processed>>
  BY DEF nextFrameBuffer
<1>5. pending \subseteq pending' /\ (i \in notifiers => i \in pending')
  BY DEF nextFrameBuffer
<1>6. 0 \in Chips  BY BuilderAssumption DEF Chips
<1>7. TypeOK'  BY <1>2, <1>3, <1>4 DEF TypeOK
<1>8. (InHand /\ WorkLeft /\ NumbersCurrent /\ ProcessedInHand)'
  BY <1>3, <1>4 DEF InHand, WorkLeft, NumbersCurrent, ProcessedInHand, Lagging, hasFrame
<1>9. Aligned'  BY <1>3, <1>4, <1>6 DEF Aligned
<1>10. NoSleepOnInput'  BY <1>3, <1>4, <1>5, <1>6 DEF NoSleepOnInput, hasFrame, TypeOK
<1>11. NoSleepOnLagging'
  BY <1>3, <1>4, <1>5 DEF NoSleepOnLagging, hasFrame, TypeOK, Lagging
<1> QED  BY <1>7, <1>8, <1>9, <1>10, <1>11

LEMMA WokenIInv ==
    ASSUME IInv, pc' = Woken, UNCHANGED <<ring, stream, notifiers, frameId, todo, chipmask,
                                          processed>>,
           abortFrame' = abortFrame
    PROVE  IInv'
<1>1. pc' \in PCs /\ pc' \notin {"asleep", "lagAsleep"}
  BY DEF Woken, IInv, TypeOK, PCs
<1>2. pc' = pc \/ (pc = "asleep" /\ pc' = "loop") \/ (pc = "lagAsleep" /\ pc' = "lagAwait")
  BY DEF Woken
<1> QED
  BY <1>1, <1>2 DEF IInv, TypeOK, InHand, WorkLeft, NumbersCurrent, ProcessedInHand, Aligned,
      NoSleepOnInput, NoSleepOnLagging, hasFrame, Lagging

(* The steps of run that only look, and the client's calls: they change    *)
(* nothing but where the builder is, and the flags.                        *)
LEMMA LookIInv ==
    ASSUME IInv, TestStop \/ LookForInput \/ WaitForInput \/ Accept \/ AwaitOthers
    PROVE  IInv'
<1>1. UNCHANGED <<stream, notifiers, ring, pending, frameId, todo, chipmask, processed>>
  BY DEF TestStop, LookForInput, WaitForInput, Accept, AwaitOthers, GoTo, Elsewhere,
         Bookkeeping, receivers
<1>2. /\ pc' \in {"loop", "look", "await", "asleep", "accept", "spin", "process", "exited"}
      /\ pc \in {"loop", "look", "await", "accept", "spin"}
  BY DEF TestStop, LookForInput, WaitForInput, Accept, AwaitOthers, GoTo
<1>3. pc' = "asleep" => ~hasFrame(0)
  BY DEF TestStop, LookForInput, WaitForInput, Accept, AwaitOthers, GoTo
<1>4. pc' = "process" => abortFrame' \/ \A i \in Chips : hasFrame(i)
  BY DEF TestStop, LookForInput, WaitForInput, Accept, AwaitOthers, GoTo
<1>5. ~processed  BY <1>2 DEF IInv, ProcessedInHand
<1>6. TypeOK'  BY <1>1, <1>2 DEF IInv, TypeOK, PCs
<1> QED
  BY <1>1, <1>2, <1>3, <1>4, <1>5, <1>6 DEF IInv, InHand, WorkLeft, NumbersCurrent,
      ProcessedInHand, Aligned, NoSleepOnInput, NoSleepOnLagging, hasFrame

LEMMA CallIInv ==
    ASSUME IInv, AbortFrame \/ SetDecodeFrames \/ Stop \/ StopAborts
    PROVE  IInv'
<1>1. /\ UNCHANGED <<stream, notifiers, ring, pending, pc, frameId, todo, chipmask, processed>>
      /\ abortFrame' \in {abortFrame, TRUE}
  BY DEF AbortFrame, SetDecodeFrames, Stop, StopAborts, Call, builder, Bookkeeping, receivers
<1> QED
  BY <1>1 DEF IInv, TypeOK, InHand, WorkLeft, NumbersCurrent, ProcessedInHand, Aligned,
      NoSleepOnInput, NoSleepOnLagging, hasFrame, Lagging

-----------------------------------------------------------------------------
(* The builder's steps on frames. *)
LEMMA ReleaseIInv == ASSUME IInv, releaseFrames PROVE IInv'
<1>1. pc = "release" /\ todo # {} /\ First(todo) \in todo
  BY FirstOfSet DEF IInv, WorkLeft, releaseFrames, TypeOK
<1>2. pc' \in {"loop", "release"} /\ (pc' = "release" => todo' # {}) /\ ~processed'
  BY <1>1 DEF releaseFrames
<1>3. ring' \in [Chips -> Seq(Int)]
  <2>1. \A i \in Chips : (IF ring[i] = <<>> THEN ring[i] ELSE Tail(ring[i])) \in Seq(Int)
    BY TailIsSeq DEF IInv, TypeOK
  <2> QED  BY <2>1 DEF releaseFrames, IInv, TypeOK
<1>4. TypeOK'
  BY <1>2, <1>3 DEF IInv, TypeOK, PCs, releaseFrames, Elsewhere, receivers
<1> QED
  BY <1>2, <1>4 DEF IInv, InHand, WorkLeft, NumbersCurrent, ProcessedInHand, Aligned,
      NoSleepOnInput, NoSleepOnLagging

LEMMA BeginIInv == ASSUME IInv, BeginProcess PROVE IInv'
<1>1. 0 \in Chips  BY BuilderAssumption DEF Chips
<1>2. UNCHANGED <<stream, notifiers, ring, pending, frameId>> /\ processed' = FALSE
  BY DEF BeginProcess, Elsewhere, receivers
<1>3. CASE decode /\ ~abortFrame
  <2>1. pc = "process" /\ pc' = "decode" /\ chipmask' = Chips /\ todo' = todo
    BY <1>3 DEF BeginProcess
  <2>2. \A i \in Chips : hasFrame(i)  BY <1>3, <2>1 DEF IInv, InHand
  <2> QED
    BY <1>2, <2>1, <2>2 DEF IInv, TypeOK, PCs, InHand, WorkLeft, NumbersCurrent,
        ProcessedInHand, Aligned, NoSleepOnInput, NoSleepOnLagging, hasFrame
<1>4. CASE ~(decode /\ ~abortFrame)
  <2>1. pc' = "release" /\ todo' = Chips /\ chipmask' = chipmask
    BY <1>4 DEF BeginProcess
  <2> QED
    BY <1>1, <1>2, <2>1 DEF IInv, TypeOK, PCs, InHand, WorkLeft, NumbersCurrent,
        ProcessedInHand, Aligned, NoSleepOnInput, NoSleepOnLagging
<1> QED  BY <1>3, <1>4

LEMMA DecodeIInv == ASSUME IInv, Decode PROVE IInv'
<1>1. 0 \in Chips  BY BuilderAssumption DEF Chips
<1>2. /\ UNCHANGED <<stream, notifiers, ring, pending>> /\ pc = "decode" /\ ~processed
      /\ frameId' = Decoded /\ chipmask' = Again(frameId')
  BY DEF Decode, Elsewhere, receivers, IInv, ProcessedInHand
<1>3. \A i \in Chips : hasFrame(i) /\ frameId'[i] = Head(ring[i]) /\ Head(ring[i]) \in Int
  BY <1>2, TailIsSeq DEF IInv, InHand, NumbersCurrent, Decoded, TypeOK, hasFrame
<1>4. frameId' \in [Chips -> Int]  BY <1>2, <1>3 DEF Decoded
<1>5. chipmask' \subseteq Chips  BY <1>2 DEF Again, Behind
<1>6. CASE chipmask' = {}
  <2>1. pc' = "release" /\ todo' = Chips  BY <1>6 DEF Decode
  <2>2. \A i \in Chips : frameId'[i] = frameId'[0]
    BY <1>1, <1>2, <1>6, NoneToDecodeAgain
  <2>3. Aligned'  BY <1>1, <1>2, <1>3, <2>2 DEF Aligned, hasFrame
  <2>4. TypeOK'  BY <1>2, <1>4, <1>5, <1>6, <2>1 DEF Decode, IInv, TypeOK, PCs
  <2> QED
    BY <1>1, <2>1, <2>3, <2>4 DEF IInv, InHand, WorkLeft, NumbersCurrent, ProcessedInHand,
        NoSleepOnInput, NoSleepOnLagging
<1>7. CASE chipmask' # {}
  <2>1. processed' = FALSE  BY <1>2, <1>7 DEF Decode, IInv, TypeOK
  <2>2. \/ pc' = "lagRelease" /\ todo' = chipmask'
        \/ pc' = "decode" /\ todo' = todo
    BY <1>2, <1>7 DEF Decode
  <2>3. TypeOK'  BY <1>2, <1>4, <1>5, <2>1, <2>2 DEF IInv, TypeOK, PCs
  <2> QED
    BY <1>2, <1>3, <1>7, <2>1, <2>2, <2>3 DEF IInv, InHand, WorkLeft, NumbersCurrent,
        ProcessedInHand, Aligned, NoSleepOnInput, NoSleepOnLagging, hasFrame
<1> QED  BY <1>6, <1>7

LEMMA DropIInv == ASSUME IInv, DropLagging PROVE IInv'
<1>1. /\ UNCHANGED <<stream, notifiers, pending, frameId, todo, chipmask, processed>>
      /\ pc = "lagRelease" /\ pc' = "lagAwait" /\ ring' = [ring EXCEPT ![Lagging] = Tail(@)]
  BY DEF DropLagging, GoTo, Elsewhere, receivers, Bookkeeping
<1>2. todo # {} /\ todo \subseteq chipmask /\ Lagging \in todo /\ Lagging \in Chips
  BY <1>1, FirstOfSet DEF IInv, WorkLeft, TypeOK, Lagging
<1>3. Lagging' = Lagging  BY <1>1 DEF Lagging
<1>4. Tail(ring[Lagging]) \in Seq(Int)
  BY <1>1, <1>2, TailIsSeq DEF IInv, InHand, TypeOK, hasFrame
<1>5. TypeOK'  BY <1>1, <1>4 DEF IInv, TypeOK, PCs
<1>6. \A i \in Chips \ {Lagging} : ring'[i] = ring[i]  BY <1>1 DEF IInv, TypeOK
<1> QED
  BY <1>1, <1>2, <1>3, <1>5, <1>6 DEF IInv, InHand, WorkLeft, NumbersCurrent, ProcessedInHand,
      Aligned, NoSleepOnInput, NoSleepOnLagging, hasFrame

LEMMA AwaitIInv == ASSUME IInv, AwaitLagging PROVE IInv'
<1>1. /\ UNCHANGED <<stream, notifiers, ring, pending, frameId, chipmask, processed>>
      /\ pc = "lagAwait" /\ ~processed
  BY DEF AwaitLagging, Elsewhere, receivers, IInv, ProcessedInHand
<1>2. CASE hasFrame(Lagging)
  <2>1. /\ todo' = todo \ {Lagging}
        /\ pc' = IF todo' = {} THEN "decode" ELSE "lagRelease"
    BY <1>2 DEF AwaitLagging
  <2>2. \A i \in Chips : hasFrame(i)  BY <1>1, <1>2 DEF IInv, InHand
  <2>3. TypeOK'  BY <1>1, <2>1 DEF IInv, TypeOK, PCs
  <2> QED
    BY <1>1, <2>1, <2>2, <2>3 DEF IInv, InHand, WorkLeft, NumbersCurrent, ProcessedInHand,
        Aligned, NoSleepOnInput, NoSleepOnLagging, hasFrame
<1>3. CASE ~hasFrame(Lagging)
  <2>1. todo' = todo /\ pc' = "lagAsleep" /\ Lagging' = Lagging
    BY <1>3 DEF AwaitLagging, Lagging
  <2>2. TypeOK'  BY <1>1, <2>1 DEF IInv, TypeOK, PCs
  <2> QED
    BY <1>1, <1>3, <2>1, <2>2 DEF IInv, InHand, WorkLeft, NumbersCurrent, ProcessedInHand,
        Aligned, NoSleepOnInput, NoSleepOnLagging, hasFrame
<1> QED  BY <1>2, <1>3

-----------------------------------------------------------------------------
LEMMA NextIInv == IInv /\ [Next]_vars => IInv'
<1> SUFFICES ASSUME IInv, [Next]_vars PROVE IInv'  OBVIOUS
<1>1. CASE Receive
  <2>1. ASSUME NEW i \in Chips, nextFrameBuffer(i) PROVE IInv'  BY <2>1, PublishIInv
  <2>2. ASSUME NEW i \in Chips, inputNotification(i) PROVE IInv'
    BY <2>2, WokenIInv DEF inputNotification, receivers
  <2> QED  BY <1>1, <2>1, <2>2 DEF Receive
<1>2. CASE run  BY <1>2, LookIInv, ReleaseIInv DEF run
<1>3. CASE processFrame  BY <1>3, BeginIInv, DecodeIInv, DropIInv, AwaitIInv DEF processFrame
<1>4. CASE Client
  <2>1. CASE StopWakes  BY <2>1, WokenIInv DEF StopWakes, receivers, Bookkeeping
  <2> QED  BY <1>4, <2>1, CallIInv DEF Client
<1>5. CASE UNCHANGED vars
  BY <1>5 DEF vars, IInv, TypeOK, InHand, WorkLeft, NumbersCurrent, ProcessedInHand, Aligned,
      NoSleepOnInput, NoSleepOnLagging, hasFrame, Lagging
<1> QED  BY <1>1, <1>2, <1>3, <1>4, <1>5 DEF Next

LEMMA InvariantHolds == Spec => []IInv
<1> QED  BY InitIInv, NextIInv, PTL DEF Spec

(* The variables keep their types: the builder never works on chips that   *)
(* do not exist.                                                           *)
THEOREM BuilderTypes == Spec => []TypeOK
<1>1. IInv => TypeOK  BY DEF IInv
<1> QED  BY <1>1, InvariantHolds, PTL

(* What processFrame decodes as one frame is there in all rings, under one *)
(* number (the loop on chipmask).                                          *)
THEOREM FramesAligned == Spec => []Aligned
<1>1. IInv => Aligned  BY DEF IInv
<1> QED  BY <1>1, InvariantHolds, PTL

(* No wake-up is lost between the test and the wait of run.                *)
THEOREM InputWakes == Spec => []NoSleepOnInput
<1>1. IInv => NoSleepOnInput  BY DEF IInv
<1> QED  BY <1>1, InvariantHolds, PTL

(* Nor between those of processFrame.                                      *)
THEOREM LaggingWakes == Spec => []NoSleepOnLagging
<1>1. IInv => NoSleepOnLagging  BY DEF IInv
<1> QED  BY <1>1, InvariantHolds, PTL
=============================================================================
