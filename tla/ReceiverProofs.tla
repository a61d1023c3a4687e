----------------------------- MODULE ReceiverProofs -----------------------------
(***************************************************************************)
(* The receivers' ring of frame buffers, for both classes and for every    *)
(* number of buffers and geometry of packets: what the consumer has been   *)
(* offered is not touched, leaves in order, and is dropped only when all   *)
(* other buffers are taken.  Then what they tell of a frame: the losses in *)
(* it, their totals and the counter it belongs to.                         *)
(***************************************************************************)
EXTENDS ReceiverThreadC, SequenceTheorems, FiniteSetTheorems, TLAPS

NR == NR_OF_FRAMEBUFS

-----------------------------------------------------------------------------
(* Slots modulo the number of buffers.                                     *)

(* No multiple of n lies between 0 and n. *)
LEMMA NoMultipleBetween ==
    ASSUME NEW n \in Nat \ {0}, NEW q \in Int, 0 < n * q, n * q < n
    PROVE  FALSE
<1>1. CASE q <= 0
  BY <1>1
<1>2. CASE q >= 1
  BY <1>2
<1> QED
  BY <1>1, <1>2

(* The remainder of what is at most one n away from it. *)
LEMMA NearRemainder ==
    ASSUME NEW n \in Nat \ {0}, NEW r \in 0 .. n - 1, NEW k \in {-1, 0, 1}
    PROVE  (r + k * n) % n = r
<1> DEFINE i == r + k * n
           q == i \div n
<1>1. i \in Int /\ q \in Int
  OBVIOUS
<1>2. i = n * q + (i % n) /\ i % n \in 0 .. n - 1
  BY <1>1
<1>3. k * n = n * k
  OBVIOUS
<1>4. n * (q - k) = r - (i % n) /\ n * (k - q) = (i % n) - r
  BY <1>1, <1>2, <1>3
<1>5. ~ (0 < n * (q - k)) /\ ~ (0 < n * (k - q))
  BY <1>1, <1>2, <1>4, NoMultipleBetween
<1> QED
  BY <1>2, <1>4, <1>5

(* In particular: of r itself, and of one n more or less. *)
LEMMA Remainders ==
    ASSUME NEW n \in Nat \ {0}, NEW r \in 0 .. n - 1
    PROVE  r % n = r /\ (r + n) % n = r /\ (r - n) % n = r
<1>1. (r + 0 * n) % n = r /\ (r + 1 * n) % n = r /\ (r + (-1) * n) % n = r
  <2>1. -1 \in {-1, 0, 1} /\ 0 \in {-1, 0, 1} /\ 1 \in {-1, 0, 1}
    OBVIOUS
  <2> QED
    BY <2>1, NearRemainder, Zenon
<1>2. r + 0 * n = r /\ r + 1 * n = r + n /\ r + (-1) * n = r - n
  OBVIOUS
<1> QED
  BY <1>1, <1>2, Zenon

(* The next slot, without the remainder. *)
LEMMA NextSlotIs ==
    ASSUME NEW s \in Slots
    PROVE  NextSlot(s) = IF s = NR - 1 THEN 0 ELSE s + 1
<1> USE ReceiverAssumption DEF NR, NextSlot, Slots
<1>1. NR \in Nat \ {0}
  OBVIOUS
<1>2. CASE s = NR - 1
  <2>1. (0 + NR) % NR = 0
    BY <1>1, Remainders
  <2> QED
    BY <1>2, <2>1
<1>3. CASE s # NR - 1
  <2>1. (s + 1) % NR = s + 1
    BY <1>1, <1>3, Remainders
  <2> QED
    BY <1>3, <2>1
<1> QED
  BY <1>2, <1>3

(* How far the head is ahead of the tail. *)
LEMMA DistanceIs ==
    ASSUME NEW h \in Slots, NEW t \in Slots
    PROVE  (h - t) % NR = IF t <= h THEN h - t ELSE h - t + NR
<1> USE ReceiverAssumption DEF NR, Slots
<1>1. NR \in Nat \ {0}
  OBVIOUS
<1>2. CASE t <= h
  <2>1. h - t \in 0 .. NR - 1
    BY <1>2
  <2>2. (h - t) % NR = h - t
    BY <1>1, <2>1, Remainders, Zenon
  <2> QED
    BY <1>2, <2>2
<1>3. CASE h < t
  <2>1. h - t + NR \in 0 .. NR - 1 /\ (h - t + NR) - NR = h - t
    BY <1>3
  <2>2. ((h - t + NR) - NR) % NR = h - t + NR
    BY <1>1, <2>1, Remainders, Zenon
  <2> QED
    BY <1>3, <2>1, <2>2
<1> QED
  BY <1>2, <1>3

(* The slot so many places behind another. *)
LEMMA SlotIs ==
    ASSUME NEW t \in Slots, NEW k \in 0 .. NR - 1
    PROVE  (t + k) % NR = IF t + k < NR THEN t + k ELSE t + k - NR
<1> USE ReceiverAssumption DEF NR, Slots
<1>1. NR \in Nat \ {0}
  OBVIOUS
<1>2. CASE t + k < NR
  <2>1. t + k \in 0 .. NR - 1
    BY <1>2
  <2>2. (t + k) % NR = t + k
    BY <1>1, <2>1, Remainders, Zenon
  <2> QED
    BY <1>2, <2>2
<1>3. CASE t + k >= NR
  <2>1. t + k - NR \in 0 .. NR - 1 /\ (t + k - NR) + NR = t + k
    BY <1>3
  <2>2. ((t + k - NR) + NR) % NR = t + k - NR
    BY <1>1, <2>1, Remainders, Zenon
  <2> QED
    BY <1>3, <2>1, <2>2
<1> QED
  BY <1>2, <1>3

-----------------------------------------------------------------------------
(* The queue: an entry for each slot from the tail on.                     *)

Entry(s) == <<frameBuffer[s], packetsLostFrame[s], isCounterhFrame[s]>>
Length == IF empty THEN 0 ELSE (head - tail) % NR
SlotOf(i) == (tail + i - 1) % NR

OnSlots(f) == f = [s \in Slots |-> f[s]]

(* The ring is empty when head and tail meet; they never do when it fills. *)
RingInv ==
    /\ head \in Slots /\ tail \in Slots /\ (empty <=> head = tail)
    /\ framesLost \in Nat
    /\ OnSlots(frameBuffer) /\ OnSlots(packetsLostFrame) /\ OnSlots(isCounterhFrame)

(* The queue in these terms, before a step and after it. *)
LEMMA QueueIs == Queue = [i \in 1 .. Length |-> Entry(SlotOf(i))]
BY DEF Queue, Length, Entry, SlotOf, NR

LEMMA QueueAfter == Queue' = [i \in 1 .. Length' |-> Entry(SlotOf(i))']
BY DEF Queue, Length, Entry, SlotOf, NR

(* How many buffers are queued: all but one at most. *)
LEMMA LengthIs ==
    ASSUME RingInv
    PROVE  /\ Length = IF tail <= head THEN head - tail ELSE head - tail + NR
           /\ Length \in 0 .. NR - 1
<1>1. (head - tail) % NR = IF tail <= head THEN head - tail ELSE head - tail + NR
  BY DistanceIs DEF RingInv
<1>2. head \in 0 .. NR - 1 /\ tail \in 0 .. NR - 1 /\ (empty <=> head = tail)
  BY DEF RingInv, Slots, NR
<1>3. NR \in Nat
  BY ReceiverAssumption DEF NR
<1>4. Length = IF tail <= head THEN head - tail ELSE head - tail + NR
  <2>1. CASE empty
    BY <1>2, <2>1 DEF Length
  <2>2. CASE ~ empty
    BY <1>1, <2>2 DEF Length
  <2> QED
    BY <2>1, <2>2
<1> QED
  BY <1>2, <1>3, <1>4

(* The queued slots are neither the head's nor, behind the first, the      *)
(* tail's.                                                                 *)
LEMMA SlotOfIs ==
    ASSUME RingInv, NEW i \in 1 .. Length
    PROVE  /\ SlotOf(i) = IF tail + i - 1 < NR THEN tail + i - 1 ELSE tail + i - 1 - NR
           /\ SlotOf(i) \in Slots /\ SlotOf(i) # head
           /\ i > 1 => SlotOf(i) # tail
           /\ ~ Full => SlotOf(i) # NextSlot(head)
<1>1. head \in 0 .. NR - 1 /\ tail \in 0 .. NR - 1 /\ NR \in Nat
  BY ReceiverAssumption DEF RingInv, Slots, NR
<1>2. i - 1 \in 0 .. NR - 1 /\ tail + i - 1 = tail + (i - 1)
  BY <1>1, LengthIs
<1>3. SlotOf(i) = IF tail + i - 1 < NR THEN tail + i - 1 ELSE tail + i - 1 - NR
  <2>1. (tail + (i - 1)) % NR
            = IF tail + (i - 1) < NR THEN tail + (i - 1) ELSE tail + (i - 1) - NR
    BY <1>2, SlotIs DEF RingInv
  <2> QED
    BY <1>2, <2>1 DEF SlotOf
<1>4. NextSlot(head) = IF head = NR - 1 THEN 0 ELSE head + 1
  BY NextSlotIs DEF RingInv
<1>5. i <= Length /\ Length = IF tail <= head THEN head - tail ELSE head - tail + NR
  BY LengthIs
<1>6. SlotOf(i) \in 0 .. NR - 1 /\ SlotOf(i) # head
  BY <1>1, <1>2, <1>3, <1>5
<1>7. i > 1 => SlotOf(i) # tail
  BY <1>1, <1>2, <1>3
<1>8. NextSlot(head) # tail => SlotOf(i) # NextSlot(head)
  BY <1>1, <1>2, <1>3, <1>4, <1>5
<1> QED
  BY <1>3, <1>6, <1>7, <1>8 DEF Full, Slots, NR

(* The queue is a sequence, of whatever S its entries are in. *)
LEMMA QueueSeq ==
    ASSUME RingInv, NEW S, \A s \in Slots : Entry(s) \in S
    PROVE  /\ Queue \in Seq(S) /\ Len(Queue) = Length /\ Length \in Nat
           /\ \A i \in 1 .. Length : Queue[i] = Entry(SlotOf(i))
<1>1. Length \in Nat
  BY LengthIs
<1>2. \A i \in 1 .. Length : Entry(SlotOf(i)) \in S
  BY SlotOfIs
<1> HIDE DEF RingInv, Length, Entry, SlotOf, Queue
<1> QED
  BY <1>1, <1>2, QueueIs

-----------------------------------------------------------------------------
(* What a step does to the ring.                                           *)

Untouched(slots) == \A s \in Slots \ slots : Entry(s)' = Entry(s)
StillOnSlots == (OnSlots(frameBuffer) /\ OnSlots(packetsLostFrame) /\ OnSlots(isCounterhFrame))'

(* It works on the buffer at the head, *)
Works ==
    /\ UNCHANGED <<head, tail, empty>> /\ framesLost' \in {framesLost, 0}
    /\ StillOnSlots /\ Untouched({head})
(* or publishes it, *)
Publishes ==
    /\ nextFrameBuffer /\ UNCHANGED tail
    /\ StillOnSlots /\ Untouched({head, NewHead})
(* or the consumer takes one out. *)
Releases ==
    /\ ~ empty /\ tail' = NextSlot(tail) /\ empty' = (NextSlot(tail) = head)
    /\ UNCHANGED <<head, framesLost>>
    /\ StillOnSlots /\ Untouched({tail})

(* With two buffers or more the next slot is another one. *)
LEMMA NextSlotType ==
    ASSUME NEW s \in Slots
    PROVE  NextSlot(s) \in Slots /\ NextSlot(s) # s
BY NextSlotIs, ReceiverAssumption DEF Slots, NR

(* None of the three breaks the ring. *)
LEMMA RingKept ==
    ASSUME RingInv, Works \/ Publishes \/ Releases
    PROVE  RingInv'
<1>1. CASE Works
  BY <1>1 DEF Works, RingInv, StillOnSlots
<1>2. CASE Publishes
  BY <1>2, NextSlotType DEF Publishes, nextFrameBuffer, NewHead, Full, RingInv, StillOnSlots
<1>3. CASE Releases
  BY <1>3, NextSlotType DEF Releases, RingInv, StillOnSlots
<1> QED
  BY <1>1, <1>2, <1>3

(* Work on the buffer at the head is not seen in the queue. *)
LEMMA WorksQueue == ASSUME RingInv, Works PROVE Queue' = Queue
<1>1. Length' = Length /\ \A i \in 1 .. Length : SlotOf(i)' = SlotOf(i)
  BY DEF Works, Length, SlotOf
<1>2. \A i \in 1 .. Length : Entry(SlotOf(i))' = Entry(SlotOf(i))
  <2> SUFFICES ASSUME NEW i \in 1 .. Length PROVE Entry(SlotOf(i))' = Entry(SlotOf(i))
    OBVIOUS
  <2>1. SlotOf(i) \in Slots \ {head} /\ SlotOf(i)' = SlotOf(i)
    BY <1>1, SlotOfIs
  <2>2. \A s \in Slots \ {head} : Entry(s)' = Entry(s)
    BY DEF Works, Untouched
  <2> QED
    BY <2>1, <2>2 DEF Entry
<1>3. Queue' = [i \in 1 .. Length' |-> Entry(SlotOf(i))']
  BY QueueAfter
<1> QED
  BY <1>1, <1>2, <1>3, QueueIs

(* The next buffer, when all are taken and when not. *)
LEMMA PublishedLength ==
    ASSUME RingInv, Publishes
    PROVE  /\ Full => Length' = Length /\ Length = NR - 1
           /\ ~ Full => /\ Length' = Length + 1 /\ Length < NR - 1
                        /\ \A i \in {Length + 1} : SlotOf(i)' = head
<1>1. head \in 0 .. NR - 1 /\ tail \in 0 .. NR - 1 /\ NR \in Nat
  BY ReceiverAssumption DEF RingInv, Slots, NR
<1>2. tail' = tail /\ (Full <=> NextSlot(head) = tail)
      /\ head' = (IF Full THEN head ELSE NextSlot(head)) /\ head' \in 0 .. NR - 1
  BY NextSlotType DEF Publishes, nextFrameBuffer, NewHead, Full, RingInv, Slots, NR
<1>3. NextSlot(head) = IF head = NR - 1 THEN 0 ELSE head + 1
  BY NextSlotIs DEF RingInv
<1>4. /\ Length = (IF tail <= head THEN head - tail ELSE head - tail + NR)
      /\ Length \in 0 .. NR - 1
  BY LengthIs
<1>5. Length' = IF tail <= head' THEN head' - tail ELSE head' - tail + NR
  <2>1. (head' - tail) % NR = IF tail <= head' THEN head' - tail ELSE head' - tail + NR
    BY <1>2, DistanceIs DEF RingInv, Slots, NR
  <2>2. ~ empty'
    BY DEF Publishes, nextFrameBuffer
  <2> QED
    BY <1>2, <2>1, <2>2 DEF Length
<1>6. Full => Length' = Length /\ Length = NR - 1
  BY <1>1, <1>2, <1>3, <1>4, <1>5
<1>7. ~ Full => Length' = Length + 1 /\ Length < NR - 1
  BY <1>1, <1>2, <1>3, <1>4, <1>5
<1>8. \A i \in {Length + 1} : SlotOf(i)' = (tail + Length) % NR
  <2>1. \A i \in {Length + 1} : tail' + i - 1 = tail + Length
    BY <1>1, <1>2, <1>4
  <2> QED
    BY <2>1 DEF SlotOf, NR
<1>9. (tail + Length) % NR = head
  <2>1. (tail + Length) % NR = IF tail + Length < NR THEN tail + Length ELSE tail + Length - NR
    BY <1>4, SlotIs DEF RingInv
  <2> QED
    BY <1>1, <1>4, <2>1
<1> QED
  BY <1>6, <1>7, <1>8, <1>9

(* Publishing appends a frame, or with all buffers taken changes nothing. *)
LEMMA PublishedQueue ==
    ASSUME RingInv, Publishes
    PROVE  /\ Full => Queue' = Queue /\ Len(Queue) = NR - 1
           /\ ~ Full => /\ Len(Queue') = Len(Queue) + 1 /\ SubSeq(Queue', 1, Len(Queue)) = Queue
                        /\ Len(Queue) < NR - 1
<1> DEFINE S == {Entry(s) : s \in Slots} \cup {Entry(s)' : s \in Slots}
           q == Queue
           r == Queue'
<1>2. ASSUME NEW i \in 1 .. Length, ~ Full \/ NewHead = head
      PROVE  Entry(SlotOf(i))' = Entry(SlotOf(i))
  <2>1. SlotOf(i) \in Slots \ {head, NewHead} /\ SlotOf(i)' = SlotOf(i)
    BY <1>2, SlotOfIs DEF Publishes, SlotOf, NewHead
  <2>2. \A s \in Slots \ {head, NewHead} : Entry(s)' = Entry(s)
    BY DEF Publishes, Untouched
  <2> QED
    BY <2>1, <2>2 DEF Entry
<1>3. /\ q \in Seq(S) /\ Len(q) = Length /\ Length \in Nat
      /\ \A i \in 1 .. Length : q[i] = Entry(SlotOf(i))
  BY QueueSeq
<1>4. r = [i \in 1 .. Length' |-> Entry(SlotOf(i))']
  BY QueueAfter
<1>6. CASE Full
  <2>1. Length' = Length /\ Length = NR - 1 /\ NewHead = head
    BY <1>6, PublishedLength DEF NewHead
  <2>2. \A i \in 1 .. Length : Entry(SlotOf(i))' = Entry(SlotOf(i))
    BY <1>2, <2>1
  <2>3. r = q
    BY <1>4, <2>1, <2>2, QueueIs
  <2> QED
    BY <1>3, <1>6, <2>1, <2>3 DEF q, r
<1>7. CASE ~ Full
  <2>1. /\ Length' = Length + 1 /\ Length < NR - 1
        /\ \A i \in {Length + 1} : SlotOf(i)' = head
    BY <1>7, PublishedLength
  <2>2. \A i \in 1 .. Length : Entry(SlotOf(i))' = Entry(SlotOf(i))
    BY <1>2, <1>7
  <2>3. \A i \in 1 .. Length : Entry(SlotOf(i))' \in S
    BY <2>2, SlotOfIs
  <2>4. \A i \in {Length + 1} : Entry(SlotOf(i))' \in S
    <3>1. head \in Slots
      BY DEF RingInv
    <3> QED
      BY <2>1, <3>1 DEF Entry
  <2>5. \A i \in 1 .. Length' : i \in 1 .. Length \/ i \in {Length + 1}
    BY <1>3, <2>1
  <2>6. \A i \in 1 .. Length' : Entry(SlotOf(i))' \in S
    BY <2>3, <2>4, <2>5
  <2> HIDE DEF S, q, r
  <2>7. r \in Seq(S) /\ Len(r) = Len(q) + 1 /\ \A i \in 1 .. Len(q) : r[i] = q[i]
    <3>1. Length' \in Nat
      BY <1>3, <2>1
    <3>2. r \in Seq(S) /\ Len(r) = Length'
      BY <1>4, <2>6, <3>1
    <3>3. \A i \in 1 .. Length : i \in 1 .. Length'
      BY <1>3, <2>1
    <3> QED
      BY <1>3, <1>4, <2>1, <2>2, <3>2, <3>3
  <2>8. \A i \in 1 .. Len(q) : r[i] \in S
    BY <1>3, <2>7, ElementOfSeq
  <2>9. /\ SubSeq(r, 1, Len(q)) \in Seq(S)
        /\ Len(SubSeq(r, 1, Len(q))) = Len(q)
        /\ \A i \in 1 .. Len(q) : SubSeq(r, 1, Len(q))[i] = r[i]
    BY <1>3, <2>8, SubSeqProperties
  <2>10. SubSeq(r, 1, Len(q)) = q
    BY <1>3, <2>7, <2>9, SeqEqual
  <2> QED
    BY <1>3, <1>7, <2>1, <2>7, <2>10 DEF q, r
<1> QED
  BY <1>6, <1>7

(* The queue without its first, when the tail moves on. *)
LEMMA ReleasedLength ==
    ASSUME RingInv, Releases
    PROVE  /\ Length' = Length - 1 /\ Length # 0
           /\ \A i \in 1 .. Length - 1 : SlotOf(i)' = SlotOf(i + 1)
<1>1. head \in 0 .. NR - 1 /\ tail \in 0 .. NR - 1 /\ NR \in Nat \ {0} /\ head # tail
  BY ReceiverAssumption DEF Releases, RingInv, Slots, NR
<1>2. tail' = (IF tail = NR - 1 THEN 0 ELSE tail + 1) /\ tail' \in 0 .. NR - 1
  BY <1>1, NextSlotIs DEF Releases, RingInv
<1>3. /\ Length = (IF tail <= head THEN head - tail ELSE head - tail + NR)
      /\ Length \in 0 .. NR - 1
  BY LengthIs
<1>4. Length' = IF tail' <= head THEN head - tail' ELSE head - tail' + NR
  <2>1. (head - tail') % NR = IF tail' <= head THEN head - tail' ELSE head - tail' + NR
    BY <1>1, <1>2, DistanceIs DEF Slots, NR
  <2>2. (empty' <=> tail' = head) /\ head' = head
    BY DEF Releases
  <2>3. CASE empty'
    BY <1>1, <2>2, <2>3 DEF Length
  <2>4. CASE ~ empty'
    BY <2>1, <2>2, <2>4 DEF Length
  <2> QED
    BY <2>3, <2>4
<1>5. Length' = Length - 1 /\ Length # 0
  BY <1>1, <1>2, <1>3, <1>4
<1>6. ASSUME NEW i \in 1 .. Length - 1 PROVE SlotOf(i)' = SlotOf(i + 1)
  <2>1. i \in 1 .. NR - 1 /\ i - 1 \in 0 .. NR - 1 /\ i + 1 \in 1 .. Length
    BY <1>1, <1>3
  <2>2. (tail' + (i - 1)) % NR
            = IF tail' + (i - 1) < NR THEN tail' + (i - 1) ELSE tail' + (i - 1) - NR
    BY <1>2, <2>1, SlotIs DEF Slots, NR
  <2>3. SlotOf(i)' = (tail' + (i - 1)) % NR
    <3>1. tail' + i - 1 = tail' + (i - 1)
      BY <1>2, <2>1
    <3> QED
      BY <3>1 DEF SlotOf, NR
  <2>4. (tail + i) % NR = IF tail + i < NR THEN tail + i ELSE tail + i - NR
    BY <1>1, <2>1, SlotIs DEF Slots, NR
  <2>5. SlotOf(i + 1) = (tail + i) % NR
    <3>1. tail + (i + 1) - 1 = tail + i
      BY <1>1, <2>1
    <3> QED
      BY <3>1 DEF SlotOf
  <2> QED
    BY <1>1, <1>2, <2>1, <2>2, <2>3, <2>4, <2>5
<1> QED
  BY <1>5, <1>6

(* A release takes the first frame out. *)
LEMMA ReleasedQueue == ASSUME RingInv, Releases PROVE Queue # <<>> /\ Queue' = Tail(Queue)
<1> DEFINE S == {Entry(s) : s \in Slots}
           q == Queue
           r == Queue'
<1>0. \A s \in Slots : Entry(s) \in S
  OBVIOUS
<1>1. /\ q \in Seq(S) /\ Len(q) = Length /\ Length \in Nat
      /\ \A i \in 1 .. Length : q[i] = Entry(SlotOf(i))
  <2> HIDE DEF S
  <2> QED
    BY <1>0, QueueSeq
<1>2. r = [i \in 1 .. Length' |-> Entry(SlotOf(i))']
  BY QueueAfter
<1>3. /\ Length' = Length - 1 /\ Length # 0
      /\ \A i \in 1 .. Length - 1 : SlotOf(i)' = SlotOf(i + 1)
  BY ReleasedLength
<1>4. ASSUME NEW i \in 1 .. Length - 1
      PROVE  /\ Entry(SlotOf(i))' = Entry(SlotOf(i + 1))
             /\ Entry(SlotOf(i + 1)) \in S
  <2>1. i + 1 \in 1 .. Length /\ i + 1 > 1
    BY <1>1
  <2>2. SlotOf(i + 1) \in Slots \ {tail}
    BY <2>1, SlotOfIs
  <2>3. \A s \in Slots \ {tail} : Entry(s)' = Entry(s)
    BY DEF Releases, Untouched
  <2>4. SlotOf(i)' = SlotOf(i + 1)
    BY <1>3
  <2> QED
    BY <2>2, <2>3, <2>4 DEF Entry
<1>5. q # <<>>
  BY <1>1, <1>3, EmptySeq
<1> HIDE DEF S, q, r
<1>6. r \in Seq(S) /\ Len(r) = Length - 1 /\ \A i \in 1 .. Len(r) : r[i] = q[i + 1]
  <2>1. Length - 1 \in Nat
    BY <1>1, <1>3
  <2>2. r = [i \in 1 .. Length - 1 |-> Entry(SlotOf(i + 1))]
    BY <1>2, <1>3, <1>4
  <2>3. \A i \in 1 .. Length - 1 : i + 1 \in 1 .. Length
    BY <1>1
  <2> QED
    BY <1>1, <1>4, <2>1, <2>2, <2>3
<1>7. /\ Tail(q) \in Seq(S) /\ Len(Tail(q)) = Len(q) - 1
      /\ \A i \in 1 .. Len(Tail(q)) : Tail(q)[i] = q[i + 1]
  BY <1>1, <1>5, HeadTailProperties
<1>8. r = Tail(q)
  BY <1>1, <1>6, <1>7, SeqEqual
<1> QED
  BY <1>5, <1>8 DEF q, r

-----------------------------------------------------------------------------
(* The steps of the two classes.                                           *)

Idle == UNCHANGED <<ring, framesLost>>
Step == Works \/ Publishes \/ Releases \/ Idle

(* Doing nothing to the ring is no work on the head's buffer. *)
LEMMA IdleWorks == ASSUME RingInv, Idle PROVE Works
BY DEF Idle, ring, Works, StillOnSlots, OnSlots, Untouched, Entry, RingInv

(* Hence whatever a step does of these keeps the ring. *)
LEMMA StepKept == ASSUME RingInv, Step PROVE RingInv'
BY IdleWorks, RingKept DEF Step

(* The head to be is a slot as the head is. *)
LEMMA NewHeadType == ASSUME RingInv PROVE head \in Slots /\ NewHead \in Slots
BY NextSlotType DEF RingInv, NewHead

(* g is f but at some slots. *)
OnlyAt(f, g, slots) == g = [s \in Slots |-> g[s]] /\ \A s \in Slots \ slots : g[s] = f[s]

(* An EXCEPT changes one slot, *)
LEMMA UpdateOne ==
    ASSUME NEW f, OnSlots(f), NEW h \in Slots, NEW v, NEW g, g = [f EXCEPT ![h] = v],
           NEW slots, h \in slots
    PROVE  OnlyAt(f, g, slots) /\ OnSlots(g)
BY DEF OnlyAt, OnSlots

(* no EXCEPT none, *)
LEMMA UpdateNone ==
    ASSUME NEW f, OnSlots(f), NEW slots PROVE OnlyAt(f, f, slots)
BY DEF OnlyAt, OnSlots

(* changes add up, *)
LEMMA UpdateMore ==
    ASSUME NEW f, NEW g, NEW k, NEW slots, OnlyAt(f, g, slots), OnlyAt(g, k, slots)
    PROVE  OnlyAt(f, k, slots)
BY DEF OnlyAt

(* and what is true of the three parts of a buffer is true of the          *)
(* entries.                                                                *)
LEMMA ThreeUpdates ==
    ASSUME NEW slots, OnlyAt(frameBuffer, frameBuffer', slots),
           OnlyAt(packetsLostFrame, packetsLostFrame', slots),
           OnlyAt(isCounterhFrame, isCounterhFrame', slots)
    PROVE  StillOnSlots /\ Untouched(slots)
BY DEF OnlyAt, StillOnSlots, OnSlots, Untouched, Entry

(* Two EXCEPTs, one upon the other. *)
LEMMA UpdateTwo ==
    ASSUME NEW f, OnSlots(f), NEW h \in Slots, NEW v, NEW k \in Slots, NEW w,
           NEW g, g = [[f EXCEPT ![h] = v] EXCEPT ![k] = w], NEW slots, h \in slots, k \in slots
    PROVE  OnlyAt(f, g, slots)
<1> DEFINE e == [f EXCEPT ![h] = v]
<1>1. OnlyAt(f, e, slots) /\ OnSlots(e)
  BY UpdateOne
<1> HIDE DEF e
<1>2. g = [e EXCEPT ![k] = w]
  BY DEF e
<1>3. OnlyAt(e, g, slots)
  BY <1>1, <1>2, UpdateOne
<1> QED
  BY <1>1, <1>3, UpdateMore

(* A step that changes no more than the head's buffer works on it. *)
LEMMA WorksIf ==
    ASSUME UNCHANGED <<head, tail, empty>>, framesLost' \in {framesLost, 0},
           OnlyAt(frameBuffer, frameBuffer', {head}),
           OnlyAt(packetsLostFrame, packetsLostFrame', {head}),
           OnlyAt(isCounterhFrame, isCounterhFrame', {head})
    PROVE  Works
BY ThreeUpdates DEF Works

(* One that turns to the next buffer publishes the head's. *)
LEMMA PublishesIf ==
    ASSUME nextFrameBuffer, UNCHANGED tail,
           OnlyAt(frameBuffer, frameBuffer', {head, NewHead}),
           OnlyAt(packetsLostFrame, packetsLostFrame', {head, NewHead}),
           OnlyAt(isCounterhFrame, isCounterhFrame', {head, NewHead})
    PROVE  Publishes
BY ThreeUpdates DEF Publishes

(* What of the invariant the lemmas on the steps use. *)
LEMMA SlotsOfInv ==
    ASSUME RingInv
    PROVE  /\ head \in Slots /\ tail \in Slots /\ NewHead \in Slots
           /\ OnSlots(frameBuffer) /\ OnSlots(packetsLostFrame) /\ OnSlots(isCounterhFrame)
BY NewHeadType DEF RingInv

(* A packet that continues the frame counts in the head's buffer. *)
LEMMA SameFrameStep == ASSUME RingInv, SameFrame PROVE Works
<1>1. /\ UNCHANGED <<head, tail, empty, framesLost, frameBuffer, isCounterhFrame>>
      /\ \E v : packetsLostFrame' = [packetsLostFrame EXCEPT ![head] = v]
  BY DEF SameFrame, Read, CountFrom
<1>2. OnlyAt(packetsLostFrame, packetsLostFrame', {head})
  BY <1>1, SlotsOfInv, UpdateOne
<1>3. OnlyAt(frameBuffer, frameBuffer', {head}) /\ OnlyAt(isCounterhFrame, isCounterhFrame', {head})
  BY <1>1, SlotsOfInv, UpdateNone
<1> QED
  BY <1>1, <1>2, <1>3, WorksIf

(* One that begins a frame publishes the last one if that was cut short,   *)
(* and then works on the buffer it begins.                                 *)
LEMMA NewFrameStep == ASSUME RingInv, NewFrame PROVE Works \/ Publishes
<1>1. PICK pkt \in Packets, shutter_cnt \in Shutters :
          LET early == expSequenceNr # Per(pkt)
          IN  /\ UNCHANGED tail
              /\ IF early THEN nextFrameBuffer /\ frameBuffer' = Emptied(frameBuffer)
                          ELSE UNCHANGED <<head, empty, framesLost, frameBuffer>>
              /\ isCounterhFrame' = [isCounterhFrame EXCEPT ![head'] = @ \/ FirstOfH(pkt)]
              /\ \E v : packetsLostFrame' = [CountFrom(pkt) EXCEPT ![head'] = v]
  BY DEF NewFrame, Read
<1>2. \E u, v : packetsLostFrame' = [[packetsLostFrame EXCEPT ![head] = u] EXCEPT ![head'] = v]
  BY <1>1 DEF CountFrom
<1>3. \E u : isCounterhFrame' = [isCounterhFrame EXCEPT ![head'] = u]
  BY <1>1
<1>4. CASE expSequenceNr # Per(pkt)
  <2>1. nextFrameBuffer /\ frameBuffer' = [frameBuffer EXCEPT ![NewHead] = {}]
        /\ head' = NewHead
    BY <1>1, <1>4 DEF Emptied, nextFrameBuffer
  <2>2. OnlyAt(frameBuffer, frameBuffer', {head, NewHead})
    BY <2>1, SlotsOfInv, UpdateOne
  <2>3. OnlyAt(isCounterhFrame, isCounterhFrame', {head, NewHead})
    BY <1>3, <2>1, SlotsOfInv, UpdateOne
  <2>4. OnlyAt(packetsLostFrame, packetsLostFrame', {head, NewHead})
    BY <1>2, <2>1, SlotsOfInv, UpdateTwo
  <2> QED
    BY <1>1, <2>1, <2>2, <2>3, <2>4, PublishesIf
<1>5. CASE ~ (expSequenceNr # Per(pkt))
  <2>1. UNCHANGED <<head, tail, empty, framesLost, frameBuffer>>
    BY <1>1, <1>5
  <2>2. OnlyAt(frameBuffer, frameBuffer', {head})
    BY <2>1, SlotsOfInv, UpdateNone
  <2>3. OnlyAt(isCounterhFrame, isCounterhFrame', {head})
    BY <1>3, <2>1, SlotsOfInv, UpdateOne
  <2>4. OnlyAt(packetsLostFrame, packetsLostFrame', {head})
    BY <1>2, <2>1, SlotsOfInv, UpdateTwo
  <2> QED
    BY <2>1, <2>2, <2>3, <2>4, WorksIf
<1> QED
  BY <1>4, <1>5

(* Storing a packet fills the head's buffer, and publishes it when         *)
(* complete.                                                               *)
LEMMA StoreStep == ASSUME RingInv, Store PROVE Works \/ Publishes
<1>1. UNCHANGED <<tail, isCounterhFrame>>
  BY DEF Store
<1>2. \E u : Stored = [frameBuffer EXCEPT ![head] = u]
  <2>1. frameBuffer = [frameBuffer EXCEPT ![head] = frameBuffer[head]]
    BY SlotsOfInv DEF OnSlots
  <2> QED
    BY <2>1 DEF Stored
<1>3. \E u : Counted = [packetsLostFrame EXCEPT ![head] = u]
  <2>1. packetsLostFrame = [packetsLostFrame EXCEPT ![head] = packetsLostFrame[head]]
    BY SlotsOfInv DEF OnSlots
  <2> QED
    BY <2>1 DEF Counted
<1>4. CASE Complete
  <2>1. nextFrameBuffer /\ frameBuffer' = [Stored EXCEPT ![NewHead] = {}]
        /\ \E v : packetsLostFrame' = [Counted EXCEPT ![NewHead] = v]
    BY <1>4 DEF Store, Emptied
  <2>2. OnlyAt(frameBuffer, frameBuffer', {head, NewHead})
    BY <1>2, <2>1, SlotsOfInv, UpdateTwo
  <2>3. OnlyAt(packetsLostFrame, packetsLostFrame', {head, NewHead})
    BY <1>3, <2>1, SlotsOfInv, UpdateTwo
  <2>4. OnlyAt(isCounterhFrame, isCounterhFrame', {head, NewHead})
    BY <1>1, SlotsOfInv, UpdateNone
  <2> QED
    BY <1>1, <2>1, <2>2, <2>3, <2>4, PublishesIf
<1>5. CASE ~ Complete
  <2>1. frameBuffer' = Stored /\ packetsLostFrame' = Counted
        /\ UNCHANGED <<head, empty, framesLost>>
    BY <1>5 DEF Store
  <2>2. OnlyAt(frameBuffer, frameBuffer', {head})
    BY <1>2, <2>1, SlotsOfInv, UpdateOne
  <2>3. OnlyAt(packetsLostFrame, packetsLostFrame', {head})
    BY <1>3, <2>1, SlotsOfInv, UpdateOne
  <2>4. OnlyAt(isCounterhFrame, isCounterhFrame', {head})
    BY <1>1, SlotsOfInv, UpdateNone
  <2> QED
    BY <1>1, <2>1, <2>2, <2>3, <2>4, WorksIf
<1> QED
  BY <1>4, <1>5

(* The second time-out publishes, others leave the ring alone. *)
LEMMA TimeoutStep == ASSUME RingInv, handleFrameTimeout PROVE Idle \/ Publishes
<1>1. CASE UNCHANGED <<ring, framesLost>>
  BY <1>1 DEF Idle
<1>2. CASE ~ UNCHANGED <<ring, framesLost>>
  <2>1. /\ nextFrameBuffer /\ UNCHANGED <<tail, isCounterhFrame>>
        /\ frameBuffer' = [frameBuffer EXCEPT ![NewHead] = {}]
        /\ \E v : packetsLostFrame' = [packetsLostFrame EXCEPT ![NewHead] = v]
    BY <1>2 DEF handleFrameTimeout, Emptied
  <2>2. OnlyAt(frameBuffer, frameBuffer', {head, NewHead})
    BY <2>1, SlotsOfInv, UpdateOne
  <2>3. OnlyAt(packetsLostFrame, packetsLostFrame', {head, NewHead})
    BY <2>1, SlotsOfInv, UpdateOne
  <2>4. OnlyAt(isCounterhFrame, isCounterhFrame', {head, NewHead})
    BY <2>1, SlotsOfInv, UpdateNone
  <2> QED
    BY <2>1, <2>2, <2>3, <2>4, PublishesIf
<1> QED
  BY <1>1, <1>2

(* releaseFrame clears the flag of the buffer it takes out. *)
LEMMA ReleaseStep == ASSUME RingInv, releaseFrame PROVE Releases
<1>1. /\ ~ empty /\ tail' = NextSlot(tail) /\ empty' = (NextSlot(tail) = head)
      /\ UNCHANGED <<head, framesLost, frameBuffer, packetsLostFrame>>
      /\ isCounterhFrame' = [isCounterhFrame EXCEPT ![tail] = FALSE]
  BY DEF releaseFrame, ClearedFlag, stats
<1>2. OnlyAt(isCounterhFrame, isCounterhFrame', {tail})
  BY <1>1, SlotsOfInv, UpdateOne
<1>3. OnlyAt(frameBuffer, frameBuffer', {tail})
      /\ OnlyAt(packetsLostFrame, packetsLostFrame', {tail})
  BY <1>1, SlotsOfInv, UpdateNone
<1> QED
  BY <1>1, <1>2, <1>3, ThreeUpdates DEF Releases

(* Starting, stopping and leaving the loop do not concern the ring. *)
LEMMA LifetimeStep == ASSUME Lifetime PROVE Idle
BY DEF Lifetime, BeginRun, Open, LeaveLoop, Stop, idle, stats, Idle

(* resetLost changes the counts of losses only, where it is not undone. *)
LEMMA ResetStep == ASSUME RingInv, resetLost \/ resetLostC PROVE Works
<1>1. UNCHANGED ring /\ framesLost' \in {framesLost, 0}
  BY DEF resetLost, resetLostC, Cleared
<1>2. UNCHANGED <<head, tail, empty, frameBuffer, isCounterhFrame, packetsLostFrame>>
  BY <1>1 DEF ring
<1>3. /\ OnlyAt(frameBuffer, frameBuffer', {head})
      /\ OnlyAt(packetsLostFrame, packetsLostFrame', {head})
      /\ OnlyAt(isCounterhFrame, isCounterhFrame', {head})
  BY <1>2, SlotsOfInv, UpdateNone
<1> QED
  BY <1>1, <1>2, <1>3, WorksIf

-----------------------------------------------------------------------------
(* The words of the Compact-SPIDR: a word is kept in the buffer at hand,   *)
(* or ends a frame.                                                        *)

(* The info header sets the flag of the head's buffer. *)
LEMMA InfoHeaderStep == ASSUME RingInv, InfoHeader PROVE Works
<1>1. /\ UNCHANGED <<head, tail, empty, framesLost, packetsLostFrame>>
      /\ \E u : frameBuffer' = [frameBuffer EXCEPT ![head] = u]
      /\ \E u : isCounterhFrame' = [isCounterhFrame EXCEPT ![head] = u]
  BY DEF InfoHeader, NextWord, Keep
<1>2. /\ OnlyAt(frameBuffer, frameBuffer', {head})
      /\ OnlyAt(isCounterhFrame, isCounterhFrame', {head})
  BY <1>1, SlotsOfInv, UpdateOne
<1>3. OnlyAt(packetsLostFrame, packetsLostFrame', {head})
  BY <1>1, SlotsOfInv, UpdateNone
<1> QED
  BY <1>1, <1>2, <1>3, WorksIf

(* A word of the frame is copied to the head's buffer. *)
LEMMA SameBufferStep ==
    ASSUME RingInv, NextWord, NEW counted, SameBuffer(counted)
    PROVE  Works
<1>1. /\ UNCHANGED <<head, tail, empty, framesLost, packetsLostFrame, isCounterhFrame>>
      /\ \E u : frameBuffer' = [frameBuffer EXCEPT ![head] = u]
  BY DEF SameBuffer, NextWord, Keep
<1>2. OnlyAt(frameBuffer, frameBuffer', {head})
  BY <1>1, SlotsOfInv, UpdateOne
<1>3. /\ OnlyAt(packetsLostFrame, packetsLostFrame', {head})
      /\ OnlyAt(isCounterhFrame, isCounterhFrame', {head})
  BY <1>1, SlotsOfInv, UpdateNone
<1> QED
  BY <1>1, <1>2, <1>3, WorksIf

(* nextFrame publishes; the word in hand is copied to the next buffer, or  *)
(* was to the last.                                                        *)
LEMMA NextFrameStep ==
    ASSUME RingInv, NextWord, NEW counted, NEW pixels, nextFrame(counted, pixels),
           CopiedToNext \/ frameBuffer' = Emptied(Keep)
    PROVE  Publishes
<1>1. /\ nextFrameBuffer /\ UNCHANGED <<tail, isCounterhFrame>>
      /\ \E u : packetsLostFrame' = [packetsLostFrame EXCEPT ![NewHead] = u]
  BY DEF nextFrame, NextWord
<1>2. OnlyAt(frameBuffer, frameBuffer', {head, NewHead})
  <2>1. CASE CopiedToNext
    <3>1. frameBuffer' = [[frameBuffer EXCEPT ![NewHead] = {}] EXCEPT ![NewHead] = {Word}]
      BY <2>1 DEF CopiedToNext, Emptied
    <3> QED
      BY <3>1, SlotsOfInv, UpdateTwo
  <2>2. CASE frameBuffer' = Emptied(Keep)
    <3>1. \E u : frameBuffer' = [[frameBuffer EXCEPT ![head] = u] EXCEPT ![NewHead] = {}]
      BY <2>2 DEF Keep, Emptied
    <3> QED
      BY <3>1, SlotsOfInv, UpdateTwo
  <2> QED
    BY <2>1, <2>2
<1>3. OnlyAt(packetsLostFrame, packetsLostFrame', {head, NewHead})
  BY <1>1, SlotsOfInv, UpdateOne
<1>4. OnlyAt(isCounterhFrame, isCounterhFrame', {head, NewHead})
  BY <1>1, SlotsOfInv, UpdateNone
<1> QED
  BY <1>1, <1>2, <1>3, <1>4, PublishesIf

(* Every word, and every lost packet, does one of these. *)
LEMMA WordStep == ASSUME RingInv, readDatagramsC PROVE Step
<1>1. CASE InfoHeader
  BY <1>1, InfoHeaderStep DEF Step
<1>2. CASE LosePacket
  BY <1>2 DEF LosePacket, receiver, stats, Step, Idle
<1>3. CASE StartOfFrame \/ StartOfRow \/ Middle \/ EndOfRow \/ EndOfFrame
  <2>1. NextWord
    BY <1>3 DEF StartOfFrame, StartOfRow, Middle, EndOfRow, EndOfFrame
  <2>2. \/ \E counted : SameBuffer(counted)
        \/ /\ \E counted, pixels : nextFrame(counted, pixels)
           /\ CopiedToNext \/ frameBuffer' = Emptied(Keep)
    <3>1. CASE StartOfFrame
      BY <3>1 DEF StartOfFrame
    <3>2. CASE StartOfRow
      BY <3>2 DEF StartOfRow
    <3>3. CASE Middle
      BY <3>3 DEF Middle
    <3>4. CASE EndOfRow
      BY <3>4 DEF EndOfRow
    <3>5. CASE EndOfFrame
      BY <3>5 DEF EndOfFrame
    <3> QED
      BY <1>3, <3>1, <3>2, <3>3, <3>4, <3>5
  <2> QED
    BY <2>1, <2>2, SameBufferStep, NextFrameStep DEF Step
<1> QED
  BY <1>1, <1>2, <1>3 DEF readDatagramsC

(* And so does every step of either class. *)
LEMMA NextStep == ASSUME RingInv, [Next]_rvars PROVE Step
<1>1. CASE readDatagrams
  BY <1>1, SameFrameStep, NewFrameStep, StoreStep DEF readDatagrams, Step
<1>2. CASE resetLost \/ resetLostC
  BY <1>2, ResetStep DEF Step
<1>3. CASE handleFrameTimeout
  BY <1>3, TimeoutStep DEF Step
<1>4. CASE releaseFrame
  BY <1>4, ReleaseStep DEF Step
<1>5. CASE Lifetime
  BY <1>5, LifetimeStep DEF Step
<1>6. CASE readDatagramsC
  BY <1>6, WordStep
<1>7. CASE UNCHANGED rvars
  BY <1>7 DEF rvars, receiver, stats, Idle, Step
<1> QED
  BY <1>1, <1>2, <1>3, <1>4, <1>5, <1>6, <1>7 DEF Next, Base

-----------------------------------------------------------------------------
(* The ring's invariant, for every number of buffers above one: head_ and  *)
(* tail_ stay in the ring and _empty is set exactly when they meet, so     *)
(* that nextFrameBuffer's test for a full ring and releaseFrame's for an   *)
(* empty one are never confused.                                           *)
THEOREM RingIsSound == Spec => []RingInv
<1>1. Init => RingInv
  BY ReceiverAssumption DEF Init, BaseInit, RingInv, Slots, OnSlots
<1>2. RingInv /\ [Next]_rvars => RingInv'
  BY NextStep, StepKept
<1> QED
  BY <1>1, <1>2, PTL DEF Spec

(* Every frame that ends is counted as received, and nothing else is. *)
LEMMA EveryEndCounted ==
    ASSUME [Next]_rvars
    PROVE  nextFrameBuffer \/ UNCHANGED framesReceived
<1>1. CASE readDatagrams
  BY <1>1 DEF readDatagrams, SameFrame, NewFrame, Store
<1>2. CASE resetLost \/ resetLostC
  BY <1>2 DEF resetLost, resetLostC
<1>3. CASE handleFrameTimeout
  BY <1>3 DEF handleFrameTimeout
<1>4. CASE releaseFrame \/ Lifetime
  BY <1>4 DEF releaseFrame, Lifetime, BeginRun, Open, LeaveLoop, Stop, idle, stats
<1>5. CASE readDatagramsC
  <2>1. CASE InfoHeader
    BY <2>1 DEF InfoHeader
  <2>2. CASE StartOfFrame \/ EndOfFrame
    BY <2>2 DEF StartOfFrame, EndOfFrame, SameBuffer, nextFrame
  <2>3. CASE StartOfRow
    BY <2>3 DEF StartOfRow, SameBuffer, nextFrame
  <2>4. CASE Middle
    BY <2>4 DEF Middle, SameBuffer, nextFrame
  <2>5. CASE EndOfRow
    BY <2>5 DEF EndOfRow, SameBuffer, nextFrame
  <2>6. CASE LosePacket
    BY <2>6 DEF LosePacket, receiver, stats
  <2> QED
    BY <1>5, <2>1, <2>2, <2>3, <2>4, <2>5, <2>6 DEF readDatagramsC
<1>6. CASE UNCHANGED rvars
  BY <1>6 DEF rvars, receiver, stats
<1> QED
  BY <1>1, <1>2, <1>3, <1>4, <1>5, <1>6 DEF Next, Base

(* A frame ends by nextFrameBuffer only, and it does end by it. *)
LEMMA EndPublishes ==
    ASSUME RingInv, Step
    PROVE  nextFrameBuffer <=> Publishes
<1>1. nextFrameBuffer => head' # head \/ framesLost' = framesLost + 1
  BY NextSlotType DEF nextFrameBuffer, NewHead, RingInv
<1>2. framesLost \in Nat
  BY DEF RingInv
<1>3. Works \/ Releases \/ Idle => head' = head /\ framesLost' \in {framesLost, 0}
  BY DEF Works, Releases, Idle, ring
<1>4. nextFrameBuffer => ~ (Works \/ Releases \/ Idle)
  BY <1>1, <1>2, <1>3
<1> QED
  BY <1>4 DEF Step, Publishes

(* What the consumer is offered is a bounded queue: nothing enters it but a *)
(* frame that ends, with room for it, and every frame that ends is counted *)
(* as received, and as lost when there is no room; for every number of     *)
(* buffers, in every interleaving of the two threads, with packets lost,   *)
(* repeated and reordered, time-outs, resets of the counts and stops.      *)
THEOREM ReceiverImplementsRing == Spec => ImplementsRing
<1>1. Init => Ring!Init
  <2> SUFFICES ASSUME Init PROVE Ring!Init
    OBVIOUS
  <2>1. empty = TRUE /\ framesReceived = 0 /\ framesLost = 0
    BY DEF Init, BaseInit
  <2>2. Queue = <<>>
    <3>1. 1 .. (IF empty THEN 0 ELSE (head - tail) % NR_OF_FRAMEBUFS) = {}
      BY <2>1
    <3> QED
      BY <3>1 DEF Queue
  <2> QED
    BY <2>1, <2>2 DEF Ring!Init
<1>2. RingInv /\ [Next]_rvars => [Ring!Next]_(Ring!vars)
  <2> SUFFICES ASSUME RingInv, [Next]_rvars PROVE [Ring!Next]_(Ring!vars)
    OBVIOUS
  <2>1. Step /\ (nextFrameBuffer \/ UNCHANGED framesReceived)
    BY NextStep, EveryEndCounted
  <2>2. CASE Publishes
    <3>1. /\ framesReceived' = framesReceived + 1
          /\ framesLost' = IF Full THEN framesLost + 1 ELSE framesLost
      BY <2>2 DEF Publishes, nextFrameBuffer
    <3>2. CASE Full
      BY <2>2, <3>1, <3>2, PublishedQueue DEF Ring!Overrun, Ring!Next, NR
    <3>3. CASE ~ Full
      BY <2>2, <3>1, <3>3, PublishedQueue DEF Ring!Publish, Ring!Next, NR
    <3> QED
      BY <3>2, <3>3
  <2>3. CASE ~ Publishes
    <3>1. UNCHANGED framesReceived /\ (Works \/ Releases)
      BY <2>1, <2>3, EndPublishes, IdleWorks DEF Step
    <3>2. CASE Works
      <4>1. Queue' = Queue /\ framesLost' \in {framesLost, 0}
        BY <3>2, WorksQueue DEF Works
      <4> QED
        BY <3>1, <4>1 DEF Ring!ResetLost, Ring!Next, Ring!vars
    <3>3. CASE Releases
      <4>1. Queue # <<>> /\ Queue' = Tail(Queue) /\ UNCHANGED framesLost
        BY <3>3, ReleasedQueue DEF Releases
      <4> QED
        BY <3>1, <4>1 DEF Ring!Take, Ring!Next
    <3> QED
      BY <3>1, <3>2, <3>3
  <2> QED
    BY <2>2, <2>3
<1>3. Spec => []RingInv
  BY RingIsSound
<1> QED
  BY <1>1, <1>2, <1>3, PTL DEF Spec, ImplementsRing, Ring!Spec

-----------------------------------------------------------------------------
(* What a frame counts and flags.  A frame's positions are those of the    *)
(* packets stored in it, and good is a frame whose count of lost packets   *)
(* is that of the positions it misses, of n.                               *)

Positions(buffer) == {p.pos : p \in buffer}
Good(entry, n) ==
    /\ Positions(entry[1]) \subseteq 0 .. n - 1
    /\ entry[2] = n - Cardinality(Positions(entry[1]))
FlagOK(entry) == entry[3] => \E p \in entry[1] : p.counter = 1

N == PacketsPerFrame(cut)

(* The packets missed so far, also while one of them is in hand. *)
Missed == expSequenceNr - (expPacketsPerFrame - packetsLostFrame[head])
Ahead ==
    IF packet # NoPacket THEN Missed - 1
    ELSE IF Complete THEN 0 ELSE Missed

(* Before the first packet. *)
Untried ==
    /\ empty /\ expSequenceNr = 0 /\ frameBuffer[head] = {}
    /\ packetsLost = 0 /\ history.losses = 0

(* Once packets are counted: the positions stored in the current frame are *)
(* below the one that is due.                                              *)
Counts ==
    /\ expPayloadSize = cut /\ expPacketsPerFrame = N /\ currShutterCnt # -1
    /\ expSequenceNr \in 1 .. N
    /\ \A p \in frameBuffer[head] :
           p.pos \in Nat /\ p.pos < (IF packet = NoPacket THEN expSequenceNr ELSE expSequenceNr - 1)
    /\ Good(Entry(head), N)
    /\ packet = NoPacket /\ Complete => frameBuffer[head] = {}
Sums ==
    /\ packetsLost \in Int /\ history.losses \in Int
    /\ packetsLost = history.losses + Ahead

QueueGood == \A i \in 1 .. Length : Good(Entry(SlotOf(i)), N)

(* The invariant.  The Compact-SPIDR's packets have no numbers. *)
CountTypes ==
    /\ cut \in Payloads /\ packetsReceived \in Nat /\ compact \in BOOLEAN
    /\ history = [losses |-> history.losses, misled |-> history.misled,
                  overrun |-> history.overrun]
    /\ isCounterhFrame \in [Slots -> BOOLEAN]
    /\ packetsReceived = 0 => currShutterCnt = -1 /\ packet = NoPacket
    /\ compact => packetsReceived = 0
CountInv ==
    /\ CountTypes
    /\ ~ compact /\ packetsReceived = 0 => Untried
    /\ Counting => Counts /\ Sums /\ QueueGood

(* Flags: the slots outside the queue have none, but for the head's.       *)
Free(s) == s # head /\ \A i \in 1 .. Length : SlotOf(i) # s
HeadFlag ==
    isCounterhFrame[head] =>
        \/ \E p \in frameBuffer[head] : p.counter = 1
        \/ packet # NoPacket /\ packet \div N = 1
FreeUnflagged == \A s \in Slots : Free(s) => ~ isCounterhFrame[s]
QueueFlagged == \A i \in 1 .. Length : FlagOK(Entry(SlotOf(i)))
Flagged == FreeUnflagged /\ QueueFlagged /\ HeadFlag
FlagInv == ~ compact /\ ~ history.overrun /\ ~ history.misled => Flagged

(* The pixels' total, of the Compact-SPIDR. *)
PixelInv ==
    compact =>
        /\ {pixelsLost, history.losses, rowCnt, rowPixels} \subseteq Int
        /\ pixelsLostFrame \in [Slots -> Int]
        /\ pixelsLost = history.losses + pixelsLostFrame[head]

-----------------------------------------------------------------------------
(* Lemmas on these.                                                        *)

(* A frame has one packet at least. *)
LEMMA PerFrameType ==
    ASSUME NEW c \in 1 .. FrameSize
    PROVE  PacketsPerFrame(c) \in Nat \ {0}
<1> DEFINE x == FrameSize + c - 1
           q == x \div c
<1>1. FrameSize \in Nat \ {0} /\ c \in Nat \ {0}
  BY ReceiverAssumption
<1>2. x \in Nat /\ x >= c /\ q \in Int
  BY <1>1
<1> HIDE DEF x
<1>3. x = c * q + (x % c) /\ x % c \in 0 .. c - 1
  BY <1>1, <1>2
<1>4. ~ (c * q <= 0)
  BY <1>1, <1>2, <1>3
<1>5. q <= 0 => c * q <= 0
  BY <1>1, <1>2
<1>6. q \in Nat \ {0}
  BY <1>2, <1>4, <1>5
<1> QED
  BY <1>6 DEF x, PacketsPerFrame

(* And so has every module's. *)
LEMMA NType == ASSUME cut \in Payloads PROVE N \in Nat \ {0}
BY PerFrameType, ReceiverAssumption DEF N

(* The packets of a module that cuts a frame into N. *)
LEMMA PacketIs ==
    ASSUME cut \in Payloads, NEW pkt \in Packets
    PROVE  /\ pkt.seq \in Nat /\ pkt.seq % N \in 0 .. N - 1
           /\ pkt.seq = N => pkt.seq \div N = 1
<1>1. N \in Nat \ {0}
  BY NType
<1>2. pkt.seq \in 0 .. 2 * N - 1
  BY DEF Packets, N
<1>3. pkt.seq \in Nat
  BY <1>1, <1>2
<1>4. N \div N = 1
  <2> DEFINE q == N \div N
  <2>1. q \in Int /\ N = N * q + (N % N) /\ N % N \in 0 .. N - 1
    BY <1>1
  <2>2. N % N = 0
    <3>1. (0 + N) % N = 0
      BY <1>1, Remainders
    <3> QED
      BY <1>1, <3>1
  <2>3. N * (q - 1) = 0
    BY <1>1, <2>1, <2>2
  <2> QED
    BY <1>1, <2>1, <2>3
<1> QED
  BY <1>1, <1>3, <1>4

(* Nothing is stored, and all is missing. *)
LEMMA EmptyGood ==
    ASSUME NEW entry, entry[1] = {}, NEW n \in Nat, entry[2] = n
    PROVE  Good(entry, n)
<1>1. Positions(entry[1]) = {}
  BY DEF Positions
<1> QED
  BY <1>1, FS_EmptySet DEF Good

(* One more is stored, and one less is missing. *)
LEMMA StoredGood ==
    ASSUME NEW entry, NEW n \in Nat, Good(entry, n),
           NEW piece, piece.pos \in 0 .. n - 1,
           \A p \in entry[1] : p.pos # piece.pos,
           NEW more, more[1] = entry[1] \cup {piece}, more[2] = entry[2] - 1
    PROVE  Good(more, n)
<1> DEFINE P == Positions(entry[1])
<1>1. Positions(more[1]) = P \cup {piece.pos} /\ piece.pos \notin P
  BY DEF Positions
<1>2. P \subseteq 0 .. n - 1 /\ entry[2] = n - Cardinality(P)
  BY DEF Good
<1>3. IsFiniteSet(P)
  <2>1. IsFiniteSet(0 .. n - 1)
    BY FS_Interval
  <2> QED
    BY <1>2, <2>1, FS_Subset
<1>4. Cardinality(P) \in Nat
  BY <1>3, FS_CardinalityType
<1>5. Cardinality(P \cup {piece.pos}) = Cardinality(P) + 1
  BY <1>1, <1>3, FS_AddElement
<1> HIDE DEF P
<1>6. more[2] = n - (Cardinality(P) + 1)
  BY <1>2, <1>4
<1> QED
  BY <1>1, <1>2, <1>5, <1>6 DEF Good

(* A good frame that misses all has nothing stored, and its count is a     *)
(* number.                                                                 *)
LEMMA GoodCount ==
    ASSUME NEW entry, NEW n \in Nat, Good(entry, n)
    PROVE  entry[2] \in Int /\ (entry[1] = {} => entry[2] = n)
<1> DEFINE P == Positions(entry[1])
<1>1. P \subseteq 0 .. n - 1 /\ entry[2] = n - Cardinality(P)
  BY DEF Good
<1>2. IsFiniteSet(P)
  <2>1. IsFiniteSet(0 .. n - 1)
    BY FS_Interval
  <2> QED
    BY <1>1, <2>1, FS_Subset
<1>3. Cardinality(P) \in Nat
  BY <1>2, FS_CardinalityType
<1>4. entry[1] = {} => P = {}
  BY DEF Positions
<1>5. P = {} => Cardinality(P) = 0
  BY FS_EmptySet, Zenon
<1> HIDE DEF P
<1> QED
  BY <1>1, <1>3, <1>4, <1>5

-----------------------------------------------------------------------------
(* What becomes of the queue's entries.                                    *)

(* The entry of the buffer that was filled, after the step. *)
HeadEntry == <<frameBuffer'[head], packetsLostFrame'[head], isCounterhFrame'[head]>>

(* What becomes of the queue's slots: one was queued before, and is not    *)
(* worked on, or it is the head's, just published.                         *)
LEMMA SlotNext ==
    ASSUME RingInv, Step, NEW i \in 1 .. Length'
    PROVE  \/ \E j \in 1 .. Length, s \in Slots \ {head, head'} :
                  SlotOf(j) = s /\ SlotOf(i)' = s /\ Entry(s)' = Entry(s)
           \/ Publishes /\ ~ Full /\ SlotOf(i)' = head
<1>0. Length \in Nat
  BY LengthIs
<1>1. CASE Works
  <2>1. Length' = Length /\ SlotOf(i)' = SlotOf(i) /\ head' = head
    BY <1>1 DEF Works, Length, SlotOf
  <2>2. SlotOf(i) \in Slots \ {head}
    BY <2>1, SlotOfIs
  <2>3. \A s \in Slots \ {head} : Entry(s)' = Entry(s)
    BY <1>1 DEF Works, Untouched
  <2> QED
    BY <2>1, <2>2, <2>3
<1>2. CASE Publishes
  <2>1. CASE i \in 1 .. Length
    <3>1. head' = NewHead /\ (Full => NewHead = head)
      BY <1>2 DEF Publishes, nextFrameBuffer, NewHead
    <3>2. SlotOf(i) \in Slots \ {head, NewHead} /\ SlotOf(i)' = SlotOf(i)
      BY <1>2, <2>1, <3>1, SlotOfIs DEF Publishes, SlotOf, NewHead
    <3>3. \A s \in Slots \ {head, NewHead} : Entry(s)' = Entry(s)
      BY <1>2 DEF Publishes, Untouched
    <3> QED
      BY <2>1, <3>1, <3>2, <3>3
  <2>2. CASE i \notin 1 .. Length
    <3>1. ~ Full /\ Length' = Length + 1
      BY <1>2, <2>2, PublishedLength
    <3>2. i = Length + 1
      BY <1>0, <2>2, <3>1
    <3>3. SlotOf(i)' = head
      BY <1>2, <3>1, <3>2, PublishedLength
    <3> QED
      BY <1>2, <3>1, <3>3
  <2> QED
    BY <2>1, <2>2
<1>3. CASE Releases
  <2>1. Length' = Length - 1 /\ i \in 1 .. Length - 1 /\ head' = head
    BY <1>3, ReleasedLength DEF Releases
  <2>2. SlotOf(i)' = SlotOf(i + 1)
    BY <1>3, <2>1, ReleasedLength
  <2>3. i + 1 \in 1 .. Length /\ i + 1 > 1
    BY <1>0, <2>1
  <2>4. SlotOf(i + 1) \in Slots \ {tail, head}
    BY <2>3, SlotOfIs
  <2>5. \A s \in Slots \ {tail} : Entry(s)' = Entry(s)
    BY <1>3 DEF Releases, Untouched
  <2> QED
    BY <2>1, <2>2, <2>3, <2>4, <2>5
<1> QED
  BY <1>1, <1>2, <1>3, IdleWorks DEF Step

(* Its entry was in the queue, then, or is the buffer just published. *)
LEMMA QueueNext ==
    ASSUME RingInv, Step, NEW i \in 1 .. Length'
    PROVE  \/ \E j \in 1 .. Length : Entry(SlotOf(i))' = Entry(SlotOf(j))
           \/ Publishes /\ ~ Full /\ Entry(SlotOf(i))' = HeadEntry
<1>1. CASE \E j \in 1 .. Length, s \in Slots \ {head, head'} :
               SlotOf(j) = s /\ SlotOf(i)' = s /\ Entry(s)' = Entry(s)
  BY <1>1 DEF Entry
<1>2. CASE Publishes /\ ~ Full /\ SlotOf(i)' = head
  BY <1>2 DEF Entry, HeadEntry
<1> QED
  BY <1>1, <1>2, SlotNext

(* Hence what is true of the queue's entries and of the buffer published   *)
(* stays true of the queue.                                                *)
LEMMA QueueStaysGood ==
    ASSUME RingInv, Step, cut' = cut, QueueGood,
           Publishes /\ ~ Full => Good(HeadEntry, N)
    PROVE  QueueGood'
<1> SUFFICES ASSUME NEW i \in 1 .. Length' PROVE Good(Entry(SlotOf(i)), N)'
  BY DEF QueueGood
<1>1. N' = N
  BY DEF N, PacketsPerFrame
<1>2. CASE \E j \in 1 .. Length : Entry(SlotOf(i))' = Entry(SlotOf(j))
  BY <1>1, <1>2 DEF QueueGood, Good
<1>3. CASE Publishes /\ ~ Full /\ Entry(SlotOf(i))' = HeadEntry
  BY <1>1, <1>3 DEF Good
<1> QED
  BY <1>2, <1>3, QueueNext

(* The same of the flags. *)
LEMMA QueueStaysFlagged ==
    ASSUME RingInv, Step, QueueFlagged, Publishes /\ ~ Full => FlagOK(HeadEntry)
    PROVE  QueueFlagged'
<1> SUFFICES ASSUME NEW i \in 1 .. Length' PROVE FlagOK(Entry(SlotOf(i)))'
  BY DEF QueueFlagged
<1>2. CASE \E j \in 1 .. Length : Entry(SlotOf(i))' = Entry(SlotOf(j))
  BY <1>2 DEF QueueFlagged, FlagOK
<1>3. CASE Publishes /\ ~ Full /\ Entry(SlotOf(i))' = HeadEntry
  BY <1>3 DEF FlagOK
<1> QED
  BY <1>2, <1>3, QueueNext

(* The next buffer is free unless the ring is full. *)
LEMMA NewHeadFree == ASSUME RingInv, ~ Full PROVE Free(NewHead) /\ NewHead # head
BY SlotOfIs, NextSlotType DEF Free, NewHead, RingInv

(* The slots that become free are the tail's. *)
LEMMA FreeNext ==
    ASSUME RingInv, Step, NEW s \in Slots, Free(s)'
    PROVE  (Free(s) /\ Entry(s)' = Entry(s)) \/ (Releases /\ s = tail)
<1>0. Length \in Nat
  BY LengthIs
<1>1. CASE Works
  <2>1. Length' = Length /\ head' = head /\ \A i \in 1 .. Length : SlotOf(i)' = SlotOf(i)
    BY <1>1 DEF Works, Length, SlotOf
  <2>2. Free(s)
    BY <2>1 DEF Free
  <2>3. Entry(s)' = Entry(s)
    BY <1>1, <2>2 DEF Works, Untouched, Free
  <2> QED
    BY <2>2, <2>3
<1>2. CASE Publishes
  <2>1. s # NewHead
    BY <1>2 DEF Publishes, nextFrameBuffer, Free
  <2>2. \A i \in 1 .. Length : SlotOf(i)' = SlotOf(i)
    BY <1>2 DEF Publishes, SlotOf
  <2>3. 1 .. Length \subseteq 1 .. Length'
    BY <1>0, <1>2, PublishedLength
  <2>4. \A i \in 1 .. Length : SlotOf(i) # s
    BY <2>2, <2>3 DEF Free
  <2>5. s # head
    <3>1. CASE Full
      BY <2>1, <3>1 DEF NewHead
    <3>2. CASE ~ Full
      <4>1. Length + 1 \in 1 .. Length'
        BY <1>0, <1>2, <3>2, PublishedLength
      <4>2. \A i \in {Length + 1} : SlotOf(i)' = head
        BY <1>2, <3>2, PublishedLength
      <4> QED
        BY <4>1, <4>2 DEF Free
    <3> QED
      BY <3>1, <3>2
  <2>6. Entry(s)' = Entry(s)
    BY <1>2, <2>1, <2>5 DEF Publishes, Untouched
  <2> QED
    BY <2>4, <2>5, <2>6 DEF Free
<1>3. CASE Releases
  <2> SUFFICES ASSUME s # tail PROVE Free(s) /\ Entry(s)' = Entry(s)
    BY <1>3
  <2>1. Length' = Length - 1 /\ \A i \in 1 .. Length - 1 : SlotOf(i)' = SlotOf(i + 1)
    BY <1>3, ReleasedLength
  <2>2. s # head
    BY <1>3 DEF Releases, Free
  <2>3. ASSUME NEW i \in 1 .. Length PROVE SlotOf(i) # s
    <3>1. CASE i = 1
      <4>1. tail \in 0 .. NR - 1 /\ NR \in Nat
        BY ReceiverAssumption DEF RingInv, Slots, NR
      <4>2. SlotOf(i) = IF tail + i - 1 < NR THEN tail + i - 1 ELSE tail + i - 1 - NR
        BY SlotOfIs
      <4>3. SlotOf(i) = tail
        BY <3>1, <4>1, <4>2
      <4> QED
        BY <4>3
    <3>2. CASE i # 1
      <4>1. i - 1 \in 1 .. Length - 1 /\ (i - 1) + 1 = i
        BY <1>0, <3>2
      <4>2. SlotOf(i - 1)' = SlotOf(i) /\ i - 1 \in 1 .. Length'
        BY <2>1, <4>1
      <4>3. \A j \in 1 .. Length' : SlotOf(j)' # s
        BY DEF Free
      <4> QED
        BY <4>2, <4>3 DEF SlotOf
    <3> QED
      BY <3>1, <3>2
  <2>4. Entry(s)' = Entry(s)
    BY <1>3 DEF Releases, Untouched
  <2> QED
    BY <2>2, <2>3, <2>4 DEF Free
<1> QED
  BY <1>1, <1>2, <1>3, IdleWorks DEF Step

(* Hence slots outside the queue stay without a flag, if releaseFrame      *)
(* clears the tail's.                                                      *)
LEMMA FreeStaysUnflagged ==
    ASSUME RingInv, Step, FreeUnflagged, Releases => isCounterhFrame'[tail] = FALSE
    PROVE  FreeUnflagged'
<1> SUFFICES ASSUME NEW s \in Slots, Free(s)' PROVE ~ isCounterhFrame'[s]
  BY DEF FreeUnflagged
<1>1. (Free(s) /\ Entry(s)' = Entry(s)) \/ (Releases /\ s = tail)
  BY FreeNext
<1>2. CASE Free(s) /\ Entry(s)' = Entry(s)
  <2>1. isCounterhFrame'[s] = isCounterhFrame[s]
    BY <1>2 DEF Entry
  <2> QED
    BY <1>2, <2>1 DEF FreeUnflagged
<1>3. CASE Releases /\ s = tail
  BY <1>3
<1> QED
  BY <1>1, <1>2, <1>3

(* What tells the steps apart. *)
LEMMA NotPublished == ASSUME RingInv, head' = head PROVE ~ (Publishes /\ ~ Full)
BY NewHeadFree DEF Publishes, nextFrameBuffer
(* and only a release moves the tail. *)
LEMMA NotReleased == ASSUME RingInv, tail' = tail PROVE ~ Releases
BY NextSlotType DEF Releases, RingInv

-----------------------------------------------------------------------------
(* The steps of the receiver of numbered packets.                          *)

(* What is expected, when a packet has been read and nothing misleads. *)
LEMMA Expected ==
    ASSUME CountInv, ~ compact, NEW pkt \in Packets, NEW shutter_cnt, Read(pkt, shutter_cnt),
           ~ history.misled, ~ Misled(shutter_cnt),
           expPayloadSize' = pkt.size \/ expPayloadSize' = Payload(pkt)
    PROVE  /\ Per(pkt) = N /\ N' = N /\ N \in Nat \ {0}
           /\ expPayloadSize' = cut /\ cut' = cut
           /\ currShutterCnt' # -1 /\ packetsReceived' # 0
           /\ Modulo(pkt) \in 0 .. N - 1 /\ expSequenceNr' = Modulo(pkt) + 1
           /\ packet = NoPacket /\ packet' = pkt.seq /\ packet' # NoPacket
           /\ pkt.seq = N => packet' \div N = 1
           /\ packetsReceived = 0 => First /\ Untried
           /\ packetsReceived # 0 => ~ First /\ Counting
<1>1. /\ packet = NoPacket /\ packet' = pkt.seq /\ cut' = cut
      /\ currShutterCnt' = shutter_cnt /\ packetsReceived' = packetsReceived + 1
      /\ expSequenceNr' = Modulo(pkt) + 1
  BY DEF Read, control
<1>2. shutter_cnt # -1 /\ expPayloadSize' = cut
  BY DEF Misled
<1>3. packetsReceived \in Nat /\ cut \in Payloads
  BY DEF CountInv, CountTypes
<1>4. packetsReceived = 0 => First /\ Untried
  BY DEF CountInv, CountTypes, First
<1>5. packetsReceived # 0 => Counting /\ Counts /\ ~ First
  <2>1. packetsReceived # 0 => Counting
    BY <1>3 DEF Counting
  <2> QED
    BY <2>1 DEF CountInv, Counts, First
<1>6. Per(pkt) = N
  <2>1. CASE packetsReceived = 0
    BY <1>2, <1>4, <2>1 DEF Per, Payload, N
  <2>2. CASE packetsReceived # 0
    BY <1>5, <2>2 DEF Per, Counts
  <2> QED
    BY <2>1, <2>2
<1>7. /\ pkt.seq \in Nat /\ pkt.seq % N \in 0 .. N - 1
      /\ pkt.seq = N => pkt.seq \div N = 1
  BY <1>3, PacketIs
<1>8. packet' # NoPacket
  BY <1>1, <1>7 DEF NoPacket
<1>9. N' = N
  BY <1>1 DEF N, PacketsPerFrame
<1>10. packetsReceived' # 0
  BY <1>1, <1>3
<1> QED
  BY <1>1, <1>2, <1>3, <1>4, <1>5, <1>6, <1>7, <1>8, <1>9, <1>10, NType DEF Modulo

(* A packet of the same frame: what lies between is missed. *)
LEMMA SameFrameCounts ==
    ASSUME RingInv, CountInv, ~ compact, SameFrame, Counting'
    PROVE  Counts' /\ Sums' /\ QueueGood'
<1>1. PICK pkt \in Packets, shutter_cnt \in Shutters :
          /\ Read(pkt, shutter_cnt) /\ ~BeginsFrame(pkt, shutter_cnt)
          /\ packetsLost' = packetsLost + (Modulo(pkt) - expSequenceNr)
          /\ expPayloadSize' = Payload(pkt) /\ expPacketsPerFrame' = Per(pkt)
          /\ packetsLostFrame' = CountFrom(pkt)
          /\ history' = [history EXCEPT !.misled = @ \/ Misled(shutter_cnt)]
          /\ UNCHANGED <<head, empty, frameBuffer, isCounterhFrame, framesReceived, framesLost>>
  BY DEF SameFrame
<1>2. /\ ~ history.misled /\ ~ Misled(shutter_cnt) /\ history'.losses = history.losses
  BY <1>1 DEF CountInv, CountTypes, Counting
<1>3. /\ Per(pkt) = N /\ N' = N /\ N \in Nat \ {0}
      /\ expPayloadSize' = cut /\ cut' = cut
      /\ currShutterCnt' # -1
      /\ Modulo(pkt) \in 0 .. N - 1 /\ expSequenceNr' = Modulo(pkt) + 1
      /\ packet = NoPacket /\ packet' # NoPacket
      /\ packetsReceived = 0 => First /\ Untried
      /\ packetsReceived # 0 => ~ First /\ Counting
  BY <1>1, <1>2, Expected
<1>4. head \in Slots /\ OnSlots(packetsLostFrame)
  BY SlotsOfInv
<1>5. Modulo(pkt) >= expSequenceNr
  <2>1. expSequenceNr \in Int
    BY <1>3 DEF CountInv, Counts, Untried
  <2> QED
    BY <1>1, <1>3, <2>1 DEF BeginsFrame
<1>6. Entry(head)' = <<frameBuffer[head], packetsLostFrame'[head], isCounterhFrame[head]>>
  BY <1>1 DEF Entry
<1>7. CASE packetsReceived = 0
  <2>1. Untried /\ packetsLostFrame'[head] = N
    BY <1>1, <1>3, <1>4, <1>7 DEF CountFrom, OnSlots
  <2>2. Good(Entry(head)', N)
    BY <1>3, <1>6, <2>1, EmptyGood DEF Untried
  <2>3. Counts'
    BY <1>1, <1>3, <2>1, <2>2 DEF Counts, Untried, Good
  <2>4. Sums'
    BY <1>1, <1>2, <1>3, <2>1 DEF Sums, Ahead, Missed, Untried
  <2>5. QueueGood'
    BY <1>1, <2>1 DEF QueueGood, Length, Untried
  <2> QED
    BY <2>3, <2>4, <2>5
<1>8. CASE packetsReceived # 0
  <2>1. Counts /\ Sums /\ QueueGood /\ ~ First
    BY <1>3, <1>8 DEF CountInv
  <2>2. packetsLostFrame' = packetsLostFrame
    BY <1>1, <1>4, <2>1 DEF CountFrom, OnSlots
  <2>3. Entry(head)' = Entry(head)
    BY <1>6, <2>2 DEF Entry
  <2>4. Counts'
    BY <1>1, <1>3, <1>5, <2>1, <2>3 DEF Counts, Good
  <2>5. packetsLostFrame[head] \in Int
    BY <1>3, <2>1, GoodCount DEF Counts, Entry
  <2>6. Sums'
    <3>1. expSequenceNr \in 1 .. N /\ ~ Complete
      BY <1>3, <1>5, <2>1 DEF Counts, Complete
    <3> QED
      BY <1>1, <1>2, <1>3, <2>1, <2>2, <2>5, <3>1 DEF Sums, Counts, Ahead, Missed
  <2>7. QueueGood'
    <3>1. Step
      BY SameFrameStep DEF Step
    <3> QED
      BY <1>1, <1>3, <2>1, <3>1, NotPublished, QueueStaysGood
  <2> QED
    BY <2>4, <2>6, <2>7
<1> QED
  BY <1>7, <1>8

(* A packet of another frame: the frame before it ends here, unless it was *)
(* complete, and then nothing is stored in the buffer at hand.             *)
LEMMA NewFrameIs ==
    ASSUME RingInv, CountInv, ~ compact, NewFrame, ~ history'.misled
    PROVE  \E pkt \in Packets, shutter_cnt \in Shutters :
               LET early == expSequenceNr # N IN
               /\ Read(pkt, shutter_cnt) /\ ~ history.misled /\ ~ Misled(shutter_cnt)
               /\ expPayloadSize' = pkt.size /\ expPacketsPerFrame' = N
               /\ packetsReceived # 0
               /\ IF early THEN nextFrameBuffer /\ frameBuffer' = Emptied(frameBuffer)
                           ELSE UNCHANGED <<head, empty, framesLost, frameBuffer>>
               /\ isCounterhFrame' = [isCounterhFrame EXCEPT ![head'] = @ \/ pkt.seq = N]
               /\ packetsLost' = packetsLost + (N - expSequenceNr + Modulo(pkt))
               /\ packetsLostFrame' = [packetsLostFrame EXCEPT ![head'] = IF early THEN N ELSE @]
               /\ history'.losses = history.losses
                                    + (IF early THEN packetsLostFrame[head] ELSE 0)
               /\ ~ history'.overrun => ~ history.overrun /\ ~ (early /\ Full)
<1>1. PICK pkt \in Packets, shutter_cnt \in Shutters :
          LET early == expSequenceNr # Per(pkt)
              resized == pkt.size # Payload(pkt)
          IN
          /\ Read(pkt, shutter_cnt) /\ BeginsFrame(pkt, shutter_cnt)
          /\ IF early THEN nextFrameBuffer /\ frameBuffer' = Emptied(frameBuffer)
                      ELSE UNCHANGED <<head, empty, framesReceived, framesLost, frameBuffer>>
          /\ isCounterhFrame' = [isCounterhFrame EXCEPT ![head'] = @ \/ FirstOfH(pkt)]
          /\ packetsLost' = packetsLost + (Per(pkt) - expSequenceNr + Modulo(pkt))
          /\ expPayloadSize' = pkt.size
          /\ expPacketsPerFrame' = IF resized THEN PacketsPerFrame(pkt.size) ELSE Per(pkt)
          /\ packetsLostFrame' = [CountFrom(pkt) EXCEPT
                 ![head'] = IF early \/ resized THEN expPacketsPerFrame' ELSE @]
          /\ history' = [IF early THEN Finished(CountFrom(pkt)[head]) ELSE history
                             EXCEPT !.misled = @ \/ resized \/ Misled(shutter_cnt)]
  BY DEF NewFrame
<1> DEFINE early == expSequenceNr # Per(pkt)
           resized == pkt.size # Payload(pkt)
           before == IF early THEN Finished(CountFrom(pkt)[head]) ELSE history
<1>0. history = [losses |-> history.losses, misled |-> history.misled,
                 overrun |-> history.overrun]
  BY DEF CountInv, CountTypes
<1>2. /\ before = [losses |-> before.losses, misled |-> before.misled,
                   overrun |-> before.overrun]
      /\ before.misled = history.misled
      /\ early => /\ before.losses = history.losses + CountFrom(pkt)[head]
                  /\ before.overrun = (history.overrun \/ Full)
      /\ ~ early => before = history
  BY <1>0 DEF Finished
<1>3. /\ history'.misled = (before.misled \/ resized \/ Misled(shutter_cnt))
      /\ history'.losses = before.losses /\ history'.overrun = before.overrun
  <2> HIDE DEF before, early, resized
  <2>1. history' = [before EXCEPT !.misled = @ \/ resized \/ Misled(shutter_cnt)]
    BY <1>1 DEF before, early, resized
  <2> QED
    BY <1>2, <2>1
<1>4. ~ history.misled /\ ~ resized /\ ~ Misled(shutter_cnt)
  BY <1>2, <1>3
<1>5. /\ Per(pkt) = N /\ N \in Nat \ {0} /\ Modulo(pkt) \in 0 .. N - 1
      /\ packetsReceived = 0 => First /\ Untried
      /\ packetsReceived # 0 => ~ First /\ Counting
  BY <1>1, <1>4, Expected
<1>6. packetsReceived # 0
  <2> SUFFICES ASSUME packetsReceived = 0 PROVE FALSE
    OBVIOUS
  <2>1. expSequenceNr = 0 /\ First
    BY <1>5 DEF Untried
  <2> QED
    BY <1>1, <1>5, <2>1 DEF BeginsFrame
<1>7. CountFrom(pkt) = packetsLostFrame
  <2>1. head \in Slots /\ OnSlots(packetsLostFrame)
    BY SlotsOfInv
  <2> QED
    BY <1>5, <1>6, <2>1 DEF CountFrom, OnSlots
<1>8. early <=> expSequenceNr # N
  BY <1>5
<1>9. expPacketsPerFrame' = N
  BY <1>1, <1>4, <1>5
<1>10. packetsLostFrame' = [packetsLostFrame EXCEPT ![head'] = IF early THEN N ELSE @]
  BY <1>1, <1>4, <1>7, <1>9
<1>11. ~ history'.overrun => ~ history.overrun /\ ~ (early /\ Full)
  BY <1>2, <1>3
<1>12. history'.losses = history.losses + (IF early THEN packetsLostFrame[head] ELSE 0)
  <2>1. history.losses \in Int
    BY <1>5, <1>6 DEF CountInv, Sums
  <2> QED
    BY <1>2, <1>3, <1>7, <2>1
<1>13. isCounterhFrame' = [isCounterhFrame EXCEPT ![head'] = @ \/ pkt.seq = N]
  BY <1>1, <1>5 DEF FirstOfH
<1>14. /\ Read(pkt, shutter_cnt) /\ expPayloadSize' = pkt.size
       /\ packetsLost' = packetsLost + (N - expSequenceNr + Modulo(pkt))
  BY <1>1, <1>5
<1>15. IF early THEN nextFrameBuffer /\ frameBuffer' = Emptied(frameBuffer)
                ELSE UNCHANGED <<head, empty, framesLost, frameBuffer>>
  BY <1>1
<1> HIDE DEF before, resized, early
<1> QED
  BY <1>4, <1>6, <1>8, <1>9, <1>10, <1>11, <1>12, <1>13, <1>14, <1>15

(* The buffer that is begun is empty and misses all packets, and the one    *)
(* that ends is good.                                                      *)
LEMMA NewFrameCounts ==
    ASSUME RingInv, CountInv, ~ compact, NewFrame, Counting'
    PROVE  Counts' /\ Sums' /\ QueueGood'
<1>1. PICK pkt \in Packets, shutter_cnt \in Shutters :
          LET early == expSequenceNr # N IN
          /\ Read(pkt, shutter_cnt) /\ ~ history.misled /\ ~ Misled(shutter_cnt)
          /\ expPayloadSize' = pkt.size /\ expPacketsPerFrame' = N
          /\ packetsReceived # 0
          /\ IF early THEN nextFrameBuffer /\ frameBuffer' = Emptied(frameBuffer)
                      ELSE UNCHANGED <<head, empty, framesLost, frameBuffer>>
          /\ isCounterhFrame' = [isCounterhFrame EXCEPT ![head'] = @ \/ pkt.seq = N]
          /\ packetsLost' = packetsLost + (N - expSequenceNr + Modulo(pkt))
          /\ packetsLostFrame' = [packetsLostFrame EXCEPT ![head'] = IF early THEN N ELSE @]
          /\ history'.losses = history.losses
                               + (IF early THEN packetsLostFrame[head] ELSE 0)
          /\ ~ history'.overrun => ~ history.overrun /\ ~ (early /\ Full)
  BY NewFrameIs DEF Counting
<1>2. /\ N' = N /\ N \in Nat \ {0} /\ expPayloadSize' = cut /\ cut' = cut
      /\ currShutterCnt' # -1
      /\ Modulo(pkt) \in 0 .. N - 1 /\ expSequenceNr' = Modulo(pkt) + 1
      /\ packet = NoPacket /\ packet' # NoPacket /\ Counting
  BY <1>1, Expected
<1>3. Counts /\ Sums /\ QueueGood
  BY <1>2 DEF CountInv
<1>4. /\ head \in Slots /\ NewHead \in Slots
      /\ OnSlots(packetsLostFrame) /\ OnSlots(frameBuffer) /\ OnSlots(isCounterhFrame)
  BY SlotsOfInv
<1>5. packetsLostFrame[head] \in Int /\ (frameBuffer[head] = {} => packetsLostFrame[head] = N)
  BY <1>2, <1>3, GoodCount DEF Counts, Entry
<1>6. frameBuffer'[head'] = {} /\ packetsLostFrame'[head'] = N
  <2>1. CASE expSequenceNr # N
    BY <1>1, <1>4, <2>1 DEF nextFrameBuffer, Emptied, OnSlots
  <2>2. CASE expSequenceNr = N
    <3>1. frameBuffer[head] = {}
      BY <1>2, <1>3, <2>2 DEF Counts, Complete
    <3> QED
      BY <1>1, <1>4, <1>5, <2>2, <3>1 DEF OnSlots
  <2> QED
    BY <2>1, <2>2
<1>7. Entry(head)'[1] = {} /\ Entry(head)'[2] = N
  BY <1>6 DEF Entry
<1>8. Counts'
  <2>1. Good(Entry(head)', N)
    BY <1>2, <1>7, EmptyGood
  <2> QED
    BY <1>1, <1>2, <1>6, <2>1 DEF Counts, Good
<1>9. Sums'
  <2>1. expSequenceNr \in 1 .. N /\ expPacketsPerFrame = N
    BY <1>3 DEF Counts
  <2>2. Ahead' = Modulo(pkt)
    BY <1>1, <1>2, <1>6 DEF Ahead, Missed
  <2>3. Ahead = IF expSequenceNr = N THEN 0 ELSE expSequenceNr - (N - packetsLostFrame[head])
    BY <1>2, <2>1 DEF Ahead, Missed, Complete
  <2> QED
    BY <1>1, <1>2, <1>3, <1>5, <2>1, <2>2, <2>3 DEF Sums
<1>10. QueueGood'
  <2>1. Step
    BY NewFrameStep DEF Step
  <2>2. ASSUME Publishes, ~ Full PROVE Good(HeadEntry, N)
    <3>1. expSequenceNr # N
      BY <1>1, <2>2, NotPublished
    <3>2. head' = NewHead /\ NewHead # head
      BY <2>2, NewHeadFree DEF Publishes, nextFrameBuffer
    <3>3. frameBuffer'[head] = frameBuffer[head] /\ packetsLostFrame'[head] = packetsLostFrame[head]
      BY <1>1, <1>4, <3>1, <3>2 DEF Emptied, OnSlots
    <3>4. Good(Entry(head), N)
      BY <1>3 DEF Counts
    <3> QED
      BY <3>3, <3>4 DEF Good, Entry, HeadEntry
  <2> QED
    BY <1>2, <1>3, <2>1, <2>2, QueueStaysGood
<1> QED
  BY <1>8, <1>9, <1>10

(* Storing the packet in hand, and what a complete frame leaves.           *)
LEMMA StoreIs ==
    ASSUME RingInv, CountInv, ~ compact, Store, ~ history.misled
    PROVE  \E piece \in [pos : {expSequenceNr - 1}, counter : {packet \div N}] :
               /\ Counting /\ packet # NoPacket /\ packet' = NoPacket
               /\ UNCHANGED <<tail, isCounterhFrame, expected, packetsReceived, packetsLost, cut>>
               /\ \A s \in Slots \ {head} : Stored[s] = frameBuffer[s] /\ Counted[s] = packetsLostFrame[s]
               /\ Stored[head] = frameBuffer[head] \cup {piece} /\ piece.pos \in 0 .. N - 1
               /\ \A p \in frameBuffer[head] : p.pos # piece.pos
               /\ Counted[head] = packetsLostFrame[head] - 1
               /\ IF Complete
                  THEN /\ nextFrameBuffer
                       /\ frameBuffer' = [Stored EXCEPT ![NewHead] = {}]
                       /\ packetsLostFrame' = [Counted EXCEPT ![NewHead] = N]
                       /\ history' = Finished(Counted[head])
                  ELSE /\ frameBuffer' = Stored /\ packetsLostFrame' = Counted
                       /\ UNCHANGED <<head, empty, framesLost, history>>
<1>1. /\ packet # NoPacket /\ packet' = NoPacket
      /\ UNCHANGED <<tail, isCounterhFrame, expected, packetsReceived, packetsLost, cut>>
  BY DEF Store, control
<1>2. Counting
  BY <1>1 DEF CountInv, CountTypes, Counting
<1>3. Counts /\ N \in Nat \ {0}
  BY <1>2, NType DEF CountInv, CountTypes
<1>4. /\ head \in Slots /\ OnSlots(packetsLostFrame) /\ OnSlots(frameBuffer)
  BY SlotsOfInv
<1> DEFINE piece == [pos |-> expSequenceNr - 1, counter |-> packet \div N]
<1>5. expSequenceNr - 1 < expPacketsPerFrame /\ piece.pos \in 0 .. N - 1
  BY <1>3 DEF Counts
<1>6. /\ Stored = [frameBuffer EXCEPT ![head] = @ \cup {piece}]
      /\ Counted = [packetsLostFrame EXCEPT ![head] = @ - 1]
  BY <1>5 DEF Stored, Counted, N
<1>7. /\ Stored[head] = frameBuffer[head] \cup {piece}
      /\ Counted[head] = packetsLostFrame[head] - 1
      /\ \A s \in Slots \ {head} : Stored[s] = frameBuffer[s] /\ Counted[s] = packetsLostFrame[s]
  BY <1>4, <1>6 DEF OnSlots
<1>8. \A p \in frameBuffer[head] : p.pos # piece.pos
  BY <1>1, <1>3 DEF Counts
<1>9. IF Complete
      THEN /\ nextFrameBuffer
           /\ frameBuffer' = [Stored EXCEPT ![NewHead] = {}]
           /\ packetsLostFrame' = [Counted EXCEPT ![NewHead] = N]
           /\ history' = Finished(Counted[head])
      ELSE /\ frameBuffer' = Stored /\ packetsLostFrame' = Counted
           /\ UNCHANGED <<head, empty, framesLost, history>>
  BY <1>3 DEF Store, Emptied, Counts
<1>10. piece \in [pos : {expSequenceNr - 1}, counter : {packet \div N}]
  OBVIOUS
<1> HIDE DEF piece
<1> QED
  BY <1>1, <1>2, <1>5, <1>7, <1>8, <1>9, <1>10

(* Whether or not the frame is complete, what is in the buffer at hand now *)
(* is as it should be.                                                     *)
LEMMA StoreCounts ==
    ASSUME RingInv, CountInv, ~ compact, Store, Counting'
    PROVE  Counts' /\ Sums' /\ QueueGood'
<1>0. ~ history.misled
  <2>1. history'.misled = history.misled
    BY DEF Store, Finished, CountInv, CountTypes
  <2> QED
    BY <2>1 DEF Counting
<1>1. PICK piece \in [pos : {expSequenceNr - 1}, counter : {packet \div N}] :
           /\ Counting /\ packet # NoPacket /\ packet' = NoPacket
           /\ UNCHANGED <<tail, isCounterhFrame, expected, packetsReceived, packetsLost, cut>>
           /\ \A s \in Slots \ {head} : Stored[s] = frameBuffer[s] /\ Counted[s] = packetsLostFrame[s]
           /\ Stored[head] = frameBuffer[head] \cup {piece} /\ piece.pos \in 0 .. N - 1
           /\ \A p \in frameBuffer[head] : p.pos # piece.pos
           /\ Counted[head] = packetsLostFrame[head] - 1
           /\ IF Complete
              THEN /\ nextFrameBuffer
                   /\ frameBuffer' = [Stored EXCEPT ![NewHead] = {}]
                   /\ packetsLostFrame' = [Counted EXCEPT ![NewHead] = N]
                   /\ history' = Finished(Counted[head])
              ELSE /\ frameBuffer' = Stored /\ packetsLostFrame' = Counted
                   /\ UNCHANGED <<head, empty, framesLost, history>>
  BY <1>0, StoreIs
<1>2. Counts /\ Sums /\ QueueGood /\ N \in Nat \ {0} /\ N' = N
  BY <1>1, NType DEF CountInv, CountTypes, N, PacketsPerFrame
<1>3. /\ head \in Slots /\ NewHead \in Slots
      /\ OnSlots(packetsLostFrame) /\ OnSlots(frameBuffer)
      /\ OnSlots(Stored) /\ OnSlots(Counted)
  <2>1. head \in Slots /\ NewHead \in Slots /\ OnSlots(packetsLostFrame) /\ OnSlots(frameBuffer)
    BY SlotsOfInv
  <2> QED
    BY <2>1 DEF OnSlots, Stored, Counted
<1>4. expected' = expected /\ expSequenceNr \in 1 .. N /\ expPacketsPerFrame = N
  BY <1>1, <1>2 DEF Counts
<1>5. /\ expSequenceNr' = expSequenceNr /\ expPacketsPerFrame' = N /\ expPayloadSize' = cut
      /\ currShutterCnt' # -1 /\ cut' = cut
  BY <1>1, <1>2, <1>4 DEF expected, Counts
<1> DEFINE entry == <<Stored[head], Counted[head], isCounterhFrame[head]>>
<1>6. Good(entry, N)
  <2>1. Good(Entry(head), N)
    BY <1>2 DEF Counts
  <2>2. /\ Entry(head)[1] = frameBuffer[head] /\ Entry(head)[2] = packetsLostFrame[head]
    BY DEF Entry
  <2>3. entry[1] = Entry(head)[1] \cup {piece} /\ entry[2] = Entry(head)[2] - 1
    BY <1>1, <2>2
  <2> HIDE DEF entry
  <2> QED
    BY <1>1, <1>2, <2>1, <2>2, <2>3, StoredGood
<1>7. packetsLostFrame[head] \in Int
  BY <1>2, GoodCount DEF Counts, Entry
<1>8. Step
  BY StoreStep DEF Step
<1>9. CASE Complete
  <2>1. /\ head' = NewHead /\ frameBuffer'[NewHead] = {} /\ packetsLostFrame'[NewHead] = N
    BY <1>1, <1>3, <1>9 DEF nextFrameBuffer, OnSlots
  <2>2. Entry(head)'[1] = {} /\ Entry(head)'[2] = N
    BY <2>1 DEF Entry
  <2>3. Counts'
    <3>1. Good(Entry(head)', N)
      BY <1>2, <2>2, EmptyGood
    <3> QED
      BY <1>1, <1>2, <1>4, <1>5, <2>1, <3>1 DEF Counts, Good
  <2>4. Sums'
    <3>1. history'.losses = history.losses + (packetsLostFrame[head] - 1)
      BY <1>1, <1>9 DEF Finished, CountInv, CountTypes
    <3>2. Ahead = packetsLostFrame[head] - 1 /\ Ahead' = 0
      BY <1>1, <1>4, <1>5, <1>7, <1>9 DEF Ahead, Missed, Complete
    <3> QED
      BY <1>1, <1>2, <1>7, <3>1, <3>2 DEF Sums
  <2>5. QueueGood'
    <3>1. ASSUME Publishes, ~ Full PROVE Good(HeadEntry, N)
      <4>1. NewHead # head
        BY <3>1, NewHeadFree
      <4>2. frameBuffer'[head] = Stored[head] /\ packetsLostFrame'[head] = Counted[head]
        BY <1>1, <1>3, <1>9, <4>1 DEF OnSlots
      <4>3. isCounterhFrame'[head] = isCounterhFrame[head]
        BY <1>1
      <4> QED
        BY <1>6, <4>2, <4>3 DEF HeadEntry
    <3> QED
      BY <1>2, <1>5, <1>8, <3>1, QueueStaysGood
  <2> QED
    BY <2>3, <2>4, <2>5
<1>10. CASE ~ Complete
  <2>1. /\ head' = head /\ frameBuffer'[head] = Stored[head] /\ packetsLostFrame'[head] = Counted[head]
        /\ isCounterhFrame'[head] = isCounterhFrame[head] /\ history' = history
    BY <1>1, <1>10
  <2>2. Entry(head)' = entry
    BY <2>1 DEF Entry
  <2>3. Counts'
    <3>1. ~ Complete'
      BY <1>4, <1>5, <1>10 DEF Complete
    <3>2. \A p \in frameBuffer'[head'] : p.pos \in Nat /\ p.pos < expSequenceNr'
      <4>1. \A p \in frameBuffer[head] : p.pos \in Nat /\ p.pos < expSequenceNr - 1
        BY <1>1, <1>2 DEF Counts
      <4>2. piece.pos = expSequenceNr - 1
        OBVIOUS
      <4> QED
        BY <1>1, <1>4, <1>5, <2>1, <4>1, <4>2
    <3>3. Good(Entry(head)', N)
      BY <1>6, <2>2
    <3> QED
      BY <1>1, <1>2, <1>4, <1>5, <3>1, <3>2, <3>3 DEF Counts, Good
  <2>4. Sums'
    <3>0. packetsLostFrame'[head'] = packetsLostFrame[head] - 1
      BY <1>1, <2>1
    <3>1. Ahead' = Ahead
      <4>1. ~ Complete'
        BY <1>4, <1>5, <1>10 DEF Complete
      <4>2. Ahead' = expSequenceNr - (N - (packetsLostFrame[head] - 1))
        BY <1>1, <1>5, <3>0, <4>1 DEF Ahead, Missed
      <4>3. Ahead = expSequenceNr - (N - packetsLostFrame[head]) - 1
        BY <1>1, <1>4 DEF Ahead, Missed
      <4> QED
        BY <1>2, <1>4, <1>7, <4>2, <4>3
    <3> QED
      BY <1>1, <1>2, <2>1, <3>1 DEF Sums
  <2>5. QueueGood'
    BY <1>2, <1>5, <1>8, <2>1, NotPublished, QueueStaysGood
  <2> QED
    BY <2>3, <2>4, <2>5
<1> QED
  BY <1>9, <1>10

(* The second time-out publishes what has come of the frame.               *)
LEMMA TimeoutCounts ==
    ASSUME RingInv, CountInv, handleFrameTimeout, Counting'
    PROVE  Counts' /\ Sums' /\ QueueGood'
<1>0. Counting /\ UNCHANGED <<currShutterCnt, expPayloadSize, expPacketsPerFrame, packet, cut,
                              packetsReceived, packetsLost>>
      /\ packet = NoPacket
  BY DEF handleFrameTimeout, Finished, CountInv, CountTypes, Counting, control
<1>1. Counts /\ Sums /\ QueueGood /\ N \in Nat \ {0} /\ N' = N
  BY <1>0, NType DEF CountInv, CountTypes, N, PacketsPerFrame
<1>2. CASE UNCHANGED <<ring, expSequenceNr, history>>
  <2>1. Counts'
    BY <1>0, <1>1, <1>2 DEF Counts, Entry, ring, Complete, Good
  <2>2. Sums'
    BY <1>0, <1>1, <1>2 DEF Sums, ring, Ahead, Missed, Complete
  <2>3. QueueGood'
    <3>1. Length' = Length /\ \A i \in 1 .. Length : Entry(SlotOf(i))' = Entry(SlotOf(i))
      BY <1>2 DEF ring, Length, Entry, SlotOf
    <3> QED
      BY <1>1, <3>1 DEF QueueGood, Good
  <2> QED
    BY <2>1, <2>2, <2>3
<1>3. CASE ~ UNCHANGED <<ring, expSequenceNr, history>>
  <2>1. /\ Unfinished /\ nextFrameBuffer /\ frameBuffer' = [frameBuffer EXCEPT ![NewHead] = {}]
        /\ packetsLostFrame' = [packetsLostFrame EXCEPT ![NewHead] = N]
        /\ history' = Finished(InProgress) /\ expSequenceNr' = N
        /\ UNCHANGED <<tail, isCounterhFrame>>
    BY <1>1, <1>3 DEF handleFrameTimeout, Emptied, Counts
  <2>2. /\ head \in Slots /\ NewHead \in Slots /\ OnSlots(packetsLostFrame) /\ OnSlots(frameBuffer)
    BY SlotsOfInv
  <2>3. /\ head' = NewHead /\ frameBuffer'[NewHead] = {} /\ packetsLostFrame'[NewHead] = N
    BY <2>1, <2>2 DEF nextFrameBuffer, OnSlots
  <2>4. Entry(head)'[1] = {} /\ Entry(head)'[2] = N
    BY <2>3 DEF Entry
  <2>5. Counts'
    <3>1. Good(Entry(head)', N)
      BY <1>1, <2>4, EmptyGood
    <3> QED
      BY <1>0, <1>1, <2>1, <2>3, <3>1 DEF Counts, Good
  <2>6. Sums'
    <3>1. history'.losses = history.losses + InProgress
      BY <2>1 DEF Finished, CountInv, CountTypes
    <3>2. Ahead = InProgress /\ Ahead' = 0
      BY <1>0, <1>1, <2>1 DEF Ahead, Missed, InProgress, Unfinished, Complete, Counts
    <3> QED
      BY <1>0, <1>1, <3>1, <3>2 DEF Sums
  <2>7. QueueGood'
    <3>0. Step
      BY TimeoutStep DEF Step
    <3>1. ASSUME Publishes, ~ Full PROVE Good(HeadEntry, N)
      <4>1. NewHead # head
        BY <3>1, NewHeadFree
      <4>2. HeadEntry = Entry(head)
        BY <2>1, <2>2, <4>1 DEF OnSlots, HeadEntry, Entry
      <4> QED
        BY <1>1, <4>2 DEF Counts
    <3> QED
      BY <1>0, <1>1, <3>0, <3>1, QueueStaysGood
  <2> QED
    BY <2>5, <2>6, <2>7
<1> QED
  BY <1>2, <1>3

(* No other step touches what the receiver counts.                         *)
LEMMA OtherCounts ==
    ASSUME RingInv, CountInv, releaseFrame \/ Lifetime \/ resetLost \/ UNCHANGED rvars, Counting'
    PROVE  Counts' /\ Sums' /\ QueueGood'
<1>1. /\ UNCHANGED <<head, frameBuffer, packetsLostFrame, expected, packet, cut, packetsReceived>>
      /\ history'.misled = history.misled
      /\ \/ UNCHANGED <<packetsLost, history>>
         \/ packetsLost' = 0 /\ history' = [history EXCEPT !.losses = @ - packetsLost]
  <2>1. CASE releaseFrame
    BY <2>1 DEF releaseFrame, stats, control
  <2>2. CASE Lifetime
    BY <2>2 DEF Lifetime, BeginRun, Open, LeaveLoop, Stop, idle, ring, stats
  <2>3. CASE resetLost
    <3>1. UNCHANGED <<ring, expected, packet, control, packetsReceived>>
      BY <2>3 DEF resetLost
    <3>2. packetsLost' = packetsLost \/ packetsLost' = 0
      BY <2>3 DEF resetLost, Cleared
    <3>3. history' = [history EXCEPT !.losses = @ - (packetsLost - packetsLost')]
      BY <2>3 DEF resetLost
    <3>4. history'.misled = history.misled /\ Counting
      BY <3>1, <3>3 DEF Counting, CountInv, CountTypes
    <3>5. packetsLost \in Int /\ history.losses \in Int
      BY <3>4 DEF CountInv, Sums
    <3>6. packetsLost' = packetsLost => history' = history
      BY <3>3, <3>5 DEF CountInv, CountTypes
    <3>7. packetsLost' = 0 => history' = [history EXCEPT !.losses = @ - packetsLost]
      BY <3>3, <3>5 DEF CountInv, CountTypes
    <3>8. UNCHANGED <<head, frameBuffer, packetsLostFrame, cut>>
      BY <3>1 DEF ring, control
    <3> QED
      BY <3>1, <3>2, <3>4, <3>6, <3>7, <3>8
  <2>4. CASE UNCHANGED rvars
    BY <2>4 DEF rvars, receiver, ring, stats, control
  <2> QED
    BY <2>1, <2>2, <2>3, <2>4
<1>2. Counting /\ Counts /\ Sums /\ QueueGood /\ N' = N
  BY <1>1 DEF Counting, CountInv, N, PacketsPerFrame
<1>3. UNCHANGED <<expSequenceNr, expPayloadSize, expPacketsPerFrame, currShutterCnt>>
  BY <1>1 DEF expected
<1>4. Counts'
  BY <1>1, <1>2, <1>3 DEF Counts, Complete, Good, Entry
<1>5. Sums'
  <2>1. Ahead' = Ahead
    BY <1>1, <1>3 DEF Ahead, Missed, Complete
  <2>2. CASE UNCHANGED <<packetsLost, history>>
    BY <1>2, <2>1, <2>2 DEF Sums
  <2>3. CASE packetsLost' = 0 /\ history' = [history EXCEPT !.losses = @ - packetsLost]
    <3>1. history'.losses = history.losses - packetsLost
      BY <2>3 DEF CountInv, CountTypes
    <3>2. Ahead \in Int
      <4>1. packetsLostFrame[head] \in Int /\ expSequenceNr \in Int /\ expPacketsPerFrame \in Int
        BY <1>2, NType, GoodCount DEF Counts, Entry, CountInv, CountTypes
      <4> QED
        BY <4>1 DEF Ahead, Missed
    <3> QED
      BY <1>2, <2>1, <2>3, <3>1, <3>2 DEF Sums
  <2> QED
    BY <1>1, <2>2, <2>3
<1>6. QueueGood'
  <2>1. Step
    BY ReleaseStep, LifetimeStep, ResetStep, NextStep DEF Step
  <2> QED
    BY <1>1, <1>2, <2>1, NotPublished, QueueStaysGood
<1> QED
  BY <1>4, <1>5, <1>6

-----------------------------------------------------------------------------
(* The invariant of the counts is kept.                                    *)

(* The parts of a step that these depend on. *)
LEMMA StepOfClass ==
    ASSUME [Next]_rvars, compact \in BOOLEAN
    PROVE  /\ compact' = compact
           /\ ~ compact => \/ SameFrame \/ NewFrame \/ Store \/ handleFrameTimeout
                           \/ releaseFrame \/ Lifetime \/ resetLost \/ UNCHANGED rvars
           /\ compact => \/ handleFrameTimeout \/ releaseFrame \/ Lifetime \/ UNCHANGED rvars
                         \/ readDatagramsC \/ resetLostC
<1>1. CASE Base
  BY <1>1 DEF Base, readDatagrams
<1>2. CASE readDatagramsC
  BY <1>2 DEF readDatagramsC, InfoHeader, StartOfFrame, StartOfRow, Middle, EndOfRow, EndOfFrame,
              LosePacket, NextWord
<1>3. CASE resetLostC
  BY <1>3 DEF resetLostC
<1>4. CASE UNCHANGED rvars
  BY <1>4 DEF rvars
<1> QED
  BY <1>1, <1>2, <1>3, <1>4 DEF Next

(* A step of the Compact-SPIDR keeps a record of what it does, and takes no *)
(* numbered packet.                                                        *)
LEMMA WordTypes ==
    ASSUME RingInv, CountTypes, readDatagramsC
    PROVE  /\ UNCHANGED <<cut, packetsReceived, currShutterCnt, packet>>
           /\ history' = history \/ \E losses_ : history' = Finished(losses_)
           /\ isCounterhFrame' \in [Slots -> BOOLEAN]
<1>1. CASE LosePacket
  BY <1>1 DEF LosePacket, receiver, ring, expected, stats, control, CountTypes
<1>2. CASE InfoHeader
  BY <1>2 DEF InfoHeader, NextWord, expected, control, CountTypes, RingInv
<1>3. CASE StartOfFrame \/ StartOfRow \/ Middle \/ EndOfRow \/ EndOfFrame
  <2>1. NextWord
    BY <1>3 DEF StartOfFrame, StartOfRow, Middle, EndOfRow, EndOfFrame
  <2>2. (\E counted : SameBuffer(counted)) \/ (\E counted, pixels : nextFrame(counted, pixels))
    <3>1. CASE StartOfFrame
      BY <3>1 DEF StartOfFrame
    <3>2. CASE StartOfRow
      BY <3>2 DEF StartOfRow
    <3>3. CASE Middle
      BY <3>3 DEF Middle
    <3>4. CASE EndOfRow
      BY <3>4 DEF EndOfRow
    <3>5. CASE EndOfFrame
      BY <3>5 DEF EndOfFrame
    <3> QED
      BY <1>3, <3>1, <3>2, <3>3, <3>4, <3>5
  <2>3. /\ isCounterhFrame' = isCounterhFrame
        /\ history' = history \/ \E losses_ : history' = Finished(losses_)
    BY <2>2 DEF SameBuffer, nextFrame
  <2> QED
    BY <2>1, <2>3 DEF NextWord, expected, control, CountTypes
<1> QED
  BY <1>1, <1>2, <1>3 DEF readDatagramsC

Record(h) == h = [losses |-> h.losses, misled |-> h.misled, overrun |-> h.overrun]
(* Every step keeps the shape of the counts. *)
LEMMA TypesKept == ASSUME RingInv, CountTypes, [Next]_rvars PROVE CountTypes'
<1>0. /\ cut \in Payloads /\ packetsReceived \in Nat /\ compact \in BOOLEAN
      /\ Record(history) /\ isCounterhFrame \in [Slots -> BOOLEAN]
      /\ packetsReceived = 0 => currShutterCnt = -1 /\ packet = NoPacket
      /\ compact => packetsReceived = 0
  BY DEF CountTypes, Record
<1> SUFFICES /\ cut' \in Payloads /\ packetsReceived' \in Nat /\ compact' \in BOOLEAN
             /\ Record(history)' /\ isCounterhFrame' \in [Slots -> BOOLEAN]
             /\ packetsReceived' = 0 => currShutterCnt' = -1 /\ packet' = NoPacket
             /\ compact' => packetsReceived' = 0
  BY DEF CountTypes, Record
<1>1. compact' = compact
  BY <1>0, StepOfClass
<1>2. CASE ~ compact /\ (SameFrame \/ NewFrame)
  <2>1. cut' = cut /\ packetsReceived' = packetsReceived + 1
    BY <1>2 DEF SameFrame, NewFrame, Read, control
  <2>2. Record(history)'
    <3>1. CASE SameFrame
      BY <1>0, <3>1 DEF SameFrame, Record
    <3>2. CASE NewFrame
      BY <1>0, <3>2 DEF NewFrame, Finished, Record
    <3> QED
      BY <1>2, <3>1, <3>2
  <2>3. isCounterhFrame' \in [Slots -> BOOLEAN]
    BY <1>0, <1>2 DEF SameFrame, NewFrame, FirstOfH
  <2> QED
    BY <1>0, <1>1, <1>2, <2>1, <2>2, <2>3
<1>3. CASE ~ compact /\ Store
  <2>1. /\ UNCHANGED <<cut, packetsReceived, isCounterhFrame>> /\ packetsReceived # 0
    BY <1>0, <1>3 DEF Store, control
  <2>2. Record(history)'
    BY <1>0, <1>3 DEF Store, Finished, Record
  <2> QED
    BY <1>0, <1>1, <1>3, <2>1, <2>2
<1>4. CASE handleFrameTimeout
  <2>1. /\ UNCHANGED <<cut, packetsReceived, isCounterhFrame, currShutterCnt, packet>>
    BY <1>4 DEF handleFrameTimeout, control, ring
  <2>2. Record(history)'
    BY <1>0, <1>4 DEF handleFrameTimeout, Finished, Record
  <2> QED
    BY <1>0, <1>1, <2>1, <2>2
<1>5. CASE releaseFrame
  <2>1. /\ UNCHANGED <<cut, packetsReceived, history, currShutterCnt, packet>>
        /\ isCounterhFrame' \in [Slots -> BOOLEAN]
    BY <1>0, <1>5 DEF releaseFrame, ClearedFlag, control, stats, expected
  <2> QED
    BY <1>0, <1>1, <2>1 DEF Record
<1>6. CASE Lifetime \/ UNCHANGED rvars
  <2>1. UNCHANGED <<cut, packetsReceived, history, currShutterCnt, packet, isCounterhFrame>>
    BY <1>6 DEF Lifetime, BeginRun, Open, LeaveLoop, Stop, idle, ring, stats, expected, rvars,
                receiver, control
  <2> QED
    BY <1>0, <1>1, <2>1 DEF Record
<1>7. CASE resetLost \/ resetLostC
  <2>1. UNCHANGED <<cut, packetsReceived, currShutterCnt, packet, isCounterhFrame>>
    BY <1>7 DEF resetLost, resetLostC, ring, expected, control
  <2>2. Record(history)'
    BY <1>0, <1>7 DEF resetLost, resetLostC, Record
  <2> QED
    BY <1>0, <1>1, <2>1, <2>2
<1>8. CASE readDatagramsC
  <2>1. /\ UNCHANGED <<cut, packetsReceived, currShutterCnt, packet>>
        /\ isCounterhFrame' \in [Slots -> BOOLEAN]
        /\ history' = history \/ \E losses_ : history' = Finished(losses_)
    BY <1>8, WordTypes
  <2>2. Record(history)'
    BY <1>0, <2>1 DEF Finished, Record
  <2> QED
    BY <1>0, <1>1, <2>1, <2>2
<1> QED
  BY <1>0, <1>2, <1>3, <1>4, <1>5, <1>6, <1>7, <1>8, StepOfClass

(* Nothing is counted before the first packet. *)
LEMMA UntriedKept ==
    ASSUME RingInv, CountTypes, Untried, packetsReceived = 0, ~ compact, [Next]_rvars,
           packetsReceived' = 0
    PROVE  Untried'
<1>0. packet = NoPacket /\ currShutterCnt = -1 /\ compact \in BOOLEAN
  BY DEF CountTypes
<1>1. ~ (SameFrame \/ NewFrame \/ Store \/ releaseFrame)
  BY <1>0 DEF SameFrame, NewFrame, Read, Store, releaseFrame, Untried
<1>2. CASE handleFrameTimeout
  <2>1. UNCHANGED <<ring, expSequenceNr, packetsLost, history>>
    BY <1>0, <1>2 DEF handleFrameTimeout, Unfinished
  <2> QED
    BY <2>1 DEF ring, Untried
<1>3. CASE Lifetime \/ UNCHANGED rvars
  <2>1. UNCHANGED <<ring, expected, packetsLost, history>>
    BY <1>3 DEF Lifetime, BeginRun, Open, LeaveLoop, Stop, idle, stats, rvars, receiver
  <2> QED
    BY <2>1 DEF ring, expected, Untried
<1>4. CASE resetLost
  <2>1. UNCHANGED <<ring, expected>> /\ packetsLost' = 0 /\ history'.losses = 0
    BY <1>4 DEF resetLost, Cleared, Untried, CountTypes
  <2> QED
    BY <2>1 DEF ring, expected, Untried
<1> QED
  BY <1>0, <1>1, <1>2, <1>3, <1>4, StepOfClass

(* And every step keeps the counts. *)
LEMMA CountsKept == ASSUME RingInv, CountInv, [Next]_rvars PROVE CountInv'
<1>1. CountTypes /\ CountTypes' /\ compact \in BOOLEAN
  BY TypesKept DEF CountInv, CountTypes
<1>2. compact' = compact
  BY <1>1, StepOfClass
<1>3. ASSUME ~ compact', packetsReceived' = 0 PROVE Untried'
  <2>1. packetsReceived = 0
    <3>1. packetsReceived \in Nat
      BY <1>1 DEF CountTypes
    <3>2. packetsReceived' = packetsReceived \/ packetsReceived' = packetsReceived + 1
      BY <1>1, <1>2, <1>3, StepOfClass
      DEF SameFrame, NewFrame, Read, Store, handleFrameTimeout, releaseFrame, Lifetime,
          BeginRun, Open, LeaveLoop, Stop, idle, resetLost, rvars, receiver, stats
    <3> QED
      BY <1>3, <3>1, <3>2
  <2> QED
    BY <1>1, <1>2, <1>3, <2>1, UntriedKept DEF CountInv
<1>4. ASSUME Counting' PROVE Counts' /\ Sums' /\ QueueGood'
  <2>1. ~ compact
    BY <1>1, <1>2, <1>4 DEF CountTypes, Counting
  <2> QED
    BY <1>1, <1>4, <2>1, StepOfClass, SameFrameCounts, NewFrameCounts, StoreCounts, TimeoutCounts,
       OtherCounts
<1> QED
  BY <1>1, <1>3, <1>4 DEF CountInv

-----------------------------------------------------------------------------
(* The flag of the second counter.                                         *)

(* A packet of the same frame changes no flag. *)
LEMMA SameFrameFlags ==
    ASSUME RingInv, CountInv, Flagged, ~ compact, SameFrame, ~ history'.misled
    PROVE  Flagged'
<1>1. UNCHANGED <<head, tail, frameBuffer, isCounterhFrame>> /\ packet = NoPacket
  BY DEF SameFrame, Read
<1>2. Step
  BY SameFrameStep DEF Step
<1>3. FreeUnflagged' /\ QueueFlagged'
  BY <1>1, <1>2, NotPublished, NotReleased, FreeStaysUnflagged, QueueStaysFlagged DEF Flagged
<1>4. HeadFlag'
  BY <1>1 DEF Flagged, HeadFlag
<1> QED
  BY <1>3, <1>4 DEF Flagged

(* The first packet of the second counter flags the buffer it begins; that *)
(* buffer had no flag.                                                     *)
LEMMA NewFrameFlags ==
    ASSUME RingInv, CountInv, Flagged, ~ compact, NewFrame, ~ history'.misled, ~ history'.overrun
    PROVE  Flagged'
<1>1. PICK pkt \in Packets, shutter_cnt \in Shutters :
          LET early == expSequenceNr # N IN
          /\ Read(pkt, shutter_cnt) /\ ~ history.misled /\ ~ Misled(shutter_cnt)
          /\ expPayloadSize' = pkt.size
          /\ packetsReceived # 0
          /\ IF early THEN nextFrameBuffer /\ frameBuffer' = Emptied(frameBuffer)
                      ELSE UNCHANGED <<head, empty, framesLost, frameBuffer>>
          /\ isCounterhFrame' = [isCounterhFrame EXCEPT ![head'] = @ \/ pkt.seq = N]
          /\ ~ history'.overrun => ~ history.overrun /\ ~ (early /\ Full)
  BY NewFrameIs
<1>2. /\ N' = N /\ packet = NoPacket /\ packet' # NoPacket /\ Counting
      /\ pkt.seq = N => packet' \div N = 1
  BY <1>1, Expected
<1>3. /\ head \in Slots /\ NewHead \in Slots /\ tail' = tail
      /\ OnSlots(isCounterhFrame) /\ isCounterhFrame \in [Slots -> BOOLEAN] /\ OnSlots(frameBuffer)
  BY <1>1, SlotsOfInv DEF Read, CountInv, CountTypes
<1>4. Step
  BY NewFrameStep DEF Step
<1>5. FreeUnflagged'
  BY <1>3, <1>4, NotReleased, FreeStaysUnflagged DEF Flagged
<1>6. CASE expSequenceNr # N
  <2>1. head' = NewHead /\ ~ Full
    BY <1>1, <1>6 DEF nextFrameBuffer
  <2>2. NewHead # head /\ ~ isCounterhFrame[NewHead]
    BY <1>3, <2>1, NewHeadFree DEF Flagged, FreeUnflagged
  <2>3. isCounterhFrame'[NewHead] => pkt.seq = N
    BY <1>1, <1>3, <2>1, <2>2
  <2>4. HeadFlag'
    BY <1>2, <2>1, <2>3 DEF HeadFlag
  <2>5. QueueFlagged'
    <3>1. FlagOK(HeadEntry)
      <4>1. isCounterhFrame'[head] = isCounterhFrame[head]
        BY <1>1, <1>3, <2>1, <2>2
      <4>2. frameBuffer'[head] = frameBuffer[head]
        BY <1>1, <1>3, <1>6, <2>2 DEF Emptied, OnSlots
      <4> QED
        BY <1>2, <4>1, <4>2 DEF HeadEntry, FlagOK, Flagged, HeadFlag
    <3> QED
      BY <1>4, <3>1, QueueStaysFlagged DEF Flagged
  <2> QED
    BY <1>5, <2>4, <2>5 DEF Flagged
<1>7. CASE expSequenceNr = N
  <2>1. head' = head /\ frameBuffer' = frameBuffer /\ frameBuffer[head] = {}
    <3>1. Counts
      BY <1>2 DEF CountInv
    <3> QED
      BY <1>1, <1>2, <1>7, <3>1 DEF Counts, Complete
  <2>2. ~ isCounterhFrame[head]
    BY <1>2, <2>1 DEF Flagged, HeadFlag
  <2>3. isCounterhFrame'[head] => pkt.seq = N
    BY <1>1, <1>3, <2>1, <2>2
  <2>4. HeadFlag'
    BY <1>2, <2>1, <2>3 DEF HeadFlag
  <2>5. QueueFlagged'
    BY <1>4, <2>1, NotPublished, QueueStaysFlagged DEF Flagged
  <2> QED
    BY <1>5, <2>4, <2>5 DEF Flagged
<1> QED
  BY <1>6, <1>7

(* A packet of the second counter that is in hand is stored. *)
LEMMA StoreFlags ==
    ASSUME RingInv, CountInv, Flagged, ~ compact, Store, ~ history'.misled, ~ history'.overrun
    PROVE  Flagged'
<1>0. ~ history.misled
  BY DEF Store, Finished, CountInv, CountTypes
<1>1. PICK piece \in [pos : {expSequenceNr - 1}, counter : {packet \div N}] :
           /\ Counting /\ packet # NoPacket /\ packet' = NoPacket
           /\ UNCHANGED <<tail, isCounterhFrame, cut>>
           /\ Stored[head] = frameBuffer[head] \cup {piece}
           /\ IF Complete
              THEN /\ nextFrameBuffer
                   /\ frameBuffer' = [Stored EXCEPT ![NewHead] = {}]
                   /\ history' = Finished(Counted[head])
              ELSE /\ frameBuffer' = Stored
                   /\ UNCHANGED <<head, empty, framesLost, history>>
  BY <1>0, StoreIs
<1>2. /\ head \in Slots /\ NewHead \in Slots /\ OnSlots(Stored)
  <2>1. head \in Slots /\ NewHead \in Slots /\ OnSlots(frameBuffer)
    BY SlotsOfInv
  <2> QED
    BY <2>1 DEF OnSlots, Stored
<1>3. isCounterhFrame[head] => \E p \in Stored[head] : p.counter = 1
  <2>1. piece.counter = packet \div N
    OBVIOUS
  <2> QED
    BY <1>1, <2>1 DEF Flagged, HeadFlag
<1>4. Step
  BY StoreStep DEF Step
<1>5. FreeUnflagged'
  BY <1>1, <1>4, NotReleased, FreeStaysUnflagged DEF Flagged
<1>6. CASE Complete
  <2>1. head' = NewHead /\ ~ Full
    <3>1. history'.overrun = (history.overrun \/ Full)
      BY <1>1, <1>6 DEF Finished, CountInv, CountTypes
    <3> QED
      BY <1>1, <1>6, <3>1 DEF nextFrameBuffer
  <2>2. NewHead # head /\ ~ isCounterhFrame[NewHead]
    BY <1>2, <2>1, NewHeadFree DEF Flagged, FreeUnflagged
  <2>3. HeadFlag'
    BY <1>1, <2>1, <2>2 DEF HeadFlag
  <2>4. FlagOK(HeadEntry)
    <3>1. frameBuffer'[head] = Stored[head]
      BY <1>1, <1>2, <1>6, <2>2 DEF OnSlots
    <3> QED
      BY <1>1, <1>3, <3>1 DEF HeadEntry, FlagOK
  <2>5. QueueFlagged'
    BY <1>4, <2>4, QueueStaysFlagged DEF Flagged
  <2> QED
    BY <1>5, <2>3, <2>5 DEF Flagged
<1>7. CASE ~ Complete
  <2>1. head' = head /\ frameBuffer' = Stored
    BY <1>1, <1>7
  <2>2. HeadFlag'
    BY <1>1, <1>3, <2>1 DEF HeadFlag
  <2>3. QueueFlagged'
    BY <1>4, <2>1, NotPublished, QueueStaysFlagged DEF Flagged
  <2> QED
    BY <1>5, <2>2, <2>3 DEF Flagged
<1> QED
  BY <1>6, <1>7

(* A time-out publishes the buffer with its flag, and turns to one that has *)
(* none.                                                                   *)
LEMMA TimeoutFlags ==
    ASSUME RingInv, CountInv, Flagged, handleFrameTimeout, ~ history'.overrun
    PROVE  Flagged'
<1>1. UNCHANGED <<tail, isCounterhFrame, packet, cut>> /\ packet = NoPacket
  BY DEF handleFrameTimeout, ring, control
<1>2. /\ head \in Slots /\ NewHead \in Slots /\ OnSlots(frameBuffer)
  BY SlotsOfInv
<1>3. Step
  BY TimeoutStep DEF Step
<1>4. FreeUnflagged'
  BY <1>1, <1>3, NotReleased, FreeStaysUnflagged DEF Flagged
<1>5. CASE UNCHANGED ring
  <2>1. head' = head /\ frameBuffer' = frameBuffer
    BY <1>5 DEF ring
  <2>2. HeadFlag'
    BY <1>1, <2>1 DEF HeadFlag, Flagged
  <2>3. QueueFlagged'
    BY <1>3, <2>1, NotPublished, QueueStaysFlagged DEF Flagged
  <2> QED
    BY <1>4, <2>2, <2>3 DEF Flagged
<1>6. CASE ~ UNCHANGED ring
  <2>1. /\ nextFrameBuffer /\ frameBuffer' = [frameBuffer EXCEPT ![NewHead] = {}]
        /\ history' = Finished(InProgress)
    BY <1>6 DEF handleFrameTimeout, Emptied
  <2>2. head' = NewHead /\ ~ Full
    <3>1. history'.overrun = (history.overrun \/ Full)
      BY <2>1 DEF Finished, CountInv, CountTypes
    <3> QED
      BY <2>1, <3>1 DEF nextFrameBuffer
  <2>3. NewHead # head /\ ~ isCounterhFrame[NewHead]
    BY <1>2, <2>2, NewHeadFree DEF Flagged, FreeUnflagged
  <2>4. HeadFlag'
    BY <1>1, <2>2, <2>3 DEF HeadFlag
  <2>5. FlagOK(HeadEntry)
    <3>1. frameBuffer'[head] = frameBuffer[head]
      BY <1>2, <2>1, <2>3 DEF OnSlots
    <3> QED
      BY <1>1, <3>1 DEF HeadEntry, FlagOK, Flagged, HeadFlag
  <2>6. QueueFlagged'
    BY <1>3, <2>5, QueueStaysFlagged DEF Flagged
  <2> QED
    BY <1>4, <2>4, <2>6 DEF Flagged
<1> QED
  BY <1>5, <1>6

(* releaseFrame clears the flag of the slot it frees. *)
LEMMA OtherFlags ==
    ASSUME RingInv, CountInv, Flagged, releaseFrame \/ Lifetime \/ resetLost \/ UNCHANGED rvars
    PROVE  Flagged'
<1>1. UNCHANGED <<head, frameBuffer, packet, cut>>
  BY DEF releaseFrame, Lifetime, BeginRun, Open, LeaveLoop, Stop, idle, resetLost, rvars, receiver,
         ring, control
<1>2. /\ head \in Slots /\ tail \in Slots /\ isCounterhFrame \in [Slots -> BOOLEAN]
  BY SlotsOfInv DEF CountInv, CountTypes
<1>3. \/ UNCHANGED <<tail, isCounterhFrame>>
      \/ releaseFrame /\ isCounterhFrame' = [isCounterhFrame EXCEPT ![tail] = FALSE]
  BY DEF releaseFrame, ClearedFlag, Lifetime, BeginRun, Open, LeaveLoop, Stop, idle, resetLost,
         rvars, receiver, ring
<1>4. Step
  BY ReleaseStep, LifetimeStep, ResetStep, NextStep DEF Step
<1>5. FreeUnflagged'
  BY <1>2, <1>3, <1>4, NotReleased, FreeStaysUnflagged DEF Flagged
<1>6. HeadFlag'
  <2>1. isCounterhFrame'[head] => isCounterhFrame[head]
    BY <1>2, <1>3
  <2>2. N' = N
    BY <1>1 DEF N, PacketsPerFrame
  <2> QED
    BY <1>1, <2>1, <2>2 DEF HeadFlag, Flagged
<1>7. QueueFlagged'
  BY <1>1, <1>4, NotPublished, QueueStaysFlagged DEF Flagged
<1> QED
  BY <1>5, <1>6, <1>7 DEF Flagged

(* Every step keeps the flags. *)
LEMMA FlagsKept == ASSUME RingInv, CountInv, FlagInv, [Next]_rvars PROVE FlagInv'
<1> SUFFICES ASSUME ~ compact', ~ history'.overrun, ~ history'.misled PROVE Flagged'
  BY DEF FlagInv
<1>1. compact \in BOOLEAN /\ compact' = compact
  BY StepOfClass DEF CountInv, CountTypes
<1>2. ~ history.overrun /\ ~ history.misled
  <2>0. Record(history)
    BY DEF CountInv, CountTypes, Record
  <2>1. CASE SameFrame
    BY <2>0, <2>1 DEF SameFrame, Record
  <2>2. CASE NewFrame
    BY <1>1, <2>2, NewFrameIs
  <2>3. CASE Store \/ handleFrameTimeout
    BY <2>0, <2>3 DEF Store, handleFrameTimeout, Finished, Record
  <2>4. CASE releaseFrame \/ Lifetime \/ UNCHANGED rvars
    BY <2>4 DEF releaseFrame, Lifetime, BeginRun, Open, LeaveLoop, Stop, idle, rvars, receiver
  <2>5. CASE resetLost
    BY <2>0, <2>5 DEF resetLost, Record
  <2> QED
    BY <1>1, <2>1, <2>2, <2>3, <2>4, <2>5, StepOfClass
<1>3. Flagged
  BY <1>1, <1>2 DEF FlagInv
<1> QED
  BY <1>1, <1>3, StepOfClass, SameFrameFlags, NewFrameFlags, StoreFlags, TimeoutFlags, OtherFlags

-----------------------------------------------------------------------------
(* The pixels' total, of the Compact-SPIDR: what a word adds to it, it adds *)
(* to the frame's count as well, and a frame that ends leaves its count.   *)

Pixelwise ==
    /\ {pixelsLost, history.losses, rowCnt, rowPixels} \subseteq Int
    /\ pixelsLostFrame \in [Slots -> Int]
    /\ pixelsLost = history.losses + pixelsLostFrame[head]

(* Numbers of rows and pixels are integers. *)
LEMMA ShortType ==
    ASSUME NEW pixels \in Int
    PROVE  Short(pixels) \in Int /\ LostRows(pixels) \in Int
BY CompactAssumption DEF Short, LostRows
(* The same of the pixels of a word. *)
LEMMA WordPixels == PixPerWord \in Int /\ EndPixels \in Int /\ MPX_PIXEL_ROWS \in Int
BY CompactAssumption DEF EndPixels

(* A word of the frame in hand. *)
LEMMA CountLostSums ==
    ASSUME RingInv, Pixelwise, NEW pixels \in Int, CountLost(pixels), NEW counted \in Int,
           SameBuffer(counted), rowPixels' \in Int
    PROVE  Pixelwise'
<1>1. head \in Slots
  BY DEF RingInv
<1>2. pixelsLostFrame' = [pixelsLostFrame EXCEPT ![head] = @ + pixels] /\ pixelsLost' = pixelsLost + pixels
      /\ head' = head /\ history' = history /\ rowCnt' = counted
  BY DEF CountLost, SameBuffer
<1>3. pixelsLostFrame'[head] = pixelsLostFrame[head] + pixels /\ pixelsLostFrame' \in [Slots -> Int]
  BY <1>1, <1>2 DEF Pixelwise
<1> QED
  BY <1>1, <1>2, <1>3 DEF Pixelwise
(* Or a word that completes nothing. *)
LEMMA SameBufferSums ==
    ASSUME Pixelwise, NEW counted \in Int, SameBuffer(counted), rowPixels' \in Int,
           UNCHANGED <<pixelsLost, pixelsLostFrame>>
    PROVE  Pixelwise'
BY DEF Pixelwise, SameBuffer

(* A word that ends a frame. *)
LEMMA NextFrameSums ==
    ASSUME RingInv, Pixelwise, Record(history), NEW counted \in Int, NEW pixels \in Int,
           nextFrame(counted, pixels), rowPixels' \in Int
    PROVE  Pixelwise'
<1> DEFINE lost == pixels + LostRows(counted)
<1>1. head \in Slots /\ NewHead \in Slots
  BY SlotsOfInv
<1>2. lost \in Int
  BY ShortType
<1>3. /\ pixelsLost' = pixelsLost + lost
      /\ pixelsLostFrame' = [[pixelsLostFrame EXCEPT ![head] = @ + lost] EXCEPT ![NewHead] = 0]
      /\ history' = Finished(pixelsLostFrame[head] + lost)
      /\ rowCnt' = 0 /\ head' = NewHead
  BY DEF nextFrame, nextFrameBuffer
<1> HIDE DEF lost
<1>4. history'.losses = history.losses + (pixelsLostFrame[head] + lost)
  BY <1>3 DEF Finished, Record
<1>5. pixelsLostFrame' \in [Slots -> Int] /\ pixelsLostFrame'[NewHead] = 0
  BY <1>1, <1>2, <1>3 DEF Pixelwise
<1>6. pixelsLostFrame[head] \in Int
  BY <1>1 DEF Pixelwise
<1> QED
  BY <1>2, <1>3, <1>4, <1>5, <1>6 DEF Pixelwise

(* The words, one by one. *)
LEMMA WordSums ==
    ASSUME RingInv, Pixelwise, Record(history), readDatagramsC
    PROVE  Pixelwise'
<1>0. /\ rowPixels \in Int /\ rowCnt \in Int /\ rowCnt + 1 \in Int
      /\ PixPerWord \in Int /\ EndPixels \in Int /\ 0 \in Int
      /\ rowPixels + PixPerWord \in Int /\ rowPixels + EndPixels \in Int
  BY WordPixels DEF Pixelwise
<1>1. /\ Short(rowPixels) \in Int /\ Short(rowPixels + EndPixels) \in Int
      /\ Short(rowPixels + PixPerWord) \in Int
  BY <1>0, ShortType
<1>2. CASE InfoHeader
  BY <1>2 DEF InfoHeader, Pixelwise
<1>3. CASE StartOfFrame
  BY <1>0, <1>1, <1>3, CountLostSums DEF StartOfFrame
<1>4. CASE StartOfRow
  <2>1. CASE rowCnt + 1 > MPX_PIXEL_ROWS
    BY <1>0, <1>1, <1>4, <2>1, NextFrameSums DEF StartOfRow
  <2>2. CASE ~ (rowCnt + 1 > MPX_PIXEL_ROWS)
    BY <1>0, <1>1, <1>4, <2>2, CountLostSums DEF StartOfRow
  <2> QED
    BY <2>1, <2>2
<1>5. CASE Middle
  <2>1. CASE \E counted \in {rowCnt, rowCnt + 1} :
                 SameBuffer(counted) /\ UNCHANGED <<pixelsLost, pixelsLostFrame>>
    <3>1. rowPixels' \in Int
      BY <1>0, <1>5 DEF Middle
    <3> QED
      BY <1>0, <2>1, <3>1, SameBufferSums
  <2>2. CASE nextFrame(rowCnt + 1, 0)
    <3>1. rowPixels' \in Int
      BY <1>0, <1>5 DEF Middle
    <3> QED
      BY <1>0, <2>2, <3>1, NextFrameSums
  <2> QED
    BY <1>5, <2>1, <2>2 DEF Middle
<1>6. CASE EndOfRow
  <2> DEFINE missing == Short(rowPixels + EndPixels)
  <2>1. CASE rowCnt >= MPX_PIXEL_ROWS
    BY <1>0, <1>1, <1>6, <2>1, NextFrameSums DEF EndOfRow
  <2>2. CASE ~ (rowCnt >= MPX_PIXEL_ROWS)
    <3>1. CountLost(missing) /\ SameBuffer(rowCnt) /\ rowPixels' = rowPixels + EndPixels + missing
      BY <1>6, <2>2 DEF EndOfRow
    <3>2. rowPixels' \in Int
      BY <1>0, <1>1, <3>1
    <3> QED
      BY <1>0, <1>1, <3>1, <3>2, CountLostSums
  <2> QED
    BY <2>1, <2>2
<1>7. CASE EndOfFrame
  <2> DEFINE missing == Short(rowPixels + PixPerWord)
  <2>1. nextFrame(rowCnt, missing) /\ rowPixels' = rowPixels + PixPerWord + missing
    BY <1>7 DEF EndOfFrame
  <2>2. rowPixels' \in Int
    BY <1>0, <1>1, <2>1
  <2> QED
    BY <1>0, <1>1, <2>1, <2>2, NextFrameSums
<1>8. CASE LosePacket
  BY <1>8 DEF LosePacket, Pixelwise, receiver, ring
<1> QED
  BY <1>2, <1>3, <1>4, <1>5, <1>6, <1>7, <1>8 DEF readDatagramsC

(* Every step keeps the pixels' total. *)
LEMMA PixelsKept == ASSUME RingInv, CountInv, PixelInv, [Next]_rvars PROVE PixelInv'
<1>0. compact \in BOOLEAN /\ compact' = compact /\ Record(history)
  BY StepOfClass DEF CountInv, CountTypes, Record
<1> SUFFICES ASSUME compact PROVE Pixelwise'
  BY <1>0 DEF PixelInv, Pixelwise
<1>1. Pixelwise
  BY DEF PixelInv, Pixelwise
<1>2. CASE readDatagramsC
  BY <1>0, <1>1, <1>2, WordSums
<1>3. CASE resetLostC
  <2>1. /\ pixelsLost' \in {0, pixelsLost}
        /\ UNCHANGED <<pixelsLostFrame, rowCnt, rowPixels, ring>>
        /\ history' = [history EXCEPT !.losses = @ - (pixelsLost - pixelsLost')]
    BY <1>3 DEF resetLostC, Cleared
  <2>2. head' = head /\ history'.losses = history.losses - (pixelsLost - pixelsLost')
    BY <1>0, <2>1 DEF ring, Record
  <2>3. head \in Slots
    BY DEF RingInv
  <2>4. pixelsLostFrame[head] \in Int
    BY <1>1, <2>3 DEF Pixelwise
  <2> QED
    BY <1>1, <2>1, <2>2, <2>4 DEF Pixelwise
<1>4. CASE UNCHANGED rvars
  BY <1>1, <1>4 DEF Pixelwise, rvars, rows, receiver, ring
<1>5. CASE Base
  <2>1. UNCHANGED <<pixelsLost, pixelsLostFrame, rowCnt, rowPixels>>
    BY <1>5 DEF Base, rows
  <2>2. UNCHANGED <<head, history>>
    <3>1. CASE handleFrameTimeout
      <4>1. currShutterCnt = -1
        BY DEF CountInv, CountTypes
      <4> QED
        BY <3>1, <4>1 DEF handleFrameTimeout, Unfinished, ring
    <3>2. CASE releaseFrame \/ Lifetime
      BY <3>2 DEF releaseFrame, Lifetime, BeginRun, Open, LeaveLoop, Stop, idle, ring
    <3> QED
      BY <1>5, <3>1, <3>2 DEF Base
  <2> QED
    BY <1>1, <2>1, <2>2 DEF Pixelwise
<1> QED
  BY <1>2, <1>3, <1>4, <1>5 DEF Next

-----------------------------------------------------------------------------
(* The three together. *)

CountingInv == RingInv /\ CountInv /\ FlagInv /\ PixelInv

(* Together they are an invariant of both receivers. *)
LEMMA CountingInvHolds == Spec => []CountingInv
<1>1. Init => RingInv
  BY ReceiverAssumption DEF Init, BaseInit, RingInv, Slots, OnSlots
<1>2. Init => CountInv
  <2> SUFFICES ASSUME Init PROVE CountInv
    OBVIOUS
  <2>1. 0 \in Slots
    BY <1>1 DEF RingInv, Init, BaseInit
  <2> QED
    BY <2>1 DEF Init, BaseInit, CountInv, CountTypes, Untried, Counting
<1>3. Init => FlagInv
  <2> SUFFICES ASSUME Init PROVE FlagInv
    OBVIOUS
  <2>1. 0 \in Slots
    BY <1>1 DEF RingInv, Init, BaseInit
  <2>2. Length = 0
    BY DEF Init, BaseInit, Length
  <2>3. \A s \in Slots : isCounterhFrame[s] = FALSE
    BY DEF Init, BaseInit
  <2> QED
    BY <2>1, <2>2, <2>3 DEF FlagInv, Flagged, FreeUnflagged, QueueFlagged, HeadFlag, Init, BaseInit
<1>4. Init => PixelInv
  <2> SUFFICES ASSUME Init PROVE PixelInv
    OBVIOUS
  <2>1. 0 \in Slots
    BY <1>1 DEF RingInv, Init, BaseInit
  <2>2. MPX_PIXEL_COLUMNS \in Int
    BY CompactAssumption
  <2> QED
    BY <2>1, <2>2 DEF Init, BaseInit, PixelInv
<1>5. CountingInv /\ [Next]_rvars => CountingInv'
  BY NextStep, StepKept, CountsKept, FlagsKept, PixelsKept DEF CountingInv
<1> QED
  BY <1>1, <1>2, <1>3, <1>4, <1>5, PTL DEF Spec, CountingInv

(* The queue's entries, as the properties read them. *)
LEMMA QueueEntries ==
    ASSUME RingInv
    PROVE  DOMAIN Queue = 1 .. Length /\ \A i \in 1 .. Length : Queue[i] = Entry(SlotOf(i))
<1> HIDE DEF RingInv, Length, Entry, SlotOf, Queue
<1> QED
  BY QueueIs

(* The count of lost packets that getFrame's caller is told with a frame   *)
(* is the number of packets missing in it, for every geometry, every order *)
(* of packets and pattern of loss, repetition and time-out.                *)
THEOREM FramesCountTheirLosses == Spec => []LostFrameIsMissing
<1>1. CountingInv => LostFrameIsMissing
  <2> SUFFICES ASSUME CountingInv, Counting, NEW i \in DOMAIN Queue
               PROVE  Queue[i][2] = expPacketsPerFrame - Cardinality({p.pos : p \in Queue[i][1]})
    BY DEF LostFrameIsMissing
  <2>1. i \in 1 .. Length /\ Queue[i] = Entry(SlotOf(i))
    BY QueueEntries DEF CountingInv
  <2>2. Good(Queue[i], N) /\ expPacketsPerFrame = N
    BY <2>1 DEF CountingInv, CountInv, QueueGood, Counts
  <2> QED
    BY <2>2 DEF Good, Positions
<1> QED
  BY <1>1, CountingInvHolds, PTL

(* The totals of lost packets and of lost pixels are the sums of the       *)
(* frames' counts: what readDatagrams of either class adds to its total is *)
(* what the frames add up to since the last reset that took effect,        *)
(* whatever is lost and whichever of the counts that resetLost clears an   *)
(* increment writes back.  A frame ended by a time-out counts with what it *)
(* had lost before its last packet (TimeoutLossCounted is about the rest). *)
THEOREM TotalsAreSums == Spec => []TotalsAddUp
<1>1. CountingInv => TotalsAddUp
  <2> SUFFICES ASSUME CountingInv PROVE TotalsAddUp
    OBVIOUS
  <2>1. CASE compact
    BY <2>1 DEF CountingInv, PixelInv, TotalsAddUp
  <2>2. CASE ~ compact
    <3>1. ASSUME packet = NoPacket, Counting PROVE packetsLost = history.losses + InProgress
      <4>1. Counts /\ Sums
        BY <3>1 DEF CountingInv, CountInv
      <4>2. Ahead = InProgress
        BY <3>1, <4>1 DEF Ahead, Missed, InProgress, Counts
      <4> QED
        BY <4>1, <4>2 DEF Sums
    <3> QED
      BY <2>2, <3>1 DEF TotalsAddUp, LossesAddUp
  <2> QED
    BY <2>1, <2>2
<1> QED
  BY <1>1, CountingInvHolds, PTL

(* A frame that the consumer is told is of counter H holds packets of it,  *)
(* as long as no frame was dropped: the flag that readDatagrams sets with  *)
(* the first packet of that counter is never left over from an earlier     *)
(* frame of the slot, since releaseFrame clears it.                        *)
THEOREM FlagsAreTrue == Spec => []FlaggedIsCounterH
<1>1. CountingInv => FlaggedIsCounterH
  <2> SUFFICES ASSUME CountingInv, Counting, ~ history.overrun, NEW i \in DOMAIN Queue,
                      Queue[i][3]
               PROVE  \E p \in Queue[i][1] : p.counter = 1
    BY DEF FlaggedIsCounterH
  <2>1. i \in 1 .. Length /\ Queue[i] = Entry(SlotOf(i))
    BY QueueEntries DEF CountingInv
  <2>2. ~ compact /\ ~ history.misled
    BY DEF CountingInv, CountInv, CountTypes, Counting
  <2>3. FlagOK(Queue[i])
    BY <2>1, <2>2 DEF CountingInv, FlagInv, Flagged, QueueFlagged
  <2> QED
    BY <2>3 DEF FlagOK
<1> QED
  BY <1>1, CountingInvHolds, PTL

-----------------------------------------------------------------------------
(* That no loss is silent, of the Compact-SPIDR.  A place is in a row, at  *)
(* a position of it: full words are at 0 .. F - 1, the last word at F.     *)

F == MPX_PIXEL_COLUMNS \div PixPerWord
Row == (Place - 1) \div RowWords
Pos == (Place - 1) % RowWords
(* Full words of a row, one less than its words, and what they leave to *)
(* its last.                                                            *)
LEMMA RowIs ==
    /\ F \in Nat /\ F > 0 /\ RowWords = F + 1
    /\ MPX_PIXEL_COLUMNS \in Nat /\ PixPerWord \in Nat /\ PixPerWord > 0
    /\ F * PixPerWord < MPX_PIXEL_COLUMNS /\ MPX_PIXEL_COLUMNS < (F + 1) * PixPerWord
    /\ EndPixels = MPX_PIXEL_COLUMNS - F * PixPerWord
<1> DEFINE r == MPX_PIXEL_COLUMNS % PixPerWord
<1>1. /\ MPX_PIXEL_COLUMNS \in Nat /\ PixPerWord \in Nat \ {0}
      /\ MPX_PIXEL_COLUMNS > PixPerWord /\ r # 0
  BY CompactAssumption
<1>2. F \in Int /\ MPX_PIXEL_COLUMNS = PixPerWord * F + r /\ r \in 0 .. PixPerWord - 1
  BY <1>1 DEF F
<1>3. F > 0
  <2>1. SUFFICES ASSUME F <= 0 PROVE FALSE
    BY <1>2
  <2>2. PixPerWord * F <= 0
    BY <1>1, <1>2, <2>1
  <2> QED
    BY <1>1, <1>2, <2>2
<1>4. PixPerWord * F = F * PixPerWord /\ (F + 1) * PixPerWord = F * PixPerWord + PixPerWord
  BY <1>1, <1>2
<1> QED
  BY <1>1, <1>2, <1>3, <1>4 DEF RowWords, EndPixels, F

(* Pixels of so many full words: of all but the last they are too few for  *)
(* the row, whatever word ends it, and with the last they fill it.         *)
LEMMA PixelsIs ==
    ASSUME NEW k \in 1 .. F
    PROVE  /\ k * PixPerWord < MPX_PIXEL_COLUMNS
           /\ (k + 1) * PixPerWord = k * PixPerWord + PixPerWord
           /\ k < F => /\ k * PixPerWord + PixPerWord < MPX_PIXEL_COLUMNS
                       /\ k * PixPerWord + EndPixels < MPX_PIXEL_COLUMNS
           /\ k = F => /\ k * PixPerWord + PixPerWord >= MPX_PIXEL_COLUMNS
                       /\ k * PixPerWord + EndPixels = MPX_PIXEL_COLUMNS
<1> DEFINE px == k * PixPerWord
           rest == (F - k) * PixPerWord
<1>1. F \in Nat /\ PixPerWord \in Nat /\ PixPerWord > 0 /\ MPX_PIXEL_COLUMNS \in Nat
  BY RowIs
<1>2. k \in Nat /\ F - k \in Nat
  BY <1>1
<1>3. F * PixPerWord = px + rest
  BY <1>1, <1>2
<1>4. (k + 1) * PixPerWord = px + PixPerWord /\ (F + 1) * PixPerWord = F * PixPerWord + PixPerWord
  BY <1>1, <1>2
<1>5. rest \in Nat /\ px \in Nat
  BY <1>1, <1>2
<1>6. k < F => rest >= PixPerWord
  <2>1. SUFFICES ASSUME k < F PROVE rest >= PixPerWord
    OBVIOUS
  <2>2. F - k - 1 \in Nat /\ rest = (F - k - 1) * PixPerWord + PixPerWord
    BY <1>1, <1>2, <2>1
  <2>3. (F - k - 1) * PixPerWord \in Nat
    BY <1>1, <2>2
  <2> QED
    BY <1>1, <2>2, <2>3
<1>7. k = F => rest = 0
  BY <1>1
<1>8. F * PixPerWord \in Nat /\ F * PixPerWord < MPX_PIXEL_COLUMNS
      /\ MPX_PIXEL_COLUMNS < F * PixPerWord + PixPerWord /\ EndPixels = MPX_PIXEL_COLUMNS - F * PixPerWord
  BY <1>1, <1>4, RowIs
<1> HIDE DEF px, rest
<1> QED
  BY <1>1, <1>3, <1>4, <1>5, <1>6, <1>7, <1>8 DEF px

(* What quotient and remainder are, *)
LEMMA Divided ==
    ASSUME NEW n \in Nat \ {0}, NEW i \in Int
    PROVE  i \div n \in Int /\ i % n \in 0 .. n - 1 /\ i = n * (i \div n) + (i % n)
OBVIOUS

(* and those of what is given by them. *)
LEMMA Division ==
    ASSUME NEW n \in Nat \ {0}, NEW q \in Int, NEW r \in 0 .. n - 1
    PROVE  (n * q + r) \div n = q /\ (n * q + r) % n = r
<1> DEFINE i == n * q + r
           d == i \div n
<1>1. i \in Int /\ d \in Int /\ i = n * d + (i % n) /\ i % n \in 0 .. n - 1
  OBVIOUS
<1>2. n * (q - d) = (i % n) - r /\ n * (d - q) = r - (i % n)
  BY <1>1
<1>3. ~ (0 < n * (q - d)) /\ ~ (0 < n * (d - q))
  BY <1>1, <1>2, NoMultipleBetween
<1>4. i % n = r /\ n * (q - d) = 0
  BY <1>1, <1>2, <1>3
<1>5. q - d = 0
  BY <1>1, <1>4
<1> QED
  BY <1>1, <1>4, <1>5

(* Where a place is. *)
LEMMA PlaceIs ==
    ASSUME sent \in Nat
    PROVE  /\ FrameWords \in Nat /\ FrameWords > 1 /\ MPX_PIXEL_ROWS \in Nat /\ MPX_PIXEL_ROWS > 1
           /\ Place \in 0 .. FrameWords - 1
           /\ sent \div FrameWords \in Nat /\ sent = FrameWords * (sent \div FrameWords) + Place
           /\ Row \in Int /\ Pos \in 0 .. F /\ Place = RowWords * Row + Pos + 1
           /\ Place > 0 => Row \in 0 .. MPX_PIXEL_ROWS - 1
<1>1. F \in Nat /\ F > 0 /\ RowWords = F + 1
  BY RowIs
<1>2. MPX_PIXEL_ROWS \in Nat /\ MPX_PIXEL_ROWS > 1
  BY CompactAssumption
<1>3. MPX_PIXEL_ROWS * RowWords \in Nat /\ MPX_PIXEL_ROWS * RowWords >= RowWords
  <2>1. MPX_PIXEL_ROWS - 1 \in Nat /\ RowWords \in Nat
    BY <1>1, <1>2
  <2>2. (MPX_PIXEL_ROWS - 1) * RowWords \in Nat
    BY <2>1
  <2>3. MPX_PIXEL_ROWS * RowWords = (MPX_PIXEL_ROWS - 1) * RowWords + RowWords
    BY <1>2, <2>1
  <2> QED
    BY <2>1, <2>2, <2>3
<1>4. FrameWords \in Nat /\ FrameWords > 1 /\ FrameWords - 1 = MPX_PIXEL_ROWS * RowWords
  BY <1>1, <1>3 DEF FrameWords
<1>5. /\ Place \in 0 .. FrameWords - 1 /\ sent \div FrameWords \in Nat
      /\ sent = FrameWords * (sent \div FrameWords) + Place
  BY <1>4 DEF Place
<1>6. Place - 1 \in Int /\ RowWords \in Nat \ {0}
  BY <1>1, <1>4, <1>5
<1>7. Row \in Int /\ Pos \in 0 .. F /\ Place - 1 = RowWords * Row + Pos
  <2>1. /\ (Place - 1) \div RowWords \in Int /\ (Place - 1) % RowWords \in 0 .. RowWords - 1
        /\ Place - 1 = RowWords * ((Place - 1) \div RowWords) + ((Place - 1) % RowWords)
    BY <1>6, Divided
  <2> QED
    BY <1>1, <2>1 DEF Row, Pos
<1>8. ASSUME Place > 0 PROVE Row \in 0 .. MPX_PIXEL_ROWS - 1
  <2>1. RowWords * Row + Pos >= 0 /\ RowWords * Row + Pos < MPX_PIXEL_ROWS * RowWords
    BY <1>4, <1>5, <1>7, <1>8
  <2>2. CASE Row < 0
    <3>1. -1 - Row \in Nat /\ RowWords * (-1 - Row) \in Nat
      BY <1>6, <1>7, <2>2
    <3>2. RowWords * (-1 - Row) = - RowWords - RowWords * Row
      BY <1>6, <1>7
    <3> QED
      BY <1>1, <1>7, <2>1, <3>1, <3>2
  <2>3. CASE Row >= MPX_PIXEL_ROWS
    <3>1. Row - MPX_PIXEL_ROWS \in Nat /\ RowWords * (Row - MPX_PIXEL_ROWS) \in Nat
      BY <1>2, <1>6, <1>7, <2>3
    <3>2. RowWords * (Row - MPX_PIXEL_ROWS) = RowWords * Row - MPX_PIXEL_ROWS * RowWords
      BY <1>2, <1>6, <1>7
    <3> QED
      BY <1>1, <1>3, <1>6, <1>7, <2>1, <3>1, <3>2
  <2> QED
    BY <1>2, <1>7, <2>2, <2>3
<1> QED
  BY <1>2, <1>4, <1>5, <1>7, <1>8

(* What is at a place by its row and its position there. *)
LEMMA PlaceFrom ==
    ASSUME sent \in Nat, NEW r \in Int, NEW p \in 0 .. F, Place = RowWords * r + p + 1
    PROVE  Row = r /\ Pos = p
<1>1. RowWords \in Nat \ {0} /\ p \in 0 .. RowWords - 1
  BY RowIs
<1>2. (RowWords * r + p) \div RowWords = r /\ (RowWords * r + p) % RowWords = p
  BY <1>1, Division
<1>3. Place - 1 = RowWords * r + p
  BY <1>1, PlaceIs
<1> QED
  BY <1>2, <1>3 DEF Row, Pos

(* So many places on in the frame, or at its end. *)
LEMMA Further ==
    ASSUME sent \in Nat, NEW n \in Nat, Place + n <= FrameWords, sent' = sent + n
    PROVE  /\ Place' = IF Place + n = FrameWords THEN 0 ELSE Place + n
           /\ Place + n < FrameWords => (sent \div FrameWords)' = sent \div FrameWords
           /\ FrameWords' = FrameWords /\ sent' \in Nat
<1> DEFINE q == sent \div FrameWords
<1>1. /\ FrameWords \in Nat \ {0} /\ Place \in 0 .. FrameWords - 1 /\ q \in Nat
      /\ sent = FrameWords * q + Place
  BY PlaceIs
<1> HIDE DEF q
<1>2. CASE Place + n < FrameWords
  <2>1. Place + n \in 0 .. FrameWords - 1 /\ sent' = FrameWords * q + (Place + n)
    BY <1>1, <1>2
  <2>2. sent' \div FrameWords = q /\ sent' % FrameWords = Place + n
    BY <1>1, <2>1, Division
  <2> QED
    BY <1>1, <1>2, <2>2 DEF Place, q, FrameWords
<1>3. CASE Place + n = FrameWords
  <2>1. 0 \in 0 .. FrameWords - 1 /\ q + 1 \in Int /\ sent' = FrameWords * (q + 1) + 0
    BY <1>1, <1>3
  <2>2. sent' % FrameWords = 0
    BY <1>1, <2>1, Division
  <2> QED
    BY <1>1, <1>3, <2>2 DEF Place, FrameWords
<1> QED
  BY <1>1, <1>2, <1>3

(* The place of a word by its kind. *)
LEMMA KindIs ==
    ASSUME sent \in Nat
    PROVE  /\ Kind = "INFO" => Place = 0
           /\ Kind = "SOF" => Place = 1 /\ Row = 0 /\ Pos = 0
           /\ Kind = "SOR" => Place > 1 /\ Place < FrameWords - 1 /\ Pos = 0 /\ Row > 0
           /\ Kind = "MID" => Place > 1 /\ Place < FrameWords - 1 /\ Pos > 0 /\ Pos < F
           /\ Kind = "EOR" => Place > 1 /\ Place < FrameWords - 1 /\ Pos = F /\ Row < MPX_PIXEL_ROWS - 1
           /\ Kind = "EOF" => Place > 1 /\ Place = FrameWords - 1 /\ Pos = F /\ Row = MPX_PIXEL_ROWS - 1
<1>1. F \in Nat /\ F > 0 /\ RowWords = F + 1 /\ 0 \in 0 .. F /\ F \in 0 .. F
  BY RowIs
<1>2. /\ FrameWords \in Nat /\ Place \in 0 .. FrameWords - 1 /\ MPX_PIXEL_ROWS \in Nat
      /\ Row \in Int /\ Pos \in 0 .. F /\ Place = RowWords * Row + Pos + 1
      /\ Place > 0 => Row \in 0 .. MPX_PIXEL_ROWS - 1
  BY PlaceIs
<1>3. Place = 1 => Row = 0 /\ Pos = 0
  <2>1. 0 \in Int /\ RowWords * 0 + 0 + 1 = 1
    BY <1>1
  <2> QED
    BY <1>1, <2>1, PlaceFrom
<1>4. Place = FrameWords - 1 => Pos = F /\ Row = MPX_PIXEL_ROWS - 1
  <2>1. MPX_PIXEL_ROWS - 1 \in Int /\ RowWords * (MPX_PIXEL_ROWS - 1) + F + 1 = FrameWords - 1
    BY <1>1, <1>2 DEF FrameWords
  <2> QED
    BY <1>1, <2>1, PlaceFrom
<1>5. Place % RowWords = IF Pos = F THEN 0 ELSE Pos + 1
  <2>1. CASE Pos = F
    <3>1. Row + 1 \in Int /\ 0 \in 0 .. RowWords - 1 /\ Place = RowWords * (Row + 1) + 0
      BY <1>1, <1>2, <2>1
    <3> QED
      BY <1>1, <2>1, <3>1, Division
  <2>2. CASE Pos < F
    <3>1. Pos + 1 \in 0 .. RowWords - 1 /\ Place = RowWords * Row + (Pos + 1)
      BY <1>1, <1>2, <2>2
    <3> QED
      BY <1>1, <1>2, <2>2, <3>1, Division
  <2> QED
    BY <1>1, <1>2, <2>1, <2>2
<1>6. Place # 1 /\ Pos = 0 => Row # 0
  BY <1>1, <1>2
<1>7. Place # FrameWords - 1 /\ Pos = F => Row # MPX_PIXEL_ROWS - 1
  <2>1. RowWords * (MPX_PIXEL_ROWS - 1) + F + 1 = FrameWords - 1
    BY <1>1, <1>2 DEF FrameWords
  <2> QED
    BY <1>2, <2>1
<1> HIDE DEF Place, Row, Pos, FrameWords, RowWords, F
<1> QED
  BY <1>1, <1>2, <1>3, <1>4, <1>5, <1>6, <1>7 DEF Kind

(* And the place of the word behind it. *)
LEMMA NextPlace ==
    ASSUME sent \in Nat, sent' = sent + 1
    PROVE  /\ Place' = IF Place = FrameWords - 1 THEN 0 ELSE Place + 1
           /\ Place = 0 => Row' = 0 /\ Pos' = 0
           /\ Place > 0 /\ Place < FrameWords - 1
                => IF Pos = F THEN Row' = Row + 1 /\ Pos' = 0 ELSE Row' = Row /\ Pos' = Pos + 1
           /\ Place < FrameWords - 1 => (sent \div FrameWords)' = sent \div FrameWords
<1>1. F \in Nat /\ F > 0 /\ RowWords = F + 1 /\ 0 \in 0 .. F
  BY RowIs
<1>2. /\ FrameWords \in Nat /\ Place \in 0 .. FrameWords - 1
      /\ Row \in Int /\ Pos \in 0 .. F /\ Place = RowWords * Row + Pos + 1
  BY PlaceIs
<1>3. /\ Place' = IF Place + 1 = FrameWords THEN 0 ELSE Place + 1
      /\ Place + 1 < FrameWords => (sent \div FrameWords)' = sent \div FrameWords
      /\ sent' \in Nat
  BY <1>2, Further
<1>4. ASSUME NEW r \in Int, NEW p \in 0 .. F, Place' = RowWords * r + p + 1
      PROVE  Row' = r /\ Pos' = p
  <2>1. RowWords \in Nat \ {0} /\ p \in 0 .. RowWords - 1
    BY <1>1
  <2>2. (RowWords * r + p) \div RowWords = r /\ (RowWords * r + p) % RowWords = p
    BY <2>1, Division
  <2>3. Place' - 1 = RowWords * r + p
    BY <1>1, <1>2, <1>3, <1>4
  <2> QED
    BY <2>2, <2>3 DEF Row, Pos, RowWords
<1>5. ASSUME Place = 0 PROVE Row' = 0 /\ Pos' = 0
  <2>1. Place' = RowWords * 0 + 0 + 1 /\ 0 \in Int
    BY <1>1, <1>2, <1>3, <1>5, PlaceIs
  <2> QED
    BY <1>1, <1>4, <2>1
<1>6. ASSUME Place < FrameWords - 1, Pos = F PROVE Row' = Row + 1 /\ Pos' = 0
  <2>1. Place' = RowWords * (Row + 1) + 0 + 1 /\ Row + 1 \in Int
    BY <1>1, <1>2, <1>3, <1>6
  <2> QED
    BY <1>1, <1>4, <2>1
<1>7. ASSUME Place < FrameWords - 1, Pos # F PROVE Row' = Row /\ Pos' = Pos + 1
  <2>1. Place' = RowWords * Row + (Pos + 1) + 1 /\ Pos + 1 \in 0 .. F
    BY <1>1, <1>2, <1>3, <1>7
  <2> QED
    BY <1>2, <1>4, <2>1
<1> QED
  BY <1>2, <1>3, <1>5, <1>6, <1>7

-----------------------------------------------------------------------------
(* The row in hand holds so many words, the last of which completes it. *)
Holds(k) ==
    /\ k \in 1 .. RowWords
    /\ IF k = RowWords THEN rowPixels >= MPX_PIXEL_COLUMNS ELSE rowPixels = k * PixPerWord

(* Nothing of the frame has been lost so far. *)
FrameSoFar == {[frame |-> sent \div FrameWords, place |-> q] : q \in 0 .. Place - 1}
InSync ==
    /\ frameBuffer[head] = FrameSoFar /\ pixelsLostFrame[head] = 0
    /\ IF Place = 0 THEN Holds(RowWords) /\ rowCnt = 0
       ELSE IF Pos = 0 THEN Holds(RowWords) /\ rowCnt = Row
       ELSE Holds(Pos) /\ rowCnt = Row + 1

(* A part of the frame has been, but not yet noticed: its rows are counted *)
(* behind its words. *)
Behind(k) ==
    LET rowsBehind == Row + 1 - rowCnt IN
    /\ \/ rowsBehind > 1
       \/ rowsBehind = 1 /\ (Pos > 0 \/ k < F)
       \/ rowsBehind = 0 /\ k < Pos
    /\ k = RowWords => Pos = 0 \/ (Place % PacketWords = 0 /\ Place <= losses * PacketWords)
(* The end of the frame has been, and the next begins, *)
TailLost(k) ==
    /\ k < RowWords
    /\ losses = 1 => k = (LastStart - 1) % RowWords /\ rowCnt = (LastStart - 1) \div RowWords + 1
(* or its begin has been as well. *)
Mixed(k) ==
    /\ losses > 1 /\ k < RowWords
    /\ k < Pos \/ (Pos < k /\ rowCnt < MPX_PIXEL_ROWS)
Unnoticed(k) == Holds(k) /\ IF Place < 2 THEN TailLost(k) ELSE Behind(k) \/ Mixed(k)
Noticed == pixelsLostFrame[head] > 0

HeadKnown ==
    /\ pixelsLostFrame[head] >= 0
    /\ InSync \/ (losses > 0 /\ (Noticed \/ \E k \in 1 .. RowWords : Unnoticed(k)))

FrameKnown(words, lost) == (Whole(words) /\ lost = 0) \/ (lost > 0 /\ losses > 0)

SilentTypes == sent \in Nat /\ losses \in Nat
(* What is published, if a buffer is. *)
Published == FrameKnown(frameBuffer'[head], pixelsLostFrame'[head])

(* What a row that holds so many words is short of. *)
LEMMA HoldsIs ==
    ASSUME NEW k \in 1 .. RowWords, Holds(k), rowPixels \in Int
    PROVE  /\ {Short(rowPixels), Short(rowPixels + EndPixels), Short(rowPixels + PixPerWord)} \subseteq Nat
           /\ Short(rowPixels) > 0 <=> k # RowWords
           /\ Short(rowPixels + EndPixels) > 0 <=> k < F
           /\ Short(rowPixels + PixPerWord) > 0 <=> k < F
           /\ rowPixels + PixPerWord < MPX_PIXEL_COLUMNS <=> k < F
           /\ k < F => rowPixels + PixPerWord = (k + 1) * PixPerWord
           /\ rowPixels + EndPixels + Short(rowPixels + EndPixels) >= MPX_PIXEL_COLUMNS
<1>1. /\ F \in Nat /\ F > 0 /\ RowWords = F + 1
      /\ MPX_PIXEL_COLUMNS \in Nat /\ PixPerWord \in Nat /\ PixPerWord > 0
      /\ F * PixPerWord \in Int /\ F * PixPerWord < MPX_PIXEL_COLUMNS
      /\ EndPixels = MPX_PIXEL_COLUMNS - F * PixPerWord
  BY RowIs
<1>2. CASE k = RowWords
  <2>1. rowPixels >= MPX_PIXEL_COLUMNS /\ EndPixels > 0 /\ EndPixels \in Int
    BY <1>1, <1>2 DEF Holds
  <2> HIDE DEF EndPixels, F, RowWords
  <2> QED
    BY <1>1, <1>2, <2>1 DEF Short
<1>3. CASE k # RowWords
  <2>1. k \in 1 .. F /\ rowPixels = k * PixPerWord
    BY <1>1, <1>3 DEF Holds
  <2> DEFINE px == k * PixPerWord
  <2>2. /\ px < MPX_PIXEL_COLUMNS
        /\ (k + 1) * PixPerWord = px + PixPerWord
        /\ k < F => /\ px + PixPerWord < MPX_PIXEL_COLUMNS
                    /\ px + EndPixels < MPX_PIXEL_COLUMNS
        /\ k = F => /\ px + PixPerWord >= MPX_PIXEL_COLUMNS
                    /\ px + EndPixels = MPX_PIXEL_COLUMNS
    BY <2>1, PixelsIs
  <2>3. rowPixels = px /\ EndPixels \in Int
    BY <1>1, <2>1
  <2> HIDE DEF px, EndPixels, F, RowWords
  <2> QED
    BY <1>1, <1>3, <2>1, <2>2, <2>3 DEF Short
<1> QED
  BY <1>2, <1>3

(* What it holds after a word. *)
LEMMA HoldsNext ==
    /\ rowPixels' = PixPerWord => Holds(1)'
    /\ rowPixels' \in Int /\ rowPixels' >= MPX_PIXEL_COLUMNS => Holds(RowWords)'
    /\ \A k \in 1 .. F - 1 : rowPixels' = (k + 1) * PixPerWord => Holds(k + 1)'
<1>1. F \in Nat /\ F > 0 /\ RowWords = F + 1 /\ 1 * PixPerWord = PixPerWord
  BY RowIs
<1> QED
  BY <1>1 DEF Holds, RowWords

(* A word copied to the buffer at the head. *)
LEMMA GrowsIf ==
    ASSUME RingInv, Pixelwise, NEW pixels \in Int, NEW counted, SameBuffer(counted),
           CountLost(pixels) \/ (pixels = 0 /\ UNCHANGED <<pixelsLost, pixelsLostFrame>>)
    PROVE  /\ head' = head /\ rowCnt' = counted
           /\ frameBuffer'[head] = frameBuffer[head] \cup {Word}
           /\ pixelsLostFrame'[head] = pixelsLostFrame[head] + pixels
           /\ pixelsLostFrame[head] \in Int
           /\ OnlyAt(pixelsLostFrame, pixelsLostFrame', {head})
<1>1. head \in Slots /\ OnSlots(frameBuffer) /\ pixelsLostFrame \in [Slots -> Int]
  BY DEF RingInv, Pixelwise
<1> QED
  BY <1>1 DEF SameBuffer, CountLost, Keep, OnSlots, OnlyAt

(* A frame that ends. *)
LEMMA EndsIf ==
    ASSUME RingInv, Pixelwise, NEW pixels \in Int, NEW counted \in Int, nextFrame(counted, pixels)
    PROVE  /\ head' = NewHead /\ rowCnt' = 0 /\ pixelsLostFrame'[NewHead] = 0
           /\ LostRows(counted) \in Nat /\ pixelsLostFrame[head] \in Int
           /\ counted < MPX_PIXEL_ROWS => LostRows(counted) > 0
           /\ ~ Full => /\ NewHead # head
                        /\ pixelsLostFrame'[head] = pixelsLostFrame[head] + pixels + LostRows(counted)
           /\ OnlyAt(pixelsLostFrame, pixelsLostFrame', {head, NewHead})
<1> DEFINE lost == pixels + LostRows(counted)
<1>1. head \in Slots /\ NewHead \in Slots /\ OnSlots(pixelsLostFrame) /\ pixelsLostFrame[head] \in Int
  BY SlotsOfInv DEF Pixelwise, OnSlots
<1>2. MPX_PIXEL_ROWS \in Nat /\ MPX_PIXEL_COLUMNS \in Nat /\ MPX_PIXEL_COLUMNS > 0
  BY CompactAssumption
<1>3. LostRows(counted) \in Nat /\ (counted < MPX_PIXEL_ROWS => LostRows(counted) > 0)
  <2>1. CASE counted < MPX_PIXEL_ROWS
    <3> DEFINE n == MPX_PIXEL_ROWS - counted
    <3>1. n \in Nat \ {0} /\ LostRows(counted) = n * MPX_PIXEL_COLUMNS
      BY <1>2, <2>1 DEF LostRows
    <3>2. n - 1 \in Nat /\ n * MPX_PIXEL_COLUMNS = (n - 1) * MPX_PIXEL_COLUMNS + MPX_PIXEL_COLUMNS
      BY <1>2, <3>1
    <3>3. (n - 1) * MPX_PIXEL_COLUMNS \in Nat
      BY <1>2, <3>2
    <3> QED
      BY <1>2, <3>1, <3>2, <3>3
  <2>2. CASE ~ (counted < MPX_PIXEL_ROWS)
    BY <1>2, <2>2 DEF LostRows
  <2> QED
    BY <2>1, <2>2
<1>4. lost \in Int
  BY <1>3
<1>5. pixelsLostFrame' = [[pixelsLostFrame EXCEPT ![head] = @ + lost] EXCEPT ![NewHead] = 0]
      /\ head' = NewHead /\ rowCnt' = 0
  BY DEF nextFrame, nextFrameBuffer
<1>6. ~ Full => NewHead # head
  BY <1>1, NextSlotType DEF NewHead
<1> HIDE DEF lost
<1>7. OnlyAt(pixelsLostFrame, pixelsLostFrame', {head, NewHead})
  BY <1>1, <1>5, UpdateTwo
<1>8. pixelsLostFrame'[NewHead] = 0 /\ (NewHead # head => pixelsLostFrame'[head] = pixelsLostFrame[head] + lost)
  BY <1>1, <1>5 DEF OnSlots
<1> QED
  BY <1>1, <1>3, <1>4, <1>5, <1>6, <1>7, <1>8 DEF lost

-----------------------------------------------------------------------------
(* A step's outcome: what the head's buffer then is, and what is told of   *)
(* the one published.                                                      *)
Outcome == HeadKnown' /\ (head' # head => Published)
Late == SilentTypes /\ Pixelwise /\ losses > 0 /\ pixelsLostFrame[head] >= 0

(* Words that add to what is noticed, *)
LEMMA NoticedGrows ==
    ASSUME RingInv, Late, losses' = losses, NEW pixels \in Nat, NEW counted, SameBuffer(counted),
           CountLost(pixels) \/ (pixels = 0 /\ UNCHANGED <<pixelsLost, pixelsLostFrame>>),
           Noticed \/ pixels > 0
    PROVE  Outcome
<1>1. /\ head' = head /\ pixelsLostFrame'[head] = pixelsLostFrame[head] + pixels
      /\ pixelsLostFrame[head] \in Int
  BY GrowsIf DEF Late
<1> QED
  BY <1>1 DEF Outcome, Late, HeadKnown, Noticed

(* or that do not, *)
LEMMA UnnoticedGrows ==
    ASSUME RingInv, Late, losses' = losses, NEW counted, SameBuffer(counted),
           CountLost(0) \/ UNCHANGED <<pixelsLost, pixelsLostFrame>>,
           NEW k \in 1 .. RowWords, Unnoticed(k)'
    PROVE  Outcome
<1>1. /\ head' = head /\ pixelsLostFrame'[head] = pixelsLostFrame[head] + 0
      /\ pixelsLostFrame[head] \in Int
  BY GrowsIf DEF Late
<1>2. RowWords' = RowWords
  BY DEF RowWords
<1> QED
  BY <1>1, <1>2 DEF Outcome, Late, HeadKnown

(* and those that end a frame with a loss in the midst of the next. *)
LEMMA NoticedEnds ==
    ASSUME RingInv, Late, losses' = losses, NEW pixels \in Nat, NEW counted \in Int,
           nextFrame(counted, pixels), Noticed \/ pixels > 0 \/ counted < MPX_PIXEL_ROWS
    PROVE  head' # head => Published
<1>1. /\ head' = NewHead /\ LostRows(counted) \in Nat /\ pixelsLostFrame[head] \in Int
      /\ counted < MPX_PIXEL_ROWS => LostRows(counted) > 0
      /\ ~ Full => pixelsLostFrame'[head] = pixelsLostFrame[head] + pixels + LostRows(counted)
  BY EndsIf DEF Late
<1>2. head' # head => pixelsLostFrame'[head] > 0
  BY <1>1 DEF Late, Noticed, NewHead
<1> QED
  BY <1>2 DEF Late, Published, FrameKnown
LEMMA Restarts ==
    ASSUME RingInv, Late, losses' = losses, sent' = sent + 1, Kind \in {"SOR", "MID", "EOR"},
           NEW pixels \in Int, NEW counted \in Int, nextFrame(counted, pixels),
           rowPixels' = PixPerWord
    PROVE  HeadKnown'
<1>1. head' = NewHead /\ pixelsLostFrame'[NewHead] = 0 /\ rowCnt' = 0
  BY EndsIf DEF Late
<1>2. F \in Nat /\ F > 0 /\ RowWords = F + 1 /\ RowWords' = RowWords
  BY RowIs DEF RowWords
<1>3. /\ Place > 1 /\ Place < FrameWords - 1 /\ Row \in Int /\ Pos \in 0 .. F /\ Row >= 0 /\ (Pos = 0 => Row > 0)
      /\ Place \in Int
  <2>1. sent \in Nat
    BY DEF Late, SilentTypes
  <2> QED
    BY <1>2, <2>1, KindIs, PlaceIs
<1>4. /\ Place' = Place + 1
      /\ IF Pos = F THEN Row' = Row + 1 /\ Pos' = 0 ELSE Row' = Row /\ Pos' = Pos + 1
  BY <1>3, NextPlace DEF Late, SilentTypes
<1>5. Holds(1)'
  BY HoldsNext
<1>6. Behind(1)'
  <2>1. Row' + 1 - rowCnt' > 1 \/ (Row' + 1 - rowCnt' = 1 /\ Pos' > 0)
    BY <1>1, <1>2, <1>3, <1>4
  <2>2. 1 # RowWords'
    BY <1>2
  <2> QED
    BY <2>1, <2>2 DEF Behind
<1>7. Unnoticed(1)' /\ 1 \in 1 .. RowWords'
  <2>1. ~ (Place' < 2)
    BY <1>3, <1>4
  <2> QED
    BY <1>2, <1>5, <1>6, <2>1 DEF Unnoticed
<1> QED
  BY <1>1, <1>7 DEF HeadKnown, Late

(* The buffer that follows the end of a frame is in step again. *)
LEMMA EndsInSync ==
    ASSUME RingInv, SilentTypes, Pixelwise, sent' = sent + 1, Kind = "EOF", NEW pixels \in Int, NEW counted \in Int,
           nextFrame(counted, pixels), frameBuffer' = Emptied(Keep),
           rowPixels' \in Int, rowPixels' >= MPX_PIXEL_COLUMNS
    PROVE  HeadKnown'
<1>1. head' = NewHead /\ pixelsLostFrame'[NewHead] = 0 /\ rowCnt' = 0
  BY EndsIf
<1>2. Place' = 0
  BY KindIs, NextPlace DEF SilentTypes
<1>3. Holds(RowWords)'
  BY HoldsNext
<1>4. frameBuffer'[NewHead] = {}
  <2>1. NewHead \in Slots /\ OnSlots(frameBuffer)
    BY SlotsOfInv
  <2> QED
    BY <2>1 DEF Emptied, Keep, OnSlots
<1>5. FrameSoFar' = {}
  BY <1>2 DEF FrameSoFar
<1> QED
  BY <1>1, <1>2, <1>3, <1>4, <1>5 DEF HeadKnown, InSync

-----------------------------------------------------------------------------
(* The words that come when something has been lost of the frame. *)

(* What of the state their lemmas use. *)
LEMMA LateTypes ==
    ASSUME RingInv, Late
    PROVE  /\ rowPixels \in Int /\ rowCnt \in Int /\ pixelsLostFrame[head] \in Int
           /\ F \in Nat /\ F > 0 /\ RowWords = F + 1 /\ RowWords' = RowWords
           /\ MPX_PIXEL_ROWS \in Nat /\ MPX_PIXEL_ROWS > 1 /\ PixPerWord \in Int /\ EndPixels \in Int
           /\ Place \in 0 .. FrameWords - 1 /\ FrameWords \in Nat
           /\ Row \in Int /\ Pos \in 0 .. F /\ (Place > 0 => Row \in 0 .. MPX_PIXEL_ROWS - 1)
           /\ {Short(rowPixels), Short(rowPixels + EndPixels), Short(rowPixels + PixPerWord)} \subseteq Nat
<1>1. rowPixels \in Int /\ rowCnt \in Int /\ pixelsLostFrame[head] \in Int
  BY DEF Late, Pixelwise, RingInv
<1>2. /\ F \in Nat /\ F > 0 /\ RowWords = F + 1 /\ RowWords' = RowWords
      /\ PixPerWord \in Int /\ EndPixels \in Int /\ MPX_PIXEL_COLUMNS \in Nat
  BY RowIs, WordPixels DEF RowWords
<1>3. \A pixels \in Int : Short(pixels) \in Nat
  BY <1>2 DEF Short
<1>4. rowPixels + EndPixels \in Int /\ rowPixels + PixPerWord \in Int
  BY <1>1, <1>2
<1> QED
  BY <1>1, <1>2, <1>3, <1>4, PlaceIs DEF Late, SilentTypes

LEMMA LateStartOfRow ==
    ASSUME RingInv, Late, Noticed \/ \E k \in 1 .. RowWords : Unnoticed(k), StartOfRow
    PROVE  Outcome
<1> DEFINE missing == Short(rowPixels)
<1>1. /\ sent' = sent + 1 /\ losses' = losses /\ Kind = "SOR" /\ rowPixels' = PixPerWord
      /\ IF rowCnt + 1 > MPX_PIXEL_ROWS
         THEN nextFrame(rowCnt + 1, missing) ELSE CountLost(missing) /\ SameBuffer(rowCnt + 1)
  BY DEF StartOfRow, NextWord
<1>2. Place > 1 /\ Place < FrameWords - 1 /\ Pos = 0 /\ Row > 0
  BY <1>1, KindIs DEF Late, SilentTypes
<1>3. /\ rowPixels \in Int /\ rowCnt \in Int
      /\ F \in Nat /\ F > 0 /\ RowWords = F + 1 /\ RowWords' = RowWords
      /\ MPX_PIXEL_ROWS \in Nat /\ Place \in 0 .. FrameWords - 1 /\ FrameWords \in Nat
      /\ Row \in 0 .. MPX_PIXEL_ROWS - 1 /\ missing \in Nat
  BY <1>2, LateTypes
<1>4. Place' = Place + 1 /\ Row' = Row /\ Pos' = 1
  BY <1>1, <1>2, <1>3, NextPlace DEF Late, SilentTypes
<1> HIDE DEF missing
<1>5. CASE Noticed \/ missing > 0
  <2>1. CASE rowCnt + 1 > MPX_PIXEL_ROWS
    BY <1>1, <1>3, <1>5, <2>1, NoticedEnds, Restarts DEF Outcome
  <2>2. CASE ~ (rowCnt + 1 > MPX_PIXEL_ROWS)
    BY <1>1, <1>3, <1>5, <2>2, NoticedGrows
  <2> QED
    BY <2>1, <2>2
<1>6. CASE ~ Noticed /\ missing = 0
  <2>1. PICK k \in 1 .. RowWords : Unnoticed(k)
    BY <1>6
  <2>2. k = RowWords /\ Behind(k)
    <3>1. k = RowWords
      BY <1>3, <1>6, <2>1, HoldsIs DEF Unnoticed, missing
    <3> QED
      BY <1>2, <1>3, <2>1, <3>1 DEF Unnoticed, Mixed
  <2>3. Row + 1 - rowCnt > 1
    BY <1>2, <1>3, <2>2 DEF Behind
  <2>4. Behind(1)'
    <3>1. rowCnt' = rowCnt + 1
      BY <1>1, <1>3, <2>3 DEF SameBuffer
    <3>2. 1 # RowWords' /\ (Row' + 1 - rowCnt' > 1 \/ (Row' + 1 - rowCnt' = 1 /\ Pos' > 0))
      BY <1>3, <1>4, <2>3, <3>1
    <3> QED
      BY <3>2 DEF Behind
  <2>5. Unnoticed(1)' /\ 1 \in 1 .. RowWords
    <3>1. Holds(1)' /\ ~ (Place' < 2)
      BY <1>1, <1>2, <1>3, <1>4, HoldsNext
    <3> QED
      BY <1>3, <2>4, <3>1 DEF Unnoticed
  <2>6. CountLost(0) /\ SameBuffer(rowCnt + 1)
    BY <1>1, <1>3, <1>6, <2>3
  <2> QED
    BY <1>1, <2>5, <2>6, UnnoticedGrows
<1> QED
  BY <1>3, <1>5, <1>6

LEMMA LateMiddle ==
    ASSUME RingInv, Late, Noticed \/ \E k \in 1 .. RowWords : Unnoticed(k), Middle
    PROVE  Outcome
<1>1. /\ sent' = sent + 1 /\ losses' = losses /\ Kind = "MID"
      /\ \/ /\ rowPixels + PixPerWord < MPX_PIXEL_COLUMNS
            /\ rowPixels' = rowPixels + PixPerWord /\ SameBuffer(rowCnt)
            /\ UNCHANGED <<pixelsLost, pixelsLostFrame>>
         \/ /\ rowPixels + PixPerWord >= MPX_PIXEL_COLUMNS /\ rowPixels' = PixPerWord
            /\ IF rowCnt + 1 > MPX_PIXEL_ROWS THEN nextFrame(rowCnt + 1, 0)
               ELSE SameBuffer(rowCnt + 1) /\ UNCHANGED <<pixelsLost, pixelsLostFrame>>
  BY DEF Middle, NextWord
<1>2. Place > 1 /\ Place < FrameWords - 1 /\ Pos > 0 /\ Pos < F
  BY <1>1, KindIs DEF Late, SilentTypes
<1>3. /\ rowPixels \in Int /\ rowCnt \in Int
      /\ F \in Nat /\ F > 0 /\ RowWords = F + 1 /\ RowWords' = RowWords
      /\ MPX_PIXEL_ROWS \in Nat /\ Place \in 0 .. FrameWords - 1 /\ FrameWords \in Nat
      /\ Row \in 0 .. MPX_PIXEL_ROWS - 1 /\ Pos \in 0 .. F
      /\ PixPerWord \in Int /\ MPX_PIXEL_COLUMNS \in Int
  BY <1>2, LateTypes, RowIs
<1>4. Place' = Place + 1 /\ Row' = Row /\ Pos' = Pos + 1
  BY <1>1, <1>2, <1>3, NextPlace DEF Late, SilentTypes
<1>5. CASE Noticed
  BY <1>1, <1>3, <1>5, NoticedEnds, Restarts, NoticedGrows DEF Outcome
<1>6. CASE ~ Noticed
  <2>1. PICK k \in 1 .. RowWords : Unnoticed(k)
    BY <1>6
  <2>2. Holds(k) /\ (Behind(k) \/ Mixed(k))
    BY <1>2, <1>3, <2>1 DEF Unnoticed
  <2>3. /\ rowPixels + PixPerWord < MPX_PIXEL_COLUMNS <=> k < F
        /\ k < F => rowPixels + PixPerWord = (k + 1) * PixPerWord
    BY <1>3, <2>2, HoldsIs
  <2>4. ~ (Place' < 2)
    BY <1>2, <1>3, <1>4
  <2>5. CASE k < F
    <3>1. rowPixels' = (k + 1) * PixPerWord /\ SameBuffer(rowCnt) /\ UNCHANGED <<pixelsLost, pixelsLostFrame>>
      BY <1>1, <1>3, <2>3, <2>5
    <3>2. Holds(k + 1)' /\ k + 1 \in 1 .. RowWords /\ k + 1 < RowWords' /\ rowCnt' = rowCnt
      BY <1>3, <2>5, <3>1, HoldsNext DEF SameBuffer
    <3>3. ASSUME Behind(k) PROVE Behind(k + 1)'
      BY <1>3, <1>4, <2>5, <3>2, <3>3 DEF Behind
    <3>4. ASSUME Mixed(k) PROVE Mixed(k + 1)'
      BY <1>1, <1>3, <1>4, <2>5, <3>2, <3>4 DEF Mixed
    <3>5. Unnoticed(k + 1)'
      BY <2>2, <2>4, <3>2, <3>3, <3>4 DEF Unnoticed
    <3> QED
      BY <1>1, <3>1, <3>2, <3>5, UnnoticedGrows
  <2>6. CASE ~ (k < F)
    <3>1. rowCnt + 1 <= MPX_PIXEL_ROWS
      <4>1. CASE Behind(k)
        BY <1>2, <1>3, <2>6, <4>1 DEF Behind
      <4>2. CASE Mixed(k)
        BY <1>2, <1>3, <2>6, <4>2 DEF Mixed
      <4> QED
        BY <2>2, <4>1, <4>2
    <3>2. /\ rowPixels' = PixPerWord /\ SameBuffer(rowCnt + 1)
          /\ UNCHANGED <<pixelsLost, pixelsLostFrame>> /\ rowCnt' = rowCnt + 1
      BY <1>1, <1>3, <2>3, <2>6, <3>1 DEF SameBuffer
    <3>3. Holds(1)' /\ 1 \in 1 .. RowWords /\ 1 < RowWords'
      BY <1>3, <3>2, HoldsNext
    <3>4. ASSUME Behind(k) PROVE Behind(1)'
      BY <1>2, <1>3, <1>4, <2>6, <3>2, <3>3, <3>4 DEF Behind
    <3>5. ASSUME Mixed(k) PROVE Mixed(1)'
      BY <1>1, <1>2, <1>3, <1>4, <2>6, <3>2, <3>3, <3>5 DEF Mixed
    <3>6. Unnoticed(1)'
      BY <2>2, <2>4, <3>3, <3>4, <3>5 DEF Unnoticed
    <3> QED
      BY <1>1, <3>2, <3>3, <3>6, UnnoticedGrows
  <2> QED
    BY <2>5, <2>6
<1> QED
  BY <1>5, <1>6

LEMMA LateEndOfRow ==
    ASSUME RingInv, Late, Noticed \/ \E k \in 1 .. RowWords : Unnoticed(k), EndOfRow
    PROVE  Outcome
<1> DEFINE missing == Short(rowPixels + EndPixels)
<1>1. /\ sent' = sent + 1 /\ losses' = losses /\ Kind = "EOR"
      /\ IF rowCnt >= MPX_PIXEL_ROWS
         THEN nextFrame(rowCnt, missing) /\ rowPixels' = PixPerWord
         ELSE /\ CountLost(missing) /\ SameBuffer(rowCnt)
              /\ rowPixels' = rowPixels + EndPixels + missing
  BY DEF EndOfRow, NextWord
<1>2. Place > 1 /\ Place < FrameWords - 1 /\ Pos = F /\ Row < MPX_PIXEL_ROWS - 1
  BY <1>1, KindIs DEF Late, SilentTypes
<1>3. /\ rowPixels \in Int /\ rowCnt \in Int
      /\ F \in Nat /\ F > 0 /\ RowWords = F + 1 /\ RowWords' = RowWords
      /\ MPX_PIXEL_ROWS \in Nat /\ Place \in 0 .. FrameWords - 1 /\ FrameWords \in Nat
      /\ Row \in 0 .. MPX_PIXEL_ROWS - 1 /\ missing \in Nat /\ EndPixels \in Int
  BY <1>2, LateTypes
<1>4. Place' = Place + 1 /\ Row' = Row + 1 /\ Pos' = 0
  BY <1>1, <1>2, <1>3, NextPlace DEF Late, SilentTypes
<1>5. CASE Noticed \/ missing > 0
  <2> HIDE DEF missing
  <2>1. CASE rowCnt >= MPX_PIXEL_ROWS
    BY <1>1, <1>3, <1>5, <2>1, NoticedEnds, Restarts DEF Outcome
  <2>2. CASE ~ (rowCnt >= MPX_PIXEL_ROWS)
    BY <1>1, <1>3, <1>5, <2>2, NoticedGrows
  <2> QED
    BY <2>1, <2>2
<1>6. CASE ~ Noticed /\ missing = 0
  <2>1. PICK k \in 1 .. RowWords : Unnoticed(k)
    BY <1>6
  <2>2. k >= F /\ rowPixels + EndPixels + missing >= MPX_PIXEL_COLUMNS
    BY <1>3, <1>6, <2>1, HoldsIs DEF Unnoticed
  <2> HIDE DEF missing
  <2>3. Behind(k) /\ Row + 1 - rowCnt > 0
    <3>1. Behind(k) \/ Mixed(k)
      BY <1>2, <1>3, <2>1 DEF Unnoticed
    <3>2. ~ Mixed(k)
      BY <1>2, <1>3, <2>2 DEF Mixed
    <3> QED
      BY <1>2, <1>3, <2>2, <3>1, <3>2 DEF Behind
  <2>4. /\ CountLost(0) /\ SameBuffer(rowCnt) /\ rowCnt' = rowCnt
        /\ rowPixels' \in Int /\ rowPixels' >= MPX_PIXEL_COLUMNS
    BY <1>1, <1>2, <1>3, <1>6, <2>2, <2>3 DEF SameBuffer
  <2>5. Holds(RowWords)'
    BY <2>4, HoldsNext
  <2>6. Behind(RowWords)'
    BY <1>3, <1>4, <2>3, <2>4 DEF Behind
  <2>7. Unnoticed(RowWords)' /\ RowWords \in 1 .. RowWords
    <3>1. ~ (Place' < 2)
      BY <1>2, <1>3, <1>4
    <3> QED
      BY <1>3, <2>5, <2>6, <3>1 DEF Unnoticed
  <2> QED
    BY <1>1, <1>3, <2>4, <2>7, UnnoticedGrows
<1> QED
  BY <1>3, <1>5, <1>6

LEMMA LateEndOfFrame ==
    ASSUME RingInv, Late, Noticed \/ \E k \in 1 .. RowWords : Unnoticed(k), EndOfFrame
    PROVE  Outcome
<1> DEFINE missing == Short(rowPixels + PixPerWord)
<1>1. /\ sent' = sent + 1 /\ losses' = losses /\ Kind = "EOF"
      /\ nextFrame(rowCnt, missing) /\ frameBuffer' = Emptied(Keep)
      /\ rowPixels' = rowPixels + PixPerWord + missing
  BY DEF EndOfFrame, NextWord
<1>2. Place > 1 /\ Place = FrameWords - 1 /\ Pos = F /\ Row = MPX_PIXEL_ROWS - 1
  BY <1>1, KindIs DEF Late, SilentTypes
<1>3. /\ rowPixels \in Int /\ rowCnt \in Int
      /\ F \in Nat /\ F > 0 /\ RowWords = F + 1
      /\ MPX_PIXEL_ROWS \in Nat /\ FrameWords \in Nat
      /\ missing \in Nat /\ PixPerWord \in Int /\ MPX_PIXEL_COLUMNS \in Nat
  BY LateTypes, RowIs
<1>4. rowPixels' \in Int /\ rowPixels' >= MPX_PIXEL_COLUMNS
  BY <1>1, <1>3 DEF Short
<1>5. HeadKnown'
  BY <1>1, <1>3, <1>4, EndsInSync DEF Late
<1>6. Noticed \/ missing > 0 \/ rowCnt < MPX_PIXEL_ROWS
  <2>1. SUFFICES ASSUME ~ Noticed, missing = 0 PROVE rowCnt < MPX_PIXEL_ROWS
    BY <1>3
  <2>2. PICK k \in 1 .. RowWords : Unnoticed(k)
    BY <2>1
  <2>3. k >= F
    BY <1>3, <2>1, <2>2, HoldsIs DEF Unnoticed
  <2>4. Behind(k) \/ Mixed(k)
    BY <1>2, <1>3, <2>2 DEF Unnoticed
  <2>5. ~ Mixed(k)
    BY <1>2, <1>3, <2>3 DEF Mixed
  <2> QED
    BY <1>2, <1>3, <2>3, <2>4, <2>5 DEF Behind
<1> HIDE DEF missing
<1> QED
  BY <1>1, <1>3, <1>5, <1>6, NoticedEnds DEF Outcome

LEMMA LateStartOfFrame ==
    ASSUME RingInv, Late, Noticed \/ \E k \in 1 .. RowWords : Unnoticed(k), StartOfFrame
    PROVE  Outcome
<1> DEFINE missing == Short(rowPixels)
<1>1. losses' = losses /\ Kind = "SOF" /\ CountLost(missing) /\ SameBuffer(rowCnt + 1)
  BY DEF StartOfFrame, NextWord
<1>2. Place = 1 /\ rowPixels \in Int /\ missing \in Nat
  BY <1>1, KindIs, LateTypes DEF Late, SilentTypes
<1>3. Noticed \/ missing > 0
  BY <1>2, HoldsIs DEF Unnoticed, TailLost
<1> HIDE DEF missing
<1> QED
  BY <1>1, <1>2, <1>3, NoticedGrows

LEMMA LateInfoHeader ==
    ASSUME RingInv, Late, Noticed \/ \E k \in 1 .. RowWords : Unnoticed(k), InfoHeader
    PROVE  Outcome
<1>1. /\ losses' = losses /\ sent' = sent + 1 /\ Kind = "INFO" /\ head' = head
      /\ UNCHANGED <<rowCnt, rowPixels, pixelsLostFrame>>
  BY DEF InfoHeader, NextWord
<1>2. Place = 0 /\ FrameWords > 1 /\ FrameWords \in Nat /\ Place' < 2 /\ Place < 2
  BY <1>1, KindIs, NextPlace, PlaceIs DEF Late, SilentTypes
<1>3. ASSUME NEW k \in 1 .. RowWords, Unnoticed(k) PROVE Unnoticed(k)' /\ k \in 1 .. RowWords'
  BY <1>1, <1>2, <1>3 DEF Unnoticed, TailLost, Holds, RowWords, LastStart, FrameWords
<1> QED
  BY <1>1, <1>3 DEF Outcome, HeadKnown, Noticed, Late

-----------------------------------------------------------------------------
(* The words that come when nothing has been lost of the frame. *)

SyncOutcome == InSync' /\ (head' # head => Whole(frameBuffer'[head]) /\ pixelsLostFrame'[head] = 0)

(* The frame so far and the word in hand are the frame so far behind it, *)
LEMMA FrameGrows ==
    ASSUME SilentTypes, sent' = sent + 1, Place < FrameWords - 1
    PROVE  FrameSoFar' = FrameSoFar \cup {Word}
<1> DEFINE f == sent \div FrameWords
           At(q) == [frame |-> f, place |-> q]
<1>1. Place \in Nat /\ Place' = Place + 1 /\ f' = f
  BY NextPlace, PlaceIs DEF SilentTypes
<1>2. 0 .. Place' - 1 = (0 .. Place - 1) \cup {Place}
  BY <1>1
<1>3. FrameSoFar = {At(q) : q \in 0 .. Place - 1} /\ Word = At(Place)
  BY DEF FrameSoFar, Word
<1>4. FrameSoFar' = {At(q) : q \in 0 .. Place' - 1}
  BY <1>1 DEF FrameSoFar
<1> HIDE DEF At, f
<1> QED
  BY <1>2, <1>3, <1>4
(* or the whole frame. *)
LEMMA FrameEnds ==
    ASSUME SilentTypes, Place = FrameWords - 1
    PROVE  Whole(FrameSoFar \cup {Word})
<1> DEFINE f == sent \div FrameWords
           At(q) == [frame |-> f, place |-> q]
           words == FrameSoFar \cup {Word}
           index == [q \in 1 .. Place |-> At(q)]
<1>1. Place \in Nat
  BY PlaceIs DEF SilentTypes
<1>2. words = {At(q) : q \in 0 .. Place}
  <2>1. 0 .. Place = (0 .. Place - 1) \cup {Place}
    BY <1>1
  <2>2. FrameSoFar = {At(q) : q \in 0 .. Place - 1} /\ Word = At(Place)
    BY DEF FrameSoFar, Word
  <2> HIDE DEF At, f
  <2> QED
    BY <2>1, <2>2
<1>3. \A v, w \in words : v.frame = w.frame
  BY <1>2
<1>4. Pixels(words) = {At(q) : q \in 1 .. Place}
  <2>1. \A q \in 0 .. Place : At(q).place = q
    OBVIOUS
  <2>2. \A q \in 0 .. Place : q # 0 <=> q \in 1 .. Place
    BY <1>1
  <2>3. 1 .. Place \subseteq 0 .. Place
    BY <1>1
  <2> HIDE DEF At, words
  <2>4. \A w : w \in Pixels(words) <=> \E q \in 0 .. Place : q # 0 /\ w = At(q)
    BY <1>2, <2>1 DEF Pixels
  <2>5. \A w : w \in Pixels(words) <=> w \in {At(q) : q \in 1 .. Place}
    BY <2>2, <2>3, <2>4
  <2> QED
    BY <2>5
<1>5. index \in Bijection(1 .. Place, Pixels(words))
  <2>1. \A p, q \in 1 .. Place : At(p) = At(q) => p = q
    <3>1. \A q \in 1 .. Place : At(q).place = q
      OBVIOUS
    <3> QED
      BY <3>1
  <2> HIDE DEF At
  <2> QED
    BY <1>4, <2>1 DEF Bijection, Injection, Surjection, IsInjective
<1>6. Cardinality(Pixels(words)) = Place
  <2>1. IsFiniteSet(1 .. Place) /\ Cardinality(1 .. Place) = Place
    BY <1>1, FS_Interval
  <2> HIDE DEF index, words
  <2> QED
    BY <1>5, <2>1, FS_Bijection DEF ExistsBijection
<1> HIDE DEF words
<1> QED
  BY <1>3, <1>6 DEF Whole, words

(* What of the state the lemmas use. *)
LEMMA SyncTypes ==
    ASSUME RingInv, SilentTypes, Pixelwise
    PROVE  /\ rowPixels \in Int /\ rowCnt \in Int
           /\ F \in Nat /\ F > 0 /\ RowWords = F + 1 /\ RowWords' = RowWords /\ RowWords \in 1 .. RowWords
           /\ MPX_PIXEL_ROWS \in Nat /\ MPX_PIXEL_ROWS > 1 /\ PixPerWord \in Int /\ EndPixels \in Int
           /\ Place \in 0 .. FrameWords - 1 /\ FrameWords \in Nat /\ FrameWords > 1
           /\ Row \in Int /\ Pos \in 0 .. F /\ (Place > 0 => Row \in 0 .. MPX_PIXEL_ROWS - 1)
           /\ MPX_PIXEL_COLUMNS \in Nat /\ head \in Slots
<1>1. rowPixels \in Int /\ rowCnt \in Int /\ head \in Slots
  BY DEF Pixelwise, RingInv
<1>2. /\ F \in Nat /\ F > 0 /\ RowWords = F + 1 /\ RowWords' = RowWords
      /\ PixPerWord \in Int /\ EndPixels \in Int /\ MPX_PIXEL_COLUMNS \in Nat
  BY RowIs, WordPixels DEF RowWords
<1> QED
  BY <1>1, <1>2, PlaceIs DEF SilentTypes

(* A word within the frame leaves it in step. *)
LEMMA SyncGrows ==
    ASSUME RingInv, SilentTypes, Pixelwise, InSync, sent' = sent + 1, Place < FrameWords - 1,
           NEW counted, SameBuffer(counted), CountLost(0) \/ UNCHANGED <<pixelsLost, pixelsLostFrame>>,
           NEW k \in 1 .. RowWords, Holds(k)',
           IF Pos' = 0 THEN k = RowWords /\ counted = Row' ELSE k = Pos' /\ counted = Row' + 1
    PROVE  SyncOutcome
<1>1. /\ head' = head /\ rowCnt' = counted /\ pixelsLostFrame'[head] = pixelsLostFrame[head] + 0
      /\ frameBuffer'[head] = frameBuffer[head] \cup {Word}
  <2>1. 0 \in Int /\ (CountLost(0) \/ (0 = 0 /\ UNCHANGED <<pixelsLost, pixelsLostFrame>>))
    OBVIOUS
  <2> QED
    BY <2>1, GrowsIf
<1>2. Place' # 0 /\ RowWords' = RowWords
  BY SyncTypes, NextPlace DEF SilentTypes
<1>3. frameBuffer'[head] = FrameSoFar'
  BY <1>1, FrameGrows DEF InSync
<1> HIDE DEF Holds, FrameSoFar, SameBuffer
<1> QED
  BY <1>1, <1>2, <1>3 DEF SyncOutcome, InSync

LEMMA SyncInfoHeader == ASSUME RingInv, SilentTypes, Pixelwise, InSync, InfoHeader PROVE SyncOutcome
<1>1. /\ sent' = sent + 1 /\ Kind = "INFO" /\ head' = head /\ frameBuffer' = Keep
      /\ UNCHANGED <<rowCnt, rowPixels, pixelsLostFrame>>
  BY DEF InfoHeader, NextWord
<1>2. Place = 0 /\ Place < FrameWords - 1 /\ Place' = 1 /\ Row' = 0 /\ Pos' = 0
  BY <1>1, KindIs, NextPlace, SyncTypes DEF SilentTypes
<1>3. frameBuffer'[head] = FrameSoFar'
  <2>1. frameBuffer'[head] = frameBuffer[head] \cup {Word}
    BY <1>1, SlotsOfInv DEF Keep, OnSlots
  <2> QED
    BY <1>1, <1>2, <2>1, FrameGrows DEF InSync
<1>4. Holds(RowWords)' /\ rowCnt = 0
  BY <1>1, <1>2 DEF InSync, Holds, RowWords
<1> HIDE DEF Holds, FrameSoFar
<1> QED
  BY <1>1, <1>2, <1>3, <1>4 DEF SyncOutcome, InSync

LEMMA SyncStartOfFrame == ASSUME RingInv, SilentTypes, Pixelwise, InSync, StartOfFrame PROVE SyncOutcome
<1>1. /\ sent' = sent + 1 /\ Kind = "SOF" /\ CountLost(Short(rowPixels)) /\ SameBuffer(rowCnt + 1)
      /\ rowPixels' = PixPerWord
  BY DEF StartOfFrame, NextWord
<1>2. Place = 1 /\ Place < FrameWords - 1 /\ Row = 0 /\ Pos = 0 /\ Row' = 0 /\ Pos' = 1
  BY <1>1, KindIs, NextPlace, SyncTypes, CompactAssumption DEF SilentTypes, FrameWords
<1>3. Short(rowPixels) = 0 /\ rowCnt = 0
  BY <1>2, SyncTypes, HoldsIs DEF InSync
<1>4. Holds(1)' /\ 1 \in 1 .. RowWords
  BY <1>1, HoldsNext, SyncTypes
<1> QED
  BY <1>1, <1>2, <1>3, <1>4, SyncGrows

LEMMA SyncStartOfRow == ASSUME RingInv, SilentTypes, Pixelwise, InSync, StartOfRow PROVE SyncOutcome
<1>1. /\ sent' = sent + 1 /\ Kind = "SOR" /\ rowPixels' = PixPerWord
      /\ rowCnt + 1 <= MPX_PIXEL_ROWS => CountLost(Short(rowPixels)) /\ SameBuffer(rowCnt + 1)
  BY SyncTypes DEF StartOfRow, NextWord
<1>2. Place > 1 /\ Place < FrameWords - 1 /\ Pos = 0 /\ Row' = Row /\ Pos' = 1
  BY <1>1, KindIs, NextPlace, SyncTypes DEF SilentTypes
<1>3. Short(rowPixels) = 0 /\ rowCnt = Row /\ Row + 1 <= MPX_PIXEL_ROWS
  BY <1>2, SyncTypes, HoldsIs DEF InSync
<1>4. Holds(1)' /\ 1 \in 1 .. RowWords
  BY <1>1, HoldsNext, SyncTypes
<1> QED
  BY <1>1, <1>2, <1>3, <1>4, SyncGrows

LEMMA SyncMiddle == ASSUME RingInv, SilentTypes, Pixelwise, InSync, Middle PROVE SyncOutcome
<1>1. /\ sent' = sent + 1 /\ Kind = "MID"
      /\ rowPixels + PixPerWord < MPX_PIXEL_COLUMNS =>
             /\ rowPixels' = rowPixels + PixPerWord /\ SameBuffer(rowCnt)
             /\ UNCHANGED <<pixelsLost, pixelsLostFrame>>
  BY SyncTypes DEF Middle, NextWord
<1>2. Place > 1 /\ Place < FrameWords - 1 /\ Pos > 0 /\ Pos < F /\ Row' = Row /\ Pos' = Pos + 1
  BY <1>1, KindIs, NextPlace, SyncTypes DEF SilentTypes
<1>3. Holds(Pos) /\ rowCnt = Row + 1 /\ Pos \in 1 .. F - 1 /\ Pos \in 1 .. RowWords /\ Pos + 1 \in 1 .. RowWords
  BY <1>2, SyncTypes DEF InSync
<1>4. rowPixels + PixPerWord < MPX_PIXEL_COLUMNS /\ rowPixels + PixPerWord = (Pos + 1) * PixPerWord
  BY <1>2, <1>3, SyncTypes, HoldsIs
<1>5. rowPixels' = (Pos + 1) * PixPerWord /\ SameBuffer(rowCnt) /\ UNCHANGED <<pixelsLost, pixelsLostFrame>>
  BY <1>1, <1>4
<1>6. PICK k \in 1 .. F - 1 : k = Pos
  BY <1>3
<1>7. Holds(k + 1)' /\ k + 1 \in 1 .. RowWords
  BY <1>3, <1>5, <1>6, HoldsNext
<1>8. Pos' # 0 /\ k + 1 = Pos' /\ rowCnt = Row' + 1
  BY <1>2, <1>3, <1>6, SyncTypes
<1> QED
  BY <1>1, <1>2, <1>5, <1>7, <1>8, SyncGrows

LEMMA SyncEndOfRow == ASSUME RingInv, SilentTypes, Pixelwise, InSync, EndOfRow PROVE SyncOutcome
<1> DEFINE missing == Short(rowPixels + EndPixels)
<1>1. /\ sent' = sent + 1 /\ Kind = "EOR"
      /\ rowCnt < MPX_PIXEL_ROWS =>
             /\ CountLost(missing) /\ SameBuffer(rowCnt)
             /\ rowPixels' = rowPixels + EndPixels + missing
  BY SyncTypes DEF EndOfRow, NextWord
<1>2. /\ Place > 1 /\ Place < FrameWords - 1 /\ Pos = F /\ Row < MPX_PIXEL_ROWS - 1
      /\ Row' = Row + 1 /\ Pos' = 0
  BY <1>1, KindIs, NextPlace, SyncTypes DEF SilentTypes
<1>3. Holds(F) /\ rowCnt = Row + 1 /\ F \in 1 .. RowWords /\ rowCnt < MPX_PIXEL_ROWS
  BY <1>2, SyncTypes DEF InSync
<1>4. missing = 0 /\ rowPixels + EndPixels + missing >= MPX_PIXEL_COLUMNS
  BY <1>3, SyncTypes, HoldsIs
<1>5. rowPixels' \in Int /\ rowPixels' >= MPX_PIXEL_COLUMNS
  BY <1>1, <1>3, <1>4, SyncTypes
<1>6. Holds(RowWords)'
  BY <1>5, HoldsNext
<1> HIDE DEF missing
<1> QED
  BY <1>1, <1>2, <1>3, <1>4, <1>6, SyncTypes, SyncGrows

LEMMA SyncEndOfFrame == ASSUME RingInv, SilentTypes, Pixelwise, InSync, EndOfFrame PROVE SyncOutcome
<1> DEFINE missing == Short(rowPixels + PixPerWord)
<1>1. /\ sent' = sent + 1 /\ Kind = "EOF"
      /\ nextFrame(rowCnt, missing) /\ frameBuffer' = Emptied(Keep)
      /\ rowPixels' = rowPixels + PixPerWord + missing
  BY DEF EndOfFrame, NextWord
<1>2. Place > 1 /\ Place = FrameWords - 1 /\ Pos = F /\ Row = MPX_PIXEL_ROWS - 1
  BY <1>1, KindIs DEF SilentTypes
<1>3. Holds(F) /\ rowCnt = MPX_PIXEL_ROWS /\ F \in 1 .. RowWords
  BY <1>2, SyncTypes DEF InSync
<1>4. missing = 0 /\ rowPixels + PixPerWord >= MPX_PIXEL_COLUMNS
  BY <1>3, SyncTypes, HoldsIs
<1>5. rowPixels' \in Int /\ rowPixels' >= MPX_PIXEL_COLUMNS
  BY <1>1, <1>4, SyncTypes
<1>6. /\ head' = NewHead /\ pixelsLostFrame'[NewHead] = 0 /\ rowCnt' = 0
      /\ ~ Full => NewHead # head /\ pixelsLostFrame'[head] = pixelsLostFrame[head] + missing + LostRows(rowCnt)
      /\ LostRows(rowCnt) = 0
  <2>1. missing \in Int /\ rowCnt \in Int /\ LostRows(rowCnt) = 0
    BY <1>3, <1>4, SyncTypes DEF LostRows
  <2> HIDE DEF missing
  <2> QED
    BY <1>1, <2>1, EndsIf
<1>7. ~ Full => frameBuffer'[head] = FrameSoFar \cup {Word} /\ pixelsLostFrame'[head] = 0
  <2>1. OnSlots(frameBuffer) /\ head \in Slots
    BY SlotsOfInv
  <2> QED
    BY <1>1, <1>4, <1>6, <2>1 DEF Emptied, Keep, OnSlots, InSync
<1>8. head' # head => ~ Full
  BY <1>6 DEF NewHead
<1>9. Place' = 0 /\ Holds(RowWords)'
  BY <1>1, <1>2, <1>5, NextPlace, HoldsNext DEF SilentTypes
<1>10. frameBuffer'[NewHead] = {} /\ FrameSoFar' = {}
  <2>1. NewHead \in Slots /\ OnSlots(frameBuffer)
    BY SlotsOfInv
  <2>2. frameBuffer'[NewHead] = {}
    BY <1>1, <2>1 DEF Emptied, Keep, OnSlots
  <2> QED
    BY <1>9, <2>2 DEF FrameSoFar
<1>11. InSync'
  BY <1>6, <1>9, <1>10 DEF InSync
<1> QED
  BY <1>2, <1>7, <1>8, <1>11, FrameEnds DEF SyncOutcome

-----------------------------------------------------------------------------
(* A lost packet. *)

(* Two places or more on, the row and the position in it. *)
LEMMA Leap ==
    ASSUME SilentTypes, NEW n \in Nat, n > 1, Place + n < FrameWords, sent' = sent + n
    PROVE  /\ Place' = Place + n /\ Row \in Int /\ Row' \in Nat /\ Pos' \in 0 .. F /\ Row' >= Row
           /\ Row' = Row => Pos' > Pos
           /\ Row' = Row + 1 => Pos' > 0 \/ Pos < F
           /\ Pos' = (Place' - 1) % RowWords
<1>1. /\ F \in Nat /\ F > 0 /\ RowWords = F + 1 /\ FrameWords \in Nat /\ Place \in 0 .. FrameWords - 1
      /\ Row \in Int /\ Pos \in 0 .. F /\ Place = RowWords * Row + Pos + 1
  BY RowIs, PlaceIs DEF SilentTypes
<1>2. Place' = Place + n /\ Place + n < FrameWords /\ sent' \in Nat
  BY <1>1, Further DEF SilentTypes
<1> DEFINE r == (Place' - 1) \div RowWords
           p == (Place' - 1) % RowWords
<1>3. Row' = r /\ Pos' = p /\ Pos' = (Place' - 1) % RowWords
  BY DEF Row, Pos, RowWords
<1>4. r \in Int /\ p \in 0 .. F /\ Place + n - 1 = RowWords * r + p
  <2>1. RowWords \in Nat \ {0} /\ Place' - 1 \in Int
    BY <1>1, <1>2
  <2>2. r \in Int /\ p \in 0 .. RowWords - 1 /\ Place' - 1 = RowWords * r + p
    BY <2>1, Divided
  <2> HIDE DEF r, p
  <2> QED
    BY <1>1, <1>2, <2>2
<1> HIDE DEF r, p
<1>5. RowWords * (r - Row) = n + Pos - p /\ r - Row \in Int
  BY <1>1, <1>4
<1>6. r >= Row
  <2>1. SUFFICES ASSUME r < Row PROVE FALSE
    BY <1>1, <1>4
  <2>2. Row - r - 1 \in Nat /\ RowWords * (Row - r - 1) \in Nat
    BY <1>1, <1>4, <2>1
  <2>3. RowWords * (Row - r - 1) = 0 - (n + Pos - p) - RowWords
    BY <1>1, <1>4, <1>5
  <2> QED
    BY <1>1, <1>4, <2>2, <2>3
<1>7. r = Row => p > Pos
  BY <1>1, <1>4, <1>5
<1>8. r = Row + 1 => p > 0 \/ Pos < F
  BY <1>1, <1>4, <1>5
<1>9. r >= 0
  <2>1. SUFFICES ASSUME r < 0 PROVE FALSE
    BY <1>4
  <2>2. -1 - r \in Nat /\ RowWords * (-1 - r) \in Nat
    BY <1>1, <1>4, <2>1
  <2>3. RowWords * (-1 - r) = 0 - RowWords - RowWords * r
    BY <1>1, <1>4
  <2> QED
    BY <1>1, <1>4, <2>2, <2>3
<1> QED
  BY <1>1, <1>2, <1>3, <1>4, <1>6, <1>7, <1>8, <1>9

(* How far packets reach. *)
LEMMA LostReach ==
    ASSUME NEW n \in Nat
    PROVE  /\ (n + 1) * PacketWords = n * PacketWords + PacketWords
           /\ n > 0 => n * PacketWords >= PacketWords
           /\ n = 1 => n * PacketWords = PacketWords
           /\ n * PacketWords \in Int
<1>1. PacketWords \in Nat
  BY CompactAssumption
<1>2. n > 0 => (n - 1) * PacketWords \in Nat /\ n * PacketWords = (n - 1) * PacketWords + PacketWords
  BY <1>1
<1> QED
  BY <1>1, <1>2

(* Where packets begin. *)
LEMMA Starts ==
    ASSUME SilentTypes, PacketsCutRows, Place % PacketWords = 0
    PROVE  /\ PacketWords \in Nat /\ PacketWords > 1
           /\ Place # 1
           /\ (Place + PacketWords) % PacketWords = 0 /\ PacketWords % PacketWords = 0
           /\ Place > 0 => Pos > 0
           /\ Place + PacketWords >= FrameWords => Place = LastStart
<1>1. PacketWords \in Nat \ {0} /\ PacketWords > 1
  BY CompactAssumption DEF PacketsCutRows
<1>2. FrameWords \in Nat /\ Place \in 0 .. FrameWords - 1 /\ Pos \in 0 .. F
  BY PlaceIs DEF SilentTypes
<1> DEFINE q == Place \div PacketWords
<1>3. q \in Int /\ Place = PacketWords * q
  <2>1. Place \in Int
    BY <1>2
  <2> HIDE DEF Place
  <2> QED
    BY <1>1, <2>1, Divided
<1> HIDE DEF q
<1>4. Place # 1
  <2>1. SUFFICES ASSUME Place = 1 PROVE FALSE
    OBVIOUS
  <2>2. 1 % PacketWords = 1
    BY <1>1, Remainders
  <2> QED
    BY <2>1, <2>2
<1>5. (Place + PacketWords) % PacketWords = 0 /\ PacketWords % PacketWords = 0
  <2>1. /\ 0 \in 0 .. PacketWords - 1 /\ q + 1 \in Int /\ 1 \in Int
        /\ Place + PacketWords = PacketWords * (q + 1) + 0 /\ PacketWords = PacketWords * 1 + 0
    BY <1>1, <1>3
  <2>2. /\ (PacketWords * (q + 1) + 0) % PacketWords = 0
        /\ (PacketWords * 1 + 0) % PacketWords = 0
    BY <1>1, <2>1, Division
  <2> QED
    BY <2>1, <2>2
<1>6. ASSUME Place > 0 PROVE Pos > 0
  <2>1. Place \in 1 .. FrameWords - 1
    BY <1>2, <1>6
  <2>2. Pos # 0
    BY <2>1 DEF PacketsCutRows, Pos
  <2> QED
    BY <1>2, <2>2, RowIs
<1>7. ASSUME Place + PacketWords >= FrameWords PROVE Place = LastStart
  <2> DEFINE r == FrameWords - 1 - Place
  <2>1. r \in 0 .. PacketWords - 1 /\ FrameWords - 1 = PacketWords * q + r
    BY <1>1, <1>2, <1>3, <1>7
  <2>2. (PacketWords * q + r) % PacketWords = r
    BY <1>1, <1>3, <2>1, Division
  <2> QED
    BY <1>2, <2>1, <2>2 DEF LastStart
<1> QED
  BY <1>1, <1>4, <1>5, <1>6, <1>7

(* Which row the last packet begins in. *)
LEMMA LastRow ==
    ASSUME PacketsCutRows, LastStart < FrameWords - RowWords
    PROVE  (LastStart - 1) \div RowWords + 1 < MPX_PIXEL_ROWS
<1> DEFINE r == (LastStart - 1) \div RowWords
           p == (LastStart - 1) % RowWords
<1>1. F \in Nat /\ F > 0 /\ RowWords = F + 1 /\ MPX_PIXEL_ROWS \in Nat
  BY RowIs, CompactAssumption
<1>2. FrameWords \in Nat /\ FrameWords = 1 + MPX_PIXEL_ROWS * RowWords
  BY <1>1 DEF FrameWords
<1>3. LastStart \in Int
  <2>1. PacketWords \in Nat \ {0} /\ FrameWords - 1 \in Int
    BY <1>2, CompactAssumption
  <2>2. (FrameWords - 1) % PacketWords \in Int
    BY <2>1, Divided
  <2> QED
    BY <1>2, <2>2 DEF LastStart
<1>4. r \in Int /\ p \in 0 .. F /\ LastStart - 1 = RowWords * r + p
  <2>1. RowWords \in Nat \ {0} /\ LastStart - 1 \in Int
    BY <1>1, <1>3
  <2>2. r \in Int /\ p \in 0 .. RowWords - 1 /\ LastStart - 1 = RowWords * r + p
    BY <2>1, Divided
  <2> HIDE DEF r, p
  <2> QED
    BY <1>1, <2>2
<1> HIDE DEF r, p
<1>5. RowWords * r < MPX_PIXEL_ROWS * RowWords - RowWords
  BY <1>1, <1>2, <1>3, <1>4
<1>6. r + 1 < MPX_PIXEL_ROWS
  <2>1. SUFFICES ASSUME r - (MPX_PIXEL_ROWS - 1) >= 0 PROVE FALSE
    BY <1>1, <1>4
  <2>2. RowWords * (r - (MPX_PIXEL_ROWS - 1)) \in Nat
    BY <1>1, <1>4, <2>1
  <2>3. RowWords * (r - (MPX_PIXEL_ROWS - 1)) = RowWords * r - (MPX_PIXEL_ROWS * RowWords - RowWords)
    BY <1>1, <1>4
  <2> QED
    BY <1>1, <1>4, <1>5, <2>2, <2>3
<1> QED
  BY <1>6 DEF r

(* How far behind the rows that were counted a packet lost leaves them: of *)
(* a frame that was in step, whose c-th row was at its k-th word, and of    *)
(* one that was behind already.                                            *)
LEMMA LeftBehind ==
    ASSUME NEW f, NEW r, NEW p, NEW r2, NEW p2, NEW c, NEW k,
           f \in Nat, r \in Int, p \in 0 .. f, r2 \in Nat, p2 \in 0 .. f, c \in Int, k \in Int,
           r2 >= r, r2 = r => p2 > p, r2 = r + 1 => p2 > 0 \/ p < f,
           \/ c = r + 1 /\ k = p
           \/ r + 1 - c > 1
           \/ r + 1 - c = 1 /\ (p > 0 \/ k < f)
           \/ r + 1 - c = 0 /\ k < p
    PROVE  \/ r2 + 1 - c > 1
           \/ r2 + 1 - c = 1 /\ (p2 > 0 \/ k < f)
           \/ r2 + 1 - c = 0 /\ k < p2
OBVIOUS

LEMMA LeftAtFirst ==
    ASSUME NEW f, NEW r, NEW p, NEW r2, NEW p2, NEW c,
           f \in Nat, f > 0, r2 \in Nat, p2 \in 0 .. f, r = -1, p = f, c = 0,
           r2 = r + 1 => p2 > 0 \/ p < f
    PROVE  r2 + 1 - c > 1 \/ (r2 + 1 - c = 1 /\ p2 > 0)
OBVIOUS

LEMMA LostPacket ==
    ASSUME RingInv, SilentTypes, Pixelwise, HeadKnown, LosePacket, PacketsCutRows, MaxLosses <= 2
    PROVE  HeadKnown'
<1> DEFINE n == IF Place + PacketWords > FrameWords THEN FrameWords - Place ELSE PacketWords
<1>1. /\ losses < MaxLosses /\ Place % PacketWords = 0
      /\ losses' = losses + 1 /\ sent' = sent + n
      /\ UNCHANGED <<head, frameBuffer, rowCnt, rowPixels, pixelsLostFrame>>
  BY DEF LosePacket, receiver, ring
<1>2. /\ F \in Nat /\ F > 0 /\ RowWords = F + 1 /\ RowWords' = RowWords
      /\ MPX_PIXEL_ROWS \in Nat /\ MPX_PIXEL_ROWS > 1
      /\ Place \in 0 .. FrameWords - 1 /\ FrameWords \in Nat
      /\ Row \in Int /\ Pos \in 0 .. F /\ (Place > 0 => Row \in 0 .. MPX_PIXEL_ROWS - 1)
      /\ rowCnt \in Int
  BY SyncTypes
<1>3. /\ PacketWords \in Nat /\ PacketWords > 1 /\ Place # 1
      /\ (Place + PacketWords) % PacketWords = 0 /\ PacketWords % PacketWords = 0
      /\ Place > 0 => Pos > 0
      /\ Place + PacketWords >= FrameWords => Place = LastStart
      /\ 2 * PacketWords < FrameWords
  BY <1>1, Starts DEF PacketsCutRows
<1>4. losses \in Nat /\ losses' \in Nat /\ losses' > 0 /\ losses < 2 /\ pixelsLostFrame'[head'] >= 0
  BY <1>1, CompactAssumption DEF SilentTypes, HeadKnown
<1>5. Holds(RowWords)' = Holds(RowWords) /\ \A k : Holds(k)' = Holds(k)
  BY <1>1 DEF Holds, RowWords
<1>6. SUFFICES ASSUME ~ Noticed PROVE \E k \in 1 .. RowWords : Unnoticed(k)'
  BY <1>1, <1>2, <1>4 DEF HeadKnown, Noticed
<1>7. CASE Place + PacketWords < FrameWords
  <2>1. n = PacketWords /\ sent' = sent + PacketWords
    BY <1>1, <1>2, <1>3, <1>7
  <2> HIDE DEF n
  <2>2. /\ Place' = Place + PacketWords /\ Row' \in Nat /\ Pos' \in 0 .. F /\ Row' >= Row
        /\ Row' = Row => Pos' > Pos
        /\ Row' = Row + 1 => Pos' > 0 \/ Pos < F
    BY <1>3, <1>7, <2>1, Leap
  <2>9. /\ F \in Nat /\ Row \in Int /\ Pos \in 0 .. F /\ Row' \in Nat /\ Pos' \in 0 .. F /\ Row' >= Row
        /\ Row' = Row => Pos' > Pos
        /\ Row' = Row + 1 => Pos' > 0 \/ Pos < F
    BY <1>2, <2>2
  <2>8. Pos' = (Place' - 1) % RowWords
    BY <1>3, <1>7, <2>1, Leap
  <2>3. Place' % PacketWords = 0 /\ ~ (Place' < 2)
    BY <1>2, <1>3, <2>2
  <2>4. SUFFICES \E k \in 1 .. RowWords : Holds(k) /\ (Behind(k)' \/ Mixed(k)')
    BY <1>5, <2>3 DEF Unnoticed
  <2>5. CASE InSync /\ Place = 0
    <3>1. Holds(RowWords) /\ rowCnt' = 0 /\ RowWords \in 1 .. RowWords
      BY <1>1, <1>2, <2>5 DEF InSync
    <3>2. Row' + 1 - rowCnt' > 1 \/ (Row' + 1 - rowCnt' = 1 /\ Pos' > 0)
      <4>1. Row = -1 /\ Pos = F
        <5>1. -1 \in Int /\ F \in 0 .. F /\ Place = RowWords * (-1) + F + 1
          BY <1>2, <2>5
        <5> QED
          BY <5>1, PlaceFrom DEF SilentTypes
      <4> QED
        <5>1. PICK r2 \in Nat : r2 = Row'
          BY <2>9
        <5>2. PICK p2 \in 0 .. F : p2 = Pos'
          BY <2>9
        <5>3. PICK c \in Int : c = rowCnt'
          BY <3>1
        <5>4. c = 0 /\ (r2 = 0 => p2 > 0)
          BY <2>9, <3>1, <4>1, <5>1, <5>2, <5>3
        <5>5. r2 + 1 - c > 1 \/ (r2 + 1 - c = 1 /\ p2 > 0)
          BY <5>4
        <5> QED
          BY <5>1, <5>2, <5>3, <5>5
    <3>3. Place' <= losses' * PacketWords
      <4>1. losses' * PacketWords >= PacketWords
        BY <1>4, LostReach
      <4> QED
        BY <1>3, <2>2, <2>5, <4>1
    <3> QED
      BY <2>3, <3>1, <3>2, <3>3 DEF Behind
  <2>6. CASE InSync /\ Place > 0
    <3>1. PICK k \in 1 .. F : k = Pos
      BY <1>2, <1>3, <2>6
    <3>2. Holds(k) /\ rowCnt' = Row + 1 /\ k \in 1 .. RowWords /\ k # RowWords'
      BY <1>1, <1>2, <2>6, <3>1 DEF InSync
    <3>3. \/ Row' + 1 - rowCnt' > 1
          \/ Row' + 1 - rowCnt' = 1 /\ (Pos' > 0 \/ k < F)
          \/ Row' + 1 - rowCnt' = 0 /\ k < Pos'
      <4>1. PICK r2 \in Nat : r2 = Row'
        BY <2>9
      <4>2. PICK p2 \in 0 .. F : p2 = Pos'
        BY <2>9
      <4>3. PICK c \in Int : c = rowCnt'
        BY <2>9, <3>2
      <4>4. PICK r \in Int : r = Row
        BY <2>9
      <4>5. c = r + 1 /\ r2 >= r /\ (r2 = r => p2 > k) /\ (r2 = r + 1 => p2 > 0 \/ k < F)
        BY <2>9, <3>1, <3>2, <4>1, <4>2, <4>3, <4>4
      <4>6. \/ r2 + 1 - c > 1
            \/ r2 + 1 - c = 1 /\ (p2 > 0 \/ k < F)
            \/ r2 + 1 - c = 0 /\ k < p2
        BY <1>2, <3>1, <4>5, LeftBehind
      <4> QED
        BY <4>1, <4>2, <4>3, <4>6
    <3> QED
      BY <3>2, <3>3 DEF Behind, F
  <2>7. CASE ~ InSync
    <3>1. PICK k \in 1 .. RowWords : losses > 0 /\ Unnoticed(k)
      BY <1>6, <2>7 DEF HeadKnown
    <3>2. losses = 1 /\ losses' = 2 /\ Holds(k)
      BY <1>1, <1>4, <3>1 DEF Unnoticed
    <3>3. CASE Place = 0
      <4>1. TailLost(k) /\ Place' = PacketWords
        BY <1>2, <1>3, <2>2, <3>1, <3>3 DEF Unnoticed
      <4>2. /\ k < RowWords /\ k = (LastStart - 1) % RowWords
            /\ rowCnt' = (LastStart - 1) \div RowWords + 1 /\ Pos' = (PacketWords - 1) % RowWords
        BY <1>1, <2>8, <3>2, <4>1 DEF TailLost
      <4>3. k < Pos' \/ (Pos' < k /\ LastStart < FrameWords - RowWords)
        BY <4>2 DEF PacketsCutRows
      <4>4. k < Pos' \/ (Pos' < k /\ rowCnt' < MPX_PIXEL_ROWS)
        BY <4>2, <4>3, LastRow
      <4>5. Mixed(k)'
        BY <1>2, <3>2, <4>2, <4>4 DEF Mixed
      <4> QED
        BY <3>2, <4>5
    <3>4. CASE Place > 0
      <4>1. Behind(k)
        BY <1>2, <1>3, <3>1, <3>2, <3>4 DEF Unnoticed, Mixed
      <4>2. \/ Row' + 1 - rowCnt' > 1
            \/ Row' + 1 - rowCnt' = 1 /\ (Pos' > 0 \/ k < F)
            \/ Row' + 1 - rowCnt' = 0 /\ k < Pos'
        <5>1. rowCnt' = rowCnt /\ rowCnt \in Int
          BY <1>1, <1>2
        <5> QED
          <6>1. PICK r2 \in Nat : r2 = Row'
            BY <2>9
          <6>2. PICK p2 \in 0 .. F : p2 = Pos'
            BY <2>9
          <6>3. PICK c \in Int : c = rowCnt
            BY <5>1
          <6>4. PICK r \in Int : r = Row
            BY <2>9
          <6>5. PICK p \in 0 .. F : p = Pos
            BY <2>9
          <6>6. /\ r2 >= r /\ (r2 = r => p2 > p) /\ (r2 = r + 1 => p2 > 0 \/ p < F)
                /\ \/ r + 1 - c > 1
                   \/ r + 1 - c = 1 /\ (p > 0 \/ k < F)
                   \/ r + 1 - c = 0 /\ k < p
            BY <2>9, <4>1, <6>1, <6>2, <6>3, <6>4, <6>5 DEF Behind
          <6>7. \/ r2 + 1 - c > 1
                \/ r2 + 1 - c = 1 /\ (p2 > 0 \/ k < F)
                \/ r2 + 1 - c = 0 /\ k < p2
            BY <1>2, <3>1, <6>6, LeftBehind
          <6> QED
            BY <5>1, <6>1, <6>2, <6>3, <6>7
      <4>3. k = RowWords => Place' <= losses' * PacketWords
        <5>1. k = RowWords => Place <= losses * PacketWords
          BY <1>3, <3>4, <4>1 DEF Behind
        <5> QED
          BY <1>2, <1>3, <2>2, <3>2, <5>1, LostReach
      <4>4. Behind(k)'
        BY <1>2, <2>3, <4>2, <4>3 DEF Behind, F
      <4> QED
        BY <3>2, <4>4
    <3> QED
      BY <1>2, <3>3, <3>4
  <2> QED
    BY <1>2, <2>5, <2>6, <2>7
<1>8. CASE Place + PacketWords >= FrameWords
  <2>1. n = FrameWords - Place /\ n \in Nat /\ Place + n = FrameWords
    BY <1>2, <1>3, <1>8
  <2>2. Place' = 0
    <3> HIDE DEF n, FrameWords, Place
    <3> QED
      BY <1>1, <1>2, <2>1, Further DEF SilentTypes
  <2>3. Place = LastStart /\ Place > 0 /\ Pos > 0
    BY <1>2, <1>3, <1>8
  <2>4. SUFFICES \E k \in 1 .. RowWords : Holds(k) /\ TailLost(k)'
    BY <1>5, <2>2 DEF Unnoticed
  <2>5. CASE InSync
    <3>1. PICK k \in 1 .. F : k = Pos
      BY <1>2, <2>3
    <3>2. Holds(k) /\ rowCnt' = Row + 1 /\ k \in 1 .. RowWords /\ k < RowWords'
      BY <1>1, <1>2, <2>3, <2>5, <3>1 DEF InSync
    <3>3. k = (LastStart - 1) % RowWords /\ rowCnt' = (LastStart - 1) \div RowWords + 1
      BY <2>3, <3>1, <3>2 DEF Row, Pos
    <3>4. LastStart' = LastStart
      BY DEF LastStart, FrameWords, RowWords
    <3> QED
      BY <1>2, <3>2, <3>3, <3>4 DEF TailLost
  <2>6. CASE ~ InSync
    <3>1. PICK k \in 1 .. RowWords : losses > 0 /\ Unnoticed(k)
      BY <1>6, <2>6 DEF HeadKnown
    <3>2. losses = 1 /\ losses' = 2 /\ Holds(k)
      BY <1>1, <1>4, <3>1 DEF Unnoticed
    <3>3. Behind(k)
      BY <1>2, <1>3, <2>3, <3>1, <3>2 DEF Unnoticed, Mixed
    <3>4. k # RowWords
      BY <1>2, <1>3, <1>8, <2>3, <3>2, <3>3, LostReach DEF Behind
    <3> QED
      BY <1>2, <3>2, <3>4 DEF TailLost
  <2> QED
    BY <2>5, <2>6
<1> QED
  BY <1>2, <1>3, <1>7, <1>8

(* Hence what is known of the queued frames stays known, if the one        *)
(* published is known.                                                     *)
Accounted == \A i \in 1 .. Length : FrameKnown(frameBuffer[SlotOf(i)], pixelsLostFrame[SlotOf(i)])

LEMMA AccountedNext ==
    ASSUME RingInv, Step, Accounted, losses > 0 => losses' > 0,
           \A s \in Slots \ {head, head'} : pixelsLostFrame'[s] = pixelsLostFrame[s],
           head' # head => FrameKnown(frameBuffer'[head], pixelsLostFrame'[head])
    PROVE  Accounted'
<1> DEFINE Known(words, lost) == (Whole(words) /\ lost = 0) \/ (lost > 0 /\ losses' > 0)
<1>1. ASSUME NEW words, NEW lost, FrameKnown(words, lost) PROVE Known(words, lost)
  BY <1>1 DEF FrameKnown
<1>2. ASSUME NEW i \in 1 .. Length'
      PROVE  Known(frameBuffer'[SlotOf(i)'], pixelsLostFrame'[SlotOf(i)'])
  <2>1. CASE Publishes /\ ~ Full /\ SlotOf(i)' = head
    <3>1. head' # head
      BY <2>1, NextSlotType DEF Publishes, nextFrameBuffer, NewHead, RingInv
    <3> QED
      BY <1>1, <2>1, <3>1
  <2>2. CASE \E j \in 1 .. Length, s \in Slots \ {head, head'} :
                 SlotOf(j) = s /\ SlotOf(i)' = s /\ Entry(s)' = Entry(s)
    <3>1. PICK j \in 1 .. Length, s \in Slots \ {head, head'} :
              SlotOf(j) = s /\ SlotOf(i)' = s /\ Entry(s)' = Entry(s)
      BY <2>2
    <3>2. frameBuffer'[s] = frameBuffer[s] /\ pixelsLostFrame'[s] = pixelsLostFrame[s]
      BY <3>1 DEF Entry
    <3>3. FrameKnown(frameBuffer[s], pixelsLostFrame[s])
      BY <3>1 DEF Accounted
    <3>4. Known(frameBuffer[s], pixelsLostFrame[s])
      BY <1>1, <3>3
    <3> QED
      BY <3>1, <3>2, <3>4
  <2> QED
    BY <2>1, <2>2, SlotNext
<1> QED
  BY <1>2 DEF Accounted, FrameKnown, Whole, Pixels, FrameWords, RowWords

-----------------------------------------------------------------------------
(* A word counts the pixels it finds missing in the frame at hand, or in    *)
(* the one that it begins.                                                 *)
LEMMA WordSlots ==
    ASSUME readDatagramsC, RingInv, Pixelwise
    PROVE  \A s \in Slots \ {head, head'} : pixelsLostFrame'[s] = pixelsLostFrame[s]
<1>1. \/ pixelsLostFrame' = pixelsLostFrame
      \/ \E pixels : CountLost(pixels)
      \/ \E counted, pixels : nextFrame(counted, pixels)
  <2>1. CASE InfoHeader
    BY <2>1 DEF InfoHeader
  <2>2. CASE StartOfFrame
    BY <2>2 DEF StartOfFrame
  <2>3. CASE StartOfRow
    BY <2>3 DEF StartOfRow
  <2>4. CASE Middle
    BY <2>4 DEF Middle
  <2>5. CASE EndOfRow
    BY <2>5 DEF EndOfRow
  <2>6. CASE EndOfFrame
    BY <2>6 DEF EndOfFrame
  <2>7. CASE LosePacket
    BY <2>7 DEF LosePacket
  <2> QED
    BY <2>1, <2>2, <2>3, <2>4, <2>5, <2>6, <2>7 DEF readDatagramsC
<1>2. CASE \E pixels : CountLost(pixels)
  BY <1>2 DEF CountLost, Pixelwise
<1>3. CASE \E counted, pixels : nextFrame(counted, pixels)
  BY <1>3 DEF nextFrame, nextFrameBuffer, Pixelwise
<1> QED
  BY <1>1, <1>2, <1>3

(* The words sent and the packets lost are counted. *)
LEMMA WordCounts ==
    ASSUME readDatagramsC, SilentTypes
    PROVE  SilentTypes' /\ losses' >= losses /\ (~ LosePacket => losses' = losses)
<1>1. CASE NextWord
  BY <1>1 DEF NextWord, SilentTypes
<1>2. CASE LosePacket
  <2>1. /\ losses' = losses + 1
        /\ sent' = sent + (IF Place + PacketWords > FrameWords THEN FrameWords - Place ELSE PacketWords)
    BY <1>2 DEF LosePacket
  <2>2. Place \in 0 .. FrameWords - 1 /\ FrameWords \in Nat /\ PacketWords \in Nat
    BY PlaceIs, CompactAssumption DEF SilentTypes
  <2>3. (IF Place + PacketWords > FrameWords THEN FrameWords - Place ELSE PacketWords) \in Nat
    BY <2>2
  <2> HIDE DEF Place, FrameWords
  <2> QED
    BY <1>2, <2>1, <2>3 DEF SilentTypes
<1> QED
  BY <1>1, <1>2 DEF readDatagramsC, InfoHeader, StartOfFrame, StartOfRow, Middle, EndOfRow, EndOfFrame

(* All other steps of a Compact-SPIDR's receiver leave the frame at hand   *)
(* alone.                                                                  *)
AtHand == <<head, frameBuffer, pixelsLostFrame, rowCnt, rowPixels, sent, losses>>
LEMMA OthersKeep ==
    ASSUME CountTypes, compact, [Next]_rvars, ~ readDatagramsC
    PROVE  UNCHANGED AtHand
<1>1. compact \in BOOLEAN
  BY DEF CountTypes
<1>2. CASE handleFrameTimeout /\ UNCHANGED rows
  <2>1. currShutterCnt = -1
    BY DEF CountTypes
  <2> QED
    BY <1>2, <2>1 DEF handleFrameTimeout, Unfinished, ring, rows, AtHand
<1>3. CASE (releaseFrame \/ Lifetime) /\ UNCHANGED rows
  BY <1>3 DEF releaseFrame, Lifetime, BeginRun, Open, LeaveLoop, Stop, idle, ring, rows, AtHand
<1>4. CASE resetLostC
  BY <1>4 DEF resetLostC, ring, AtHand
<1>5. CASE UNCHANGED rvars
  BY <1>5 DEF rvars, receiver, ring, rows, AtHand
<1> QED
  BY <1>2, <1>3, <1>4, <1>5 DEF Next, Base

(* What is at hand, then, is what it was. *)
LEMMA SameAtHand ==
    ASSUME UNCHANGED AtHand
    PROVE  (InSync' <=> InSync) /\ (HeadKnown' <=> HeadKnown) /\ (SilentTypes' <=> SilentTypes)
<1>1. UNCHANGED <<Place, RowWords, FrameWords, LastStart>>
  BY DEF AtHand, Place, RowWords, FrameWords, LastStart
<1>2. UNCHANGED <<Row, Pos, F, FrameSoFar>>
  BY <1>1 DEF Row, Pos, F, FrameSoFar, AtHand
<1>3. \A k : Holds(k)' = Holds(k)
  BY <1>1 DEF Holds, AtHand
<1>4. InSync' <=> InSync
  BY <1>1, <1>2 DEF InSync, Holds, AtHand
<1>5. \A k : Unnoticed(k)' = Unnoticed(k)
  BY <1>1, <1>2 DEF Unnoticed, TailLost, Behind, Mixed, Holds, AtHand
<1>6. SilentTypes' <=> SilentTypes
  BY DEF SilentTypes, AtHand
<1> QED
  BY <1>1, <1>4, <1>5, <1>6 DEF HeadKnown, Noticed, AtHand

-----------------------------------------------------------------------------
SyncInv == compact => SilentTypes /\ (losses = 0 => InSync /\ Accounted)
KnownInv == compact => SilentTypes /\ HeadKnown /\ Accounted

(* A word of a frame that nothing is lost of. *)
LEMMA InSyncWord ==
    ASSUME RingInv, SilentTypes, Pixelwise, InSync, readDatagramsC, ~ LosePacket
    PROVE  SyncOutcome
BY SyncInfoHeader, SyncStartOfFrame, SyncStartOfRow, SyncMiddle, SyncEndOfRow, SyncEndOfFrame
   DEF readDatagramsC

(* And of one that something is. *)
LEMMA LateWord ==
    ASSUME RingInv, SilentTypes, Pixelwise, HeadKnown, ~ InSync, readDatagramsC, ~ LosePacket
    PROVE  Outcome
<1>1. Late /\ (Noticed \/ \E k \in 1 .. RowWords : Unnoticed(k))
  BY DEF HeadKnown, Late
<1> QED
  BY <1>1, LateInfoHeader, LateStartOfFrame, LateStartOfRow, LateMiddle, LateEndOfRow,
     LateEndOfFrame DEF readDatagramsC

LEMMA SyncKept == ASSUME CountingInv, SyncInv, [Next]_rvars PROVE SyncInv'
<1>1. RingInv /\ CountTypes /\ compact \in BOOLEAN /\ Step
  BY NextStep DEF CountingInv, CountInv, CountTypes
<1>2. compact' = compact
  BY <1>1, StepOfClass
<1> SUFFICES ASSUME compact PROVE SyncInv'
  BY <1>1, <1>2 DEF SyncInv
<1>3. SilentTypes /\ (losses = 0 => InSync /\ Accounted) /\ Pixelwise
  BY DEF SyncInv, CountingInv, PixelInv, Pixelwise
<1>4. CASE readDatagramsC
  <2>1. SilentTypes' /\ losses' >= losses
    BY <1>3, <1>4, WordCounts
  <2>2. ASSUME losses' = 0 PROVE InSync' /\ Accounted'
    <3>1. losses = 0 /\ ~ LosePacket
      <4>1. LosePacket => losses' = losses + 1
        BY DEF LosePacket
      <4> QED
        BY <1>3, <2>1, <2>2, <4>1 DEF SilentTypes
    <3>2. SyncOutcome
      BY <1>1, <1>3, <1>4, <3>1, InSyncWord
    <3>3. head' # head => FrameKnown(frameBuffer'[head], pixelsLostFrame'[head])
      BY <3>2 DEF SyncOutcome, FrameKnown
    <3>4. \A s \in Slots \ {head, head'} : pixelsLostFrame'[s] = pixelsLostFrame[s]
      BY <1>1, <1>3, <1>4, WordSlots
    <3>5. Accounted'
      BY <1>1, <1>3, <3>1, <3>3, <3>4, AccountedNext
    <3> QED
      BY <3>2, <3>5 DEF SyncOutcome
  <2> QED
    BY <2>1, <2>2 DEF SyncInv
<1>5. CASE ~ readDatagramsC
  <2>1. UNCHANGED AtHand
    BY <1>1, <1>5, OthersKeep
  <2>2. UNCHANGED <<head, pixelsLostFrame, losses>>
    BY <2>1 DEF AtHand
  <2>3. losses = 0 => Accounted'
    BY <1>1, <1>3, <2>2, AccountedNext
  <2> QED
    BY <1>3, <2>1, <2>2, <2>3, SameAtHand DEF SyncInv
<1> QED
  BY <1>4, <1>5

LEMMA KnownKept ==
    ASSUME CountingInv, KnownInv, [Next]_rvars, PacketsCutRows, MaxLosses <= 2 PROVE KnownInv'
<1>1. RingInv /\ CountTypes /\ compact \in BOOLEAN /\ Step
  BY NextStep DEF CountingInv, CountInv, CountTypes
<1>2. compact' = compact
  BY <1>1, StepOfClass
<1> SUFFICES ASSUME compact PROVE KnownInv'
  BY <1>1, <1>2 DEF KnownInv
<1>3. SilentTypes /\ HeadKnown /\ Accounted /\ Pixelwise
  BY DEF KnownInv, CountingInv, PixelInv, Pixelwise
<1>4. CASE readDatagramsC
  <2>1. SilentTypes' /\ losses' >= losses
    BY <1>3, <1>4, WordCounts
  <2>2. HeadKnown' /\ (head' # head => FrameKnown(frameBuffer'[head], pixelsLostFrame'[head]))
    <3>1. CASE LosePacket
      <4>1. head' = head
        BY <3>1 DEF LosePacket, receiver, ring
      <4> QED
        BY <1>1, <1>3, <3>1, <4>1, LostPacket
    <3>2. CASE ~ LosePacket /\ InSync
      <4>1. SyncOutcome
        BY <1>1, <1>3, <1>4, <3>2, InSyncWord
      <4>2. InSync' /\ pixelsLostFrame'[head'] = 0
        BY <4>1 DEF SyncOutcome, InSync
      <4> QED
        BY <4>1, <4>2 DEF SyncOutcome, HeadKnown, FrameKnown
    <3>3. CASE ~ LosePacket /\ ~ InSync
      BY <1>1, <1>3, <1>4, <3>3, LateWord DEF Outcome, Published
    <3> QED
      BY <3>1, <3>2, <3>3
  <2>3. \A s \in Slots \ {head, head'} : pixelsLostFrame'[s] = pixelsLostFrame[s]
    BY <1>1, <1>3, <1>4, WordSlots
  <2>4. losses > 0 => losses' > 0
    BY <1>3, <2>1 DEF SilentTypes
  <2>5. Accounted'
    BY <1>1, <1>3, <2>2, <2>3, <2>4, AccountedNext
  <2> QED
    BY <2>1, <2>2, <2>5 DEF KnownInv
<1>5. CASE ~ readDatagramsC
  <2>1. UNCHANGED AtHand
    BY <1>1, <1>5, OthersKeep
  <2>2. UNCHANGED <<head, pixelsLostFrame, losses>>
    BY <2>1 DEF AtHand
  <2>3. Accounted'
    BY <1>1, <1>3, <2>2, AccountedNext
  <2> QED
    BY <1>3, <2>1, <2>3, SameAtHand DEF KnownInv
<1> QED
  BY <1>4, <1>5

(* The receiver begins in step: the row before the first is complete. *)
LEMMA BeginsInSync == ASSUME Init PROVE SilentTypes /\ InSync /\ Accounted
<1>1. /\ sent = 0 /\ losses = 0 /\ head = 0 /\ empty = TRUE /\ rowCnt = 0
      /\ frameBuffer = [s \in Slots |-> {}] /\ rowPixels = MPX_PIXEL_COLUMNS
      /\ pixelsLostFrame = [s \in Slots |-> IF s = 0 THEN 0 ELSE 8888]
  BY DEF Init, BaseInit
<1>2. 0 \in Slots /\ Length = 0 /\ SilentTypes
  BY <1>1, ReceiverAssumption DEF Slots, Length, SilentTypes
<1>3. FrameWords \in Nat /\ FrameWords > 1 /\ Place = 0
  <2>1. FrameWords \in Nat /\ FrameWords > 1
    BY <1>2, PlaceIs DEF SilentTypes
  <2> QED
    BY <1>1, <2>1 DEF Place
<1>4. frameBuffer[head] = FrameSoFar
  <2>1. 0 .. Place - 1 = {}
    BY <1>3
  <2> QED
    BY <1>1, <1>2, <2>1 DEF FrameSoFar
<1>5. Holds(RowWords)
  <2>1. RowWords \in 1 .. RowWords /\ MPX_PIXEL_COLUMNS \in Nat
    BY RowIs
  <2> QED
    BY <1>1, <2>1 DEF Holds
<1> QED
  BY <1>1, <1>2, <1>3, <1>4, <1>5 DEF InSync, Accounted

(* What the invariants say of the queue is the property. *)
LEMMA LostOfIs ==
    ASSUME RingInv, compact, Accounted
    PROVE  NoSilentLoss
<1> SUFFICES ASSUME NEW i \in DOMAIN Queue
             PROVE  (Whole(Frame(i)) \/ LostOf(i) > 0) /\ (losses = 0 => LostOf(i) = 0)
  BY DEF NoSilentLoss
<1>1. i \in 1 .. Length /\ Queue[i] = Entry(SlotOf(i))
  BY QueueEntries
<1>2. Frame(i) = frameBuffer[SlotOf(i)] /\ LostOf(i) = pixelsLostFrame[SlotOf(i)]
  BY <1>1 DEF Frame, Entry, LostOf, SlotOf, NR
<1>3. FrameKnown(Frame(i), LostOf(i))
  BY <1>1, <1>2 DEF Accounted
<1> QED
  BY <1>3 DEF FrameKnown

(* No frame of a Compact-SPIDR reports a loss, and every one is whole, as  *)
(* long as no packet is lost: readDatagrams counts rows and pixels of a    *)
(* frame without taking any of its words for another's, for every number   *)
(* of rows and columns, words of a packet and buffers, also when frames    *)
(* are dropped for want of a buffer.                                       *)
THEOREM WholeUnlessLost == Spec => [](losses = 0 => NoSilentLoss)
<1>1. Init => SyncInv
  BY BeginsInSync DEF SyncInv
<1>2. CountingInv /\ SyncInv /\ [Next]_rvars => SyncInv'
  BY SyncKept
<1>3. CountingInv /\ SyncInv => (losses = 0 => NoSilentLoss)
  BY LostOfIs DEF CountingInv, SyncInv, NoSilentLoss
<1> QED
  BY <1>1, <1>2, <1>3, CountingInvHolds, PTL DEF Spec

(* With at most two packets lost, no frame of a Compact-SPIDR lacks pixels *)
(* or has another's words and reports no loss, wherever in the frames they *)
(* are lost, for every geometry in which the packets cut the rows.         *)
THEOREM NoLossIsSilent ==
    ASSUME PacketsCutRows, MaxLosses <= 2
    PROVE  Spec => []NoSilentLoss
<1>1. Init => KnownInv
  <2> SUFFICES ASSUME Init PROVE KnownInv
    OBVIOUS
  <2>1. InSync /\ SilentTypes /\ Accounted
    BY BeginsInSync
  <2>2. pixelsLostFrame[head] = 0
    BY <2>1 DEF InSync
  <2> QED
    BY <2>1, <2>2 DEF KnownInv, HeadKnown
<1>2. CountingInv /\ KnownInv /\ [Next]_rvars => KnownInv'
  BY KnownKept
<1>3. CountingInv /\ KnownInv => NoSilentLoss
  BY LostOfIs DEF CountingInv, KnownInv, NoSilentLoss
<1> QED
  BY <1>1, <1>2, <1>3, CountingInvHolds, PTL DEF Spec
=============================================================================
