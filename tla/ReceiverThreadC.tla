--------------------------- MODULE ReceiverThreadC ---------------------------
(***************************************************************************)
(* The receiver for the Compact-SPIDR (ReceiverThreadC.cpp), a             *)
(* ReceiverThread with its own readDatagrams: packets are not numbered,    *)
(* they hold 64-bit words of which some begin or end a row or the frame.   *)
(* A behaviour has an object of one class or of the other.                 *)
(***************************************************************************)
EXTENDS ReceiverThread

CONSTANTS
    MPX_PIXEL_ROWS, MPX_PIXEL_COLUMNS,
    PixPerWord,    \* pixels of a word, 60 over the pixel depth
    PacketWords,   \* words of a packet; a frame's last packet may be shorter
    MaxFrames,     \* bound: frames the module sends
    MaxLosses      \* bound: packets lost

ASSUME CompactAssumption ==
    /\ MPX_PIXEL_ROWS \in Nat /\ MPX_PIXEL_ROWS > 1
    /\ PixPerWord \in Nat \ {0} /\ MPX_PIXEL_COLUMNS \in Nat
    /\ MPX_PIXEL_COLUMNS > PixPerWord /\ MPX_PIXEL_COLUMNS % PixPerWord # 0
    /\ PacketWords \in Nat \ {0} /\ MaxFrames \in Nat /\ MaxLosses \in Nat

VARIABLES
    compact,          \* the class of the object
    sent,             \* words the module has sent
    losses,           \* packets lost
    rowCnt, rowPixels, pixelsLost, pixelsLostFrame

rows == <<sent, losses, rowCnt, rowPixels, pixelsLost, pixelsLostFrame>>
rvars == <<receiver, compact, rows>>

RowWords == (MPX_PIXEL_COLUMNS \div PixPerWord) + 1
EndPixels == MPX_PIXEL_COLUMNS - (MPX_PIXEL_COLUMNS \div PixPerWord) * PixPerWord
FrameWords == 1 + MPX_PIXEL_ROWS * RowWords
Place == sent % FrameWords
Word == [frame |-> sent \div FrameWords, place |-> Place]

(* The info header, one word here, and the rows. *)
Kind ==
    IF Place = 0 THEN "INFO"
    ELSE IF Place = 1 THEN "SOF"
    ELSE IF Place = FrameWords - 1 THEN "EOF"
    ELSE IF Place % RowWords = 1 THEN "SOR"
    ELSE IF Place % RowWords = 0 THEN "EOR" ELSE "MID"

Init ==
    /\ BaseInit /\ compact \in BOOLEAN
    /\ compact => cut = FrameSize    \* it has no numbered packets
    /\ sent = 0 /\ losses = 0
    /\ rowCnt = 0 /\ rowPixels = MPX_PIXEL_COLUMNS /\ pixelsLost = 0
    /\ pixelsLostFrame = [s \in Slots |-> IF s = 0 THEN 0 ELSE 8888]

-----------------------------------------------------------------------------
NextWord ==
    /\ compact /\ Looping /\ sent < MaxFrames * FrameWords
    /\ sent' = sent + 1
    /\ UNCHANGED <<compact, losses, tail, expected, packet, recvTimeoutCount, packetsReceived,
                   packetsLost, control>>

(* Pixels missing from a row of so many. *)
Short(pixels) == IF pixels < MPX_PIXEL_COLUMNS THEN MPX_PIXEL_COLUMNS - pixels ELSE 0
CountLost(pixels) ==
    /\ pixelsLost' = pixelsLost + pixels
    /\ pixelsLostFrame' = [pixelsLostFrame EXCEPT ![head] = @ + pixels]

Keep == [frameBuffer EXCEPT ![head] = @ \cup {Word}]
SameBuffer(counted) ==
    /\ frameBuffer' = Keep /\ rowCnt' = counted
    /\ UNCHANGED <<head, empty, framesReceived, framesLost, isCounterhFrame, packetsLostFrame,
                   history>>
(* nextFrame, for a frame that so many rows were counted of.  The word in  *)
(* hand is still to be copied, except at EOF.                              *)
LostRowsVariant(counted) == 0
LostRows(counted) ==
    IF counted < MPX_PIXEL_ROWS THEN (MPX_PIXEL_ROWS - counted) * MPX_PIXEL_COLUMNS ELSE 0
nextFrame(counted, pixels) ==
    LET lost == pixels + LostRows(counted) IN
    /\ nextFrameBuffer
    /\ pixelsLost' = pixelsLost + lost
    /\ pixelsLostFrame' = [pixelsLostFrame EXCEPT ![head] = @ + lost, ![NewHead] = 0]
    /\ packetsLostFrame' = [packetsLostFrame EXCEPT ![NewHead] = expPacketsPerFrame]
    /\ history' = Finished(pixelsLostFrame[head] + lost)
    /\ rowCnt' = 0
    /\ UNCHANGED isCounterhFrame
CopiedToNext == frameBuffer' = [Emptied(frameBuffer) EXCEPT ![NewHead] = {Word}]

InfoHeader ==
    /\ NextWord /\ Kind = "INFO" /\ frameBuffer' = Keep
    /\ \E readsCounterH \in BOOLEAN :
           isCounterhFrame' = [isCounterhFrame EXCEPT ![head] = readsCounterH]
    /\ UNCHANGED <<head, empty, framesReceived, framesLost, packetsLostFrame, history, rowCnt,
                   rowPixels, pixelsLost, pixelsLostFrame>>
StartOfFrame ==
    /\ NextWord /\ Kind = "SOF"
    /\ CountLost(Short(rowPixels)) /\ rowPixels' = PixPerWord
    /\ SameBuffer(rowCnt + 1)
StartOfRow ==
    /\ NextWord /\ Kind = "SOR" /\ rowPixels' = PixPerWord
    /\ IF rowCnt + 1 > MPX_PIXEL_ROWS
       THEN nextFrame(rowCnt + 1, Short(rowPixels)) /\ CopiedToNext
       ELSE CountLost(Short(rowPixels)) /\ SameBuffer(rowCnt + 1)
(* A word in a row that is complete already: its start was missed. *)
Middle ==
    /\ NextWord /\ Kind = "MID"
    /\ \/ /\ rowPixels + PixPerWord < MPX_PIXEL_COLUMNS
          /\ rowPixels' = rowPixels + PixPerWord /\ SameBuffer(rowCnt)
          /\ UNCHANGED <<pixelsLost, pixelsLostFrame>>
       \/ /\ rowPixels + PixPerWord >= MPX_PIXEL_COLUMNS /\ rowPixels' = PixPerWord
          /\ IF rowCnt + 1 > MPX_PIXEL_ROWS
             THEN nextFrame(rowCnt + 1, 0) /\ CopiedToNext
             ELSE SameBuffer(rowCnt + 1) /\ UNCHANGED <<pixelsLost, pixelsLostFrame>>
EndOfRow ==
    /\ NextWord /\ Kind = "EOR"
    /\ LET missing == Short(rowPixels + EndPixels) IN
       IF rowCnt >= MPX_PIXEL_ROWS
       THEN nextFrame(rowCnt, missing) /\ CopiedToNext /\ rowPixels' = PixPerWord
       ELSE /\ CountLost(missing) /\ SameBuffer(rowCnt)
            /\ rowPixels' = rowPixels + EndPixels + missing
EndOfFrame ==
    /\ NextWord /\ Kind = "EOF"
    /\ LET missing == Short(rowPixels + PixPerWord) IN
       /\ nextFrame(rowCnt, missing) /\ frameBuffer' = Emptied(Keep)
       /\ rowPixels' = rowPixels + PixPerWord + missing
LosePacket ==
    /\ compact /\ Looping /\ losses < MaxLosses /\ sent < MaxFrames * FrameWords
    /\ Place % PacketWords = 0 /\ losses' = losses + 1
    /\ sent' = sent + (IF Place + PacketWords > FrameWords THEN FrameWords - Place ELSE PacketWords)
    /\ UNCHANGED <<receiver, compact, rowCnt, rowPixels, pixelsLost, pixelsLostFrame>>

resetLostC ==
    /\ compact
    /\ framesLost' \in Cleared(framesLost) /\ packetsLost' \in Cleared(packetsLost)
    /\ pixelsLost' \in Cleared(pixelsLost)
    /\ history' = [history EXCEPT !.losses = @ - (pixelsLost - pixelsLost')]
    /\ UNCHANGED <<ring, expected, packet, recvTimeoutCount, framesReceived, packetsReceived,
                   control, compact, sent, losses, rowCnt, rowPixels, pixelsLostFrame>>

readDatagramsC ==
    InfoHeader \/ StartOfFrame \/ StartOfRow \/ Middle \/ EndOfRow \/ EndOfFrame \/ LosePacket
Base == /\ \/ ~compact /\ (readDatagrams \/ resetLost)
           \/ handleFrameTimeout \/ releaseFrame \/ Lifetime
        /\ UNCHANGED <<compact, rows>>
Next == Base \/ readDatagramsC \/ resetLostC
Fairness ==
    /\ WF_rvars((BeginRun \/ Open \/ LeaveLoop) /\ UNCHANGED <<compact, rows>>)
    /\ WF_rvars(Store /\ UNCHANGED <<compact, rows>>)
    /\ WF_rvars(handleFrameTimeout /\ UNCHANGED <<compact, rows>>)
Spec == Init /\ [][Next]_rvars /\ Fairness

-----------------------------------------------------------------------------
Frame(i) == Queue[i][1]
LostOf(i) == pixelsLostFrame[(tail + i - 1) % NR_OF_FRAMEBUFS]
Pixels(words) == {w \in words : w.place # 0}

(* The totals, of packets or of pixels, are the sums of the frames' counts, *)
(* those of frames lost in the ring and what the current one has lost so    *)
(* far included, since the last reset that was not undone.  A frame ended   *)
(* by a time-out counts without what followed its last packet.              *)
TotalsAddUp ==
    IF compact THEN pixelsLost = history.losses + pixelsLostFrame[head] ELSE LossesAddUp

(* A frame without some of its pixels, or with words of another frame,      *)
(* reports a loss, and none does as long as no packet is lost, however the *)
(* losses fall on SOR, EOR and EOF, for up to two lost packets: three in a *)
(* row that make up a whole frame are not seen.  It needs packets that cut *)
(* the rows: words carry no position, and the rest of a row and the start  *)
(* of another pass for one row where the two cuts are the same.            *)
LastStart == FrameWords - 1 - ((FrameWords - 1) % PacketWords)
PacketsCutRows ==
    /\ PacketWords > 1 /\ 2 * PacketWords < FrameWords
    /\ \A b \in 1 .. FrameWords - 1 : b % PacketWords = 0 => (b - 1) % RowWords # 0
    /\ LET first == (PacketWords - 1) % RowWords
           last == (LastStart - 1) % RowWords
       IN  last < first \/ (first < last /\ LastStart < FrameWords - RowWords)
Whole(words) ==
    /\ Cardinality(Pixels(words)) = FrameWords - 1
    /\ \A v, w \in words : v.frame = w.frame
NoSilentLoss ==
    compact => \A i \in DOMAIN Queue :
        /\ Whole(Frame(i)) \/ LostOf(i) > 0
        /\ losses = 0 => LostOf(i) = 0
=============================================================================
