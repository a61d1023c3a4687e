--------------------------- MODULE FrameAssembler ---------------------------
(***************************************************************************)
(* FrameAssembler::onEvent: one chip's UDP packets put together to frames, *)
(* with what it does when packets are lost.  A readout is a stream of      *)
(* words, an info header and then the rows, cut into packets without       *)
(* regard to rows; the detector sends readout after readout and the        *)
(* network loses packets.  Pixel values are abstracted to the place they   *)
(* come from: a frame keeps which readouts wrote into it since it was got  *)
(* from newChipFrame, how many pixels were written, whether each went to   *)
(* its own place, and what the frame was like when it came.                *)
(***************************************************************************)
EXTENDS Integers, FiniteSets

CONSTANTS
    ROWS, COLUMNS,     \* MPX_PIXEL_ROWS, MPX_PIXEL_COLUMNS
    PIXELS_PER_WORD,   \* of the configured depth
    HEADER_WORDS,      \* the info header's length
    PACKET_WORDS,      \* 9000 bytes of words
    READOUTS,          \* readouts are numbered modulo this
    MAX_BURST,         \* packets the network loses in a row, at most
    OLD_COUNTS,        \* values of pixelsLost in a frame that was not cleared
    HEARD_FROM_START,  \* does the first packet ever sent arrive?
    NULL

Readouts == 0 .. READOUTS - 1
LastWord == COLUMNS \div PIXELS_PER_WORD  \* the word that ends a row
WordsPerRow == LastWord + 1
ReadoutWords == HEADER_WORDS + ROWS * WordsPerRow
PacketsPerReadout == (ReadoutWords + PACKET_WORDS - 1) \div PACKET_WORDS
LastPacketWords == ReadoutWords - (PacketsPerReadout - 1) * PACKET_WORDS
(* Where in a row packet p begins. *)
Phase(p) == (p * PACKET_WORDS - HEADER_WORDS) % WordsPerRow

(* What the 9000-byte packets of all depths have in common: a readout's    *)
(* first packet holds the header and a whole row, and no packet begins     *)
(* where a row does or at the same place of a row as another one.          *)
ASSUME GeometryAssumption ==
    /\ {ROWS, COLUMNS, PIXELS_PER_WORD, HEADER_WORDS, PACKET_WORDS} \subseteq Nat
    /\ ROWS >= 1 /\ PIXELS_PER_WORD \in 1 .. COLUMNS
    /\ COLUMNS % PIXELS_PER_WORD # 0 /\ HEADER_WORDS >= 2
    /\ PACKET_WORDS >= HEADER_WORDS + WordsPerRow
    /\ LastPacketWords >= WordsPerRow
    /\ \A p, q \in 1 .. PacketsPerReadout - 1 :
          Phase(p) # 0 /\ (Phase(p) = Phase(q) => p = q)
ASSUME LossAssumption ==
    READOUTS \in Nat /\ READOUTS >= 3 /\ MAX_BURST \in 0 .. PacketsPerReadout - 1

ASSUME OldCountsAssumption == OLD_COUNTS \subseteq Int

(* What newChipFrame may return: a recycled frame, which releaseFrameSet    *)
(* or a dropped set has cleared; or one that was not: a new ChipFrame,     *)
(* whose constructor writes nothing, or the chip's own frame taken back    *)
(* out of the set in progress, with the pixels and the count of an earlier *)
(* readout.                                                                *)
Came == {[old |-> FALSE, pixelsLost |-> 0]}
          \cup {[old |-> TRUE, pixelsLost |-> n] : n \in OLD_COUNTS}

Packets == [readout : Readouts, packet : 0 .. PacketsPerReadout - 1]
Frames == [readouts : SUBSET Readouts, placed : BOOLEAN, filled : Int, pixelsLost : Int,
           mode : {0, 1, 4}, ended : {"no", "cut", "EOF"}, came : Came]
ASSUME NullAssumption == NULL \notin Packets \cup Frames

VARIABLES
    depth24,       \* low and high counter passes alternate
    toSend,        \* the next packet: [readout, packet]
    burst,         \* packets lost since the last that arrived
    pc,            \* the packet in onEvent, or NULL
    j,             \* the word of pc that comes next
    row_counter, cursor, endCursor, counter_depth,
    mode,          \* omr.getMode()
    row,           \* the row the pointer `row' points to
    frame,         \* the frame being assembled, or NULL
    delivered,     \* the frame last handed to putChipFrame, NULL before the first
    failed         \* the line whose assertion stopped the process, or 0

netVars == <<depth24, toSend, burst>>
asmVars == <<row_counter, cursor, endCursor, counter_depth, mode, row, frame>>
vars == <<netVars, pc, j, asmVars, delivered, failed>>

-----------------------------------------------------------------------------
(* The stream of words.                                                    *)

(* The type, row field and place in the row of word i of a readout. *)
RowWord(r, k) == [row |-> r, word |-> k, type |->
    IF k = 0 THEN (IF r = 0 THEN "SOF" ELSE "SOR")
    ELSE IF k < LastWord THEN "MID"
    ELSE IF r = ROWS - 1 THEN "EOF" ELSE "EOR"]
InfoWord(i) == [row |-> 0, word |-> 0, type |->
    IF i = 0 THEN "INFO_SOF" ELSE IF i = HEADER_WORDS - 1 THEN "INFO_EOF" ELSE "INFO_MID"]
ReadoutWord(i) ==
    IF i < HEADER_WORDS THEN InfoWord(i)
    ELSE RowWord((i - HEADER_WORDS) \div WordsPerRow, (i - HEADER_WORDS) % WordsPerRow)

PacketSize(p) == IF p.packet = PacketsPerReadout - 1 THEN LastPacketWords ELSE PACKET_WORDS
WordOf(p, i) == ReadoutWord(p.packet * PACKET_WORDS + i)
packetEndsRow(w) == w.type \in {"EOR", "EOF"}
opensFrame(w) == w.type \in {"SOF", "INFO_SOF", "INFO_MID", "INFO_EOF"}

(* In 24-bit mode the odd passes read the high counter. *)
ModeOf(n) == IF depth24 /\ n % 2 = 1 THEN 4 ELSE 0
Following(p) == IF p.packet < PacketsPerReadout - 1
                THEN [p EXCEPT !.packet = @ + 1]
                ELSE [readout |-> (p.readout + 1) % READOUTS, packet |-> 0]

(* newChipFrame's frame with the mode stored: its pixelsLost is not reset. *)
NewFrame(m, came) == [readouts |-> {}, placed |-> TRUE, filled |-> 0,
                      pixelsLost |-> came.pixelsLost, mode |-> m, ended |-> "no",
                      came |-> came]
(* What was added to a frame's pixelsLost since, and whether pixels that   *)
(* it held before were not overwritten.                                    *)
Lost(f) == f.pixelsLost - f.came.pixelsLost
KeepsOld(f) == f.came.old /\ f.filled < ROWS * COLUMNS
(* n pixels of word w of readout r stored at the cursor of the row pointed to. *)
Stored(r, w, n) == [frame EXCEPT
    !.readouts = @ \cup {r},
    !.placed = @ /\ row = w.row /\ cursor = w.word * PIXELS_PER_WORD,
    !.filled = @ + n]

Init ==
    /\ depth24 \in (IF READOUTS % 2 = 0 THEN BOOLEAN ELSE {FALSE})
    /\ toSend = [readout |-> 0, packet |-> 0]
    /\ burst = 0 /\ pc = NULL /\ j = 0
    /\ row_counter = -1 /\ cursor = 55555 /\ endCursor = COLUMNS
    /\ counter_depth = 12 /\ mode = 0 /\ row = NULL
    /\ frame = NULL /\ delivered = NULL /\ failed = 0

LosePacket ==
    /\ pc = NULL /\ burst < MAX_BURST
    /\ HEARD_FROM_START => endCursor # COLUMNS
    /\ burst' = burst + 1
    /\ toSend' = Following(toSend)
    /\ UNCHANGED <<depth24, pc, j, asmVars, delivered, failed>>

-----------------------------------------------------------------------------
(* The operators named ...Variant are not part of the model: each is a      *)
(* plausible mistake in the definition that follows it, which a property   *)
(* must detect (see the README).                                           *)

(* The test for lost packets and the recovery, lines 16-100, for packet p. *)

(* Division in C truncates: nothing is left of a row whose end was read. *)
eorIndex == IF cursor > endCursor THEN 0 ELSE (endCursor - cursor) \div PIXELS_PER_WORD
packetLoss(p) ==
    IF row_counter >= 0 THEN ~ packetEndsRow(WordOf(p, eorIndex))
                        ELSE WordOf(p, 0).type # "INFO_SOF"

firstSpecial(p) == CHOOSE i \in 0 .. PacketSize(p) - 1 :
    /\ WordOf(p, i).type # "MID"
    /\ \A k \in 0 .. i - 1 : WordOf(p, k).type = "MID"

StartsWithRow(p) == WordOf(p, 0).type = "SOR"
next_row(p) == IF StartsWithRow(p) THEN WordOf(p, endCursor \div PIXELS_PER_WORD).row - 1
               ELSE WordOf(p, firstSpecial(p)).row
next_cursorVariant(p) == COLUMNS - firstSpecial(p) * PIXELS_PER_WORD
next_cursor(p) == IF StartsWithRow(p) THEN 0
                  ELSE endCursor - firstSpecial(p) * PIXELS_PER_WORD
(* Pixels of the row that was being read when the packets got lost. *)
missing(p) == IF StartsWithRow(p) THEN (next_row(p) - row_counter) * COLUMNS
              ELSE COLUMNS - cursor

RestOfFrame == (ROWS - row_counter) * COLUMNS
(* The frame, if there is one, is handed over without its rest. *)
Abandon(lost) == delivered' = IF frame = NULL THEN delivered
    ELSE [frame EXCEPT !.pixelsLost = @ + lost + RestOfFrame, !.ended = "cut"]

(* Somehow we found a new frame. *)
recoverAtHeaderVariant(p) ==
    /\ packetLoss(p) /\ opensFrame(WordOf(p, 0))
    /\ frame' = NULL
    /\ UNCHANGED <<row_counter, cursor, endCursor, counter_depth, mode, row, delivered, failed>>
keepsFrameVariant(p) ==
    /\ packetLoss(p) /\ opensFrame(WordOf(p, 0))
    /\ Abandon(COLUMNS - cursor)
    /\ UNCHANGED <<asmVars, failed>>
recoverAtHeader(p) ==
    /\ packetLoss(p) /\ opensFrame(WordOf(p, 0))
    /\ Abandon(COLUMNS - cursor)
    /\ frame' = NULL
    /\ UNCHANGED <<row_counter, cursor, endCursor, counter_depth, mode, row, failed>>

(* The line of the recovery whose assertion fails, or 0. *)
RecoveryFails(p) ==
    IF StartsWithRow(p) /\ next_row(p) < 0 THEN 38
    ELSE IF ~ StartsWithRow(p) /\ next_row(p) \notin 1 .. ROWS - 1 THEN 58
    ELSE IF next_cursor(p) \notin 0 .. COLUMNS - 1 THEN 89 ELSE 0

(* The packet continues a frame, and its first special word says which row. *)
StartsFirstRow(p) == StartsWithRow(p) /\ next_row(p) = 0
RowFound(p) == packetLoss(p) /\ ~ opensFrame(WordOf(p, 0)) /\ ~ StartsFirstRow(p)

(* "finished high, next frame" or "finished low, expect high". *)
NextMode == IF counter_depth = 24 THEN (IF mode = 1 THEN 0 ELSE 1) ELSE mode

ContinueAt(p, f, skipped) ==
    /\ frame' = [f EXCEPT !.pixelsLost = @ + skipped + next_cursor(p)]
    /\ cursor' = next_cursor(p)
    /\ row_counter' = IF next_cursor(p) = 0 THEN next_row(p) - 1 ELSE next_row(p)
    /\ row' = IF next_cursor(p) = 0 THEN row ELSE next_row(p)
    /\ UNCHANGED <<endCursor, counter_depth>>

BeginsNextVariant(p) == frame = NULL
BeginsNext(p) == frame = NULL \/ next_row(p) < row_counter

recoverInNextFrame(p) ==
    /\ RowFound(p)
    /\ failed' = RecoveryFails(p)
    /\ BeginsNext(p)
    /\ Abandon(missing(p))
    /\ mode' = NextMode
    /\ \E came \in Came : ContinueAt(p, NewFrame(NextMode, came), next_row(p) * COLUMNS)

SkippedVariant(p) == (next_row(p) - row_counter) * COLUMNS
Skipped(p) == missing(p) + (next_row(p) - 1 - row_counter) * COLUMNS

recoverInSameFrame(p) ==
    /\ RowFound(p)
    /\ failed' = RecoveryFails(p)
    /\ ~ BeginsNext(p)
    /\ ContinueAt(p, frame, Skipped(p))
    /\ UNCHANGED <<mode, delivered>>

nothingToRecover(p) ==
    /\ ~ packetLoss(p) \/ StartsFirstRow(p)
    /\ UNCHANGED <<asmVars, delivered, failed>>

onEvent ==
    /\ pc = NULL
    /\ pc' = toSend /\ j' = 0
    /\ toSend' = Following(toSend) /\ burst' = 0
    /\ nothingToRecover(toSend) \/ recoverAtHeader(toSend) \/ recoverInNextFrame(toSend)
         \/ recoverInSameFrame(toSend)
    /\ UNCHANGED depth24

-----------------------------------------------------------------------------
(* The switch over the words of a packet, lines 104-200.                   *)

Word == WordOf(pc, j)
NextWord ==
    /\ j' = IF j + 1 < PacketSize(pc) THEN j + 1 ELSE 0
    /\ pc' = IF j + 1 < PacketSize(pc) THEN pc ELSE NULL
    /\ UNCHANGED netVars

(* Lines 109-136: a row begins, and its first pixels are stored. *)
startRow ==
    /\ Word.type \in {"SOF", "SOR"}
    /\ LET r == IF Word.type = "SOF" THEN 0 ELSE row_counter + 1 IN
        IF frame = NULL \/ r \notin 0 .. ROWS - 1
        THEN failed' = (IF frame = NULL THEN 121 ELSE 120) /\ UNCHANGED <<row_counter, row, cursor, frame>>
        ELSE /\ row_counter' = r /\ row' = r
             /\ cursor' = PIXELS_PER_WORD
             /\ frame' = [frame EXCEPT
                    !.readouts = @ \cup {pc.readout},
                    !.placed = @ /\ r = Word.row,
                    !.filled = @ + PIXELS_PER_WORD]
             /\ UNCHANGED failed
    /\ UNCHANGED <<endCursor, counter_depth, mode, delivered>>

middleOfRow ==
    /\ Word.type = "MID"
    /\ frame' = Stored(pc.readout, Word, PIXELS_PER_WORD)
    /\ cursor' = cursor + PIXELS_PER_WORD
    /\ failed' = IF cursor' < COLUMNS THEN failed ELSE 135
    /\ UNCHANGED <<row_counter, endCursor, counter_depth, mode, row, delivered>>

endRow ==
    /\ Word.type = "EOR"
    /\ frame' = Stored(pc.readout, Word, COLUMNS - cursor)
    /\ cursor' = COLUMNS
    /\ UNCHANGED <<row_counter, endCursor, counter_depth, mode, row, delivered, failed>>

endFrame ==
    /\ Word.type = "EOF"
    /\ row_counter' = -1
    /\ delivered' = [Stored(pc.readout, Word, COLUMNS - cursor) EXCEPT !.ended = "EOF"]
    /\ cursor' = COLUMNS
    /\ frame' = NULL
    /\ UNCHANGED <<endCursor, counter_depth, mode, row, failed>>

(* The header's chip id and OMR are complete in every packet that has      *)
(* them, and the chip id is a real one: with a number below 5 the header   *)
(* is ignored (lines 167 and 173), no frame is got, and the next row is    *)
(* written through a null pointer.                                         *)
infoWord ==
    /\ Word.type \in {"INFO_SOF", "INFO_MID"}
    /\ UNCHANGED <<asmVars, delivered, failed>>

infoEnd ==
    /\ Word.type = "INFO_EOF"
    /\ mode' = ModeOf(pc.readout)
    /\ counter_depth' = IF depth24 THEN 24 ELSE 12
    /\ endCursor' = COLUMNS - (COLUMNS % PIXELS_PER_WORD)
    /\ failed' = IF frame = NULL THEN failed ELSE 185
    /\ \E came \in Came : frame' = NewFrame(mode', came)
    /\ UNCHANGED <<row_counter, cursor, row, delivered>>

processWord ==
    /\ pc # NULL
    /\ startRow \/ middleOfRow \/ endRow \/ endFrame \/ infoWord \/ infoEnd
    /\ NextWord

Next == failed = 0 /\ (LosePacket \/ onEvent \/ processWord)
Spec == Init /\ [][Next]_vars

-----------------------------------------------------------------------------
(* None of onEvent's assertions fails, however the network loses packets   *)
(* (at most MAX_BURST in a row), once a first header has been seen.        *)
NoAssertionFails == failed = 0

Assembled == {f \in {frame, delivered} : f # NULL}

(* Every pixel is stored in its own row and column, also in the rows that  *)
(* follow a loss.                                                          *)
RowPlacement == \A f \in Assembled : f.placed

(* What is stored in a frame between newChipFrame and putChipFrame comes   *)
(* from one readout.  The frame itself may come with pixels of another     *)
(* one, when it was taken back from the set in progress (lines 69 and 186, *)
(* FrameSetManager.cpp:98): those that no packet overwrites are handed     *)
(* over with it, but then something was added to its pixelsLost.           *)
NoMixing ==
    /\ \A f \in Assembled : Cardinality(f.readouts) <= 1
    /\ delivered # NULL /\ KeepsOld(delivered) => Lost(delivered) > 0

(* What onEvent adds to the count of a frame whose end arrived is the      *)
(* number of its pixels that did not, however many rows and parts of rows  *)
(* were lost; the count itself is right only if the frame came with 0.  To *)
(* one that was cut short, "we lost the rest of the frame; finish the      *)
(* current", the row in progress is added twice (lines 46 and 66), and     *)
(* never less than it misses.                                              *)
LossAccounted == delivered # NULL =>
    Lost(delivered) = (ROWS * COLUMNS - delivered.filled)
                        + IF delivered.ended = "cut" THEN COLUMNS ELSE 0

(* The frame that putChipFrame got last, as the stream sees it. *)
Given == IF delivered = NULL THEN [readout |-> READOUTS - 1, pixels |-> 0, lost |-> 0]
         ELSE [readout |-> CHOOSE n \in Readouts : delivered.readouts = {n},
               pixels |-> delivered.filled, lost |-> Lost(delivered)]
Stream == INSTANCE FrameStream WITH
    Pixels <- ROWS * COLUMNS, Row <- COLUMNS, begun <- frame # NULL,
    hand <- IF frame = NULL THEN 0 ELSE frame.filled, given <- Given

(* The assembler implements the stream of frames: each readout is handed   *)
(* over once and in order, complete or not, with every pixel that was      *)
(* stored since its frame was made, however packets are lost (the ways in  *)
(* which onEvent's recovery and the end of a frame replace the pointer).   *)
ImplementsStream == Stream!Spec
=============================================================================
