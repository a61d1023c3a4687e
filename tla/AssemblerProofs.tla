--------------------------- MODULE AssemblerProofs ---------------------------
(***************************************************************************)
(* Theorems about the assembly of one chip's packets to frames, for every  *)
(* geometry of readout and packets and however the network loses packets,  *)
(* at most MAX_BURST in a row, provided the first packet of all arrives,   *)
(* and whatever newChipFrame returns: no assertion of onEvent fails, every *)
(* pixel is stored at its own place, what is stored in a frame since it    *)
(* was got is of one readout, the lost pixels are counted, and the         *)
(* assembler implements the stream of frames, one of each readout.         *)
(***************************************************************************)
EXTENDS FrameAssembler, FiniteSetTheorems, TLAPS

-----------------------------------------------------------------------------
(* Division.                                                               *)

(* Quotient and remainder. *)
LEMMA Division ==
    ASSUME NEW n \in Nat \ {0}, NEW a \in Nat
    PROVE  a \div n \in Nat /\ a % n \in 0 .. n - 1 /\ a = n * (a \div n) + (a % n)
OBVIOUS

(* A multiple that lies between two multiples one apart is the lower one. *)
LEMMA NoMultipleBetween ==
    ASSUME NEW n \in Nat \ {0}, NEW d \in Int, - n < n * d, n * d < n
    PROVE  d = 0
<1>1. ASSUME d >= 1 PROVE FALSE
  <2>1. d - 1 \in Nat /\ n * (d - 1) \in Nat /\ n * d = n * (d - 1) + n
    BY <1>1
  <2> QED
    BY <2>1
<1>2. ASSUME d <= -1 PROVE FALSE
  <2>1. - d - 1 \in Nat /\ n * (- d - 1) \in Nat /\ n * d = - (n * (- d - 1)) - n
    BY <1>2
  <2> QED
    BY <2>1
<1> QED
  BY <1>1, <1>2

(* Quotient and remainder are unique. *)
LEMMA DivisionUnique ==
    ASSUME NEW n \in Nat \ {0}, NEW q \in Nat, NEW r \in 0 .. n - 1
    PROVE  (n * q + r) \div n = q /\ (n * q + r) % n = r
<1> DEFINE a == n * q + r
           s == a \div n
           t == a % n
<1>1. n * q \in Nat /\ a \in Nat
  OBVIOUS
<1>2. s \in Nat /\ t \in 0 .. n - 1 /\ a = n * s + t
  BY <1>1, Division
<1> HIDE DEF s, t
<1>3. n * (q - s) = t - r
  BY <1>2
<1>4. q - s = 0
  BY <1>2, <1>3, NoMultipleBetween
<1>5. q = s /\ t = r
  BY <1>2, <1>3, <1>4
<1> QED
  BY <1>5 DEF s, t

-----------------------------------------------------------------------------
(* The geometry: rows of words, cut into packets.                          *)

LEMMA Lengths ==
    /\ ROWS \in Nat \ {0} /\ COLUMNS \in Nat \ {0} /\ PIXELS_PER_WORD \in Nat \ {0}
    /\ HEADER_WORDS \in Nat /\ HEADER_WORDS >= 2 /\ PACKET_WORDS \in Nat \ {0}
    /\ LastWord \in Nat \ {0} /\ WordsPerRow \in Nat \ {0} /\ WordsPerRow = LastWord + 1
    /\ ReadoutWords \in Nat /\ ReadoutWords = HEADER_WORDS + WordsPerRow * ROWS
    /\ PACKET_WORDS >= HEADER_WORDS + WordsPerRow
<1> USE GeometryAssumption
<1>1. /\ ROWS \in Nat \ {0} /\ COLUMNS \in Nat \ {0} /\ PIXELS_PER_WORD \in Nat \ {0}
      /\ HEADER_WORDS \in Nat /\ HEADER_WORDS >= 2 /\ PACKET_WORDS \in Nat
  OBVIOUS
<1>2. /\ LastWord \in Nat /\ COLUMNS % PIXELS_PER_WORD \in 0 .. PIXELS_PER_WORD - 1
      /\ COLUMNS = PIXELS_PER_WORD * LastWord + (COLUMNS % PIXELS_PER_WORD)
  BY <1>1, Division DEF LastWord
<1>3. LastWord # 0
  <2>1. SUFFICES ASSUME LastWord = 0 PROVE FALSE
    OBVIOUS
  <2>2. PIXELS_PER_WORD * LastWord = 0
    BY <1>1, <2>1
  <2> QED
    BY <1>1, <1>2, <2>2
<1>4. WordsPerRow \in Nat \ {0} /\ WordsPerRow = LastWord + 1
  BY <1>2 DEF WordsPerRow
<1>5. /\ WordsPerRow * ROWS \in Nat /\ WordsPerRow * ROWS = ROWS * WordsPerRow
  BY <1>1, <1>4
<1>6. ReadoutWords \in Nat /\ ReadoutWords = HEADER_WORDS + WordsPerRow * ROWS
  BY <1>1, <1>5 DEF ReadoutWords
<1>7. PACKET_WORDS >= HEADER_WORDS + WordsPerRow
  OBVIOUS
<1>8. PACKET_WORDS # 0
  BY <1>1, <1>4, <1>7
<1> QED
  BY <1>1, <1>2, <1>3, <1>4, <1>6, <1>7, <1>8

(* The pixels of the words before a row's last one leave some of the row,  *)
(* and an info header sets endCursor to where the last word begins.        *)
LEMMA RowLength ==
    /\ LastWord * PIXELS_PER_WORD \in Nat /\ LastWord * PIXELS_PER_WORD < COLUMNS
    /\ COLUMNS - (COLUMNS % PIXELS_PER_WORD) = LastWord * PIXELS_PER_WORD
<1>1. COLUMNS \in Nat /\ PIXELS_PER_WORD \in Nat \ {0} /\ LastWord \in Nat
  BY Lengths
<1>2. /\ COLUMNS % PIXELS_PER_WORD \in 0 .. PIXELS_PER_WORD - 1
      /\ COLUMNS = PIXELS_PER_WORD * LastWord + (COLUMNS % PIXELS_PER_WORD)
  BY <1>1, Division DEF LastWord
<1>3. /\ LastWord * PIXELS_PER_WORD \in Nat
      /\ LastWord * PIXELS_PER_WORD = PIXELS_PER_WORD * LastWord
  BY <1>1
<1> QED
  BY <1>1, <1>2, <1>3, GeometryAssumption

(* The columns of a row's words. *)
LEMMA WordColumns ==
    ASSUME NEW k \in 0 .. LastWord
    PROVE  /\ k * PIXELS_PER_WORD \in 0 .. LastWord * PIXELS_PER_WORD
           /\ (k + 1) * PIXELS_PER_WORD = k * PIXELS_PER_WORD + PIXELS_PER_WORD
           /\ k < LastWord => (k + 1) * PIXELS_PER_WORD <= LastWord * PIXELS_PER_WORD
<1>1. LastWord \in Nat /\ PIXELS_PER_WORD \in Nat \ {0} /\ k \in Nat
  BY Lengths
<1>2. /\ k * PIXELS_PER_WORD \in Nat /\ (LastWord - k) * PIXELS_PER_WORD \in Nat
      /\ (LastWord - k) * PIXELS_PER_WORD = LastWord * PIXELS_PER_WORD - k * PIXELS_PER_WORD
      /\ LastWord * PIXELS_PER_WORD \in Nat
      /\ (k + 1) * PIXELS_PER_WORD = k * PIXELS_PER_WORD + PIXELS_PER_WORD
  BY <1>1
<1>3. ASSUME k < LastWord PROVE (k + 1) * PIXELS_PER_WORD <= LastWord * PIXELS_PER_WORD
  <2>1. /\ (LastWord - (k + 1)) * PIXELS_PER_WORD \in Nat
        /\ (LastWord - (k + 1)) * PIXELS_PER_WORD
             = LastWord * PIXELS_PER_WORD - (k + 1) * PIXELS_PER_WORD
        /\ (k + 1) * PIXELS_PER_WORD \in Nat
    BY <1>1, <1>3
  <2> QED
    BY <1>2, <2>1
<1> QED
  BY <1>1, <1>2, <1>3

(* The last packet holds what the others leave, at least a row. *)
LEMMA PacketCount ==
    /\ PacketsPerReadout \in Nat \ {0}
    /\ (PacketsPerReadout - 1) * PACKET_WORDS \in Nat
    /\ LastPacketWords \in Nat /\ LastPacketWords >= WordsPerRow
    /\ LastPacketWords <= PACKET_WORDS
    /\ ReadoutWords = (PacketsPerReadout - 1) * PACKET_WORDS + LastPacketWords
<1>1. /\ ReadoutWords \in Nat /\ PACKET_WORDS \in Nat \ {0} /\ ReadoutWords >= 1
      /\ WordsPerRow \in Nat \ {0}
  BY Lengths
<1>2. PICK t \in 0 .. PACKET_WORDS - 1 :
          /\ PacketsPerReadout \in Nat
          /\ ReadoutWords + PACKET_WORDS - 1 = PACKET_WORDS * PacketsPerReadout + t
  <2>1. ReadoutWords + PACKET_WORDS - 1 \in Nat
    BY <1>1
  <2> QED
    BY <1>1, <2>1, Division DEF PacketsPerReadout
<1>3. PacketsPerReadout # 0
  <2>1. SUFFICES ASSUME PacketsPerReadout = 0 PROVE FALSE
    OBVIOUS
  <2>2. PACKET_WORDS * PacketsPerReadout = 0
    BY <1>1, <2>1
  <2> QED
    BY <1>1, <1>2, <2>2
<1>4. /\ (PacketsPerReadout - 1) * PACKET_WORDS \in Nat
      /\ (PacketsPerReadout - 1) * PACKET_WORDS = PACKET_WORDS * PacketsPerReadout - PACKET_WORDS
  BY <1>1, <1>2, <1>3
<1>5. LastPacketWords = ReadoutWords - (PacketsPerReadout - 1) * PACKET_WORDS
  BY DEF LastPacketWords
<1>6. LastPacketWords >= WordsPerRow
  BY GeometryAssumption
<1> QED
  BY <1>1, <1>2, <1>3, <1>4, <1>5, <1>6

-----------------------------------------------------------------------------
(* The row and the place in it of word i of a readout.                     *)

RowOf(i) == (i - HEADER_WORDS) \div WordsPerRow
PlaceOf(i) == (i - HEADER_WORDS) % WordsPerRow

LEMMA PositionIs ==
    ASSUME NEW i \in Nat, i >= HEADER_WORDS
    PROVE  /\ RowOf(i) \in Nat /\ PlaceOf(i) \in 0 .. LastWord
           /\ i = HEADER_WORDS + WordsPerRow * RowOf(i) + PlaceOf(i)
           /\ WordsPerRow * RowOf(i) \in Nat
<1>1. /\ i - HEADER_WORDS \in Nat /\ WordsPerRow \in Nat \ {0} /\ HEADER_WORDS \in Nat
      /\ LastWord \in Nat /\ WordsPerRow = LastWord + 1
  BY Lengths
<1>2. /\ RowOf(i) \in Nat /\ PlaceOf(i) \in 0 .. WordsPerRow - 1
      /\ i - HEADER_WORDS = WordsPerRow * RowOf(i) + PlaceOf(i)
  BY <1>1, Division DEF RowOf, PlaceOf
<1>3. WordsPerRow * RowOf(i) \in Nat
  BY <1>1, <1>2
<1> QED
  BY <1>1, <1>2, <1>3

(* A word's row and place are the only ones. *)
LEMMA PositionUnique ==
    ASSUME NEW i \in Nat, NEW r \in Nat, NEW k \in 0 .. LastWord,
           i = HEADER_WORDS + WordsPerRow * r + k
    PROVE  i >= HEADER_WORDS /\ RowOf(i) = r /\ PlaceOf(i) = k
<1>1. /\ WordsPerRow \in Nat \ {0} /\ HEADER_WORDS \in Nat
      /\ k \in 0 .. WordsPerRow - 1 /\ k \in Nat
  BY Lengths
<1>2. WordsPerRow * r \in Nat
  BY <1>1
<1>3. i - HEADER_WORDS = WordsPerRow * r + k
  BY <1>1, <1>2
<1> QED
  BY <1>1, <1>2, <1>3, DivisionUnique DEF RowOf, PlaceOf

(* The word after it. *)
LEMMA NextPosition ==
    ASSUME NEW i \in Nat, i >= HEADER_WORDS
    PROVE  /\ PlaceOf(i) < LastWord => RowOf(i + 1) = RowOf(i) /\ PlaceOf(i + 1) = PlaceOf(i) + 1
           /\ PlaceOf(i) = LastWord => RowOf(i + 1) = RowOf(i) + 1 /\ PlaceOf(i + 1) = 0
<1>1. /\ RowOf(i) \in Nat /\ PlaceOf(i) \in 0 .. LastWord
      /\ i = HEADER_WORDS + WordsPerRow * RowOf(i) + PlaceOf(i)
      /\ WordsPerRow * RowOf(i) \in Nat
  BY PositionIs
<1>2. /\ LastWord \in Nat /\ WordsPerRow \in Nat /\ WordsPerRow = LastWord + 1
      /\ HEADER_WORDS \in Nat
  BY Lengths
<1>3. ASSUME PlaceOf(i) < LastWord
      PROVE  RowOf(i + 1) = RowOf(i) /\ PlaceOf(i + 1) = PlaceOf(i) + 1
  <2>1. /\ i + 1 \in Nat /\ PlaceOf(i) + 1 \in 0 .. LastWord
        /\ i + 1 = HEADER_WORDS + WordsPerRow * RowOf(i) + (PlaceOf(i) + 1)
    BY <1>1, <1>2, <1>3
  <2> QED
    BY <1>1, <2>1, PositionUnique
<1>4. ASSUME PlaceOf(i) = LastWord
      PROVE  RowOf(i + 1) = RowOf(i) + 1 /\ PlaceOf(i + 1) = 0
  <2>1. WordsPerRow * (RowOf(i) + 1) = WordsPerRow * RowOf(i) + WordsPerRow
    BY <1>1, <1>2
  <2>2. /\ i + 1 \in Nat /\ 0 \in 0 .. LastWord /\ RowOf(i) + 1 \in Nat
        /\ i + 1 = HEADER_WORDS + WordsPerRow * (RowOf(i) + 1) + 0
    BY <1>1, <1>2, <1>4, <2>1
  <2> QED
    BY <2>2, PositionUnique
<1> QED
  BY <1>3, <1>4

(* The rows of a readout, and the word that ends it. *)
LEMMA RowsOfReadout ==
    ASSUME NEW i \in Nat, i >= HEADER_WORDS, i < ReadoutWords
    PROVE  /\ RowOf(i) \in 0 .. ROWS - 1
           /\ i + 1 = ReadoutWords <=> (RowOf(i) = ROWS - 1 /\ PlaceOf(i) = LastWord)
<1> DEFINE r == RowOf(i)
           k == PlaceOf(i)
<1>1. /\ r \in Nat /\ k \in 0 .. LastWord
      /\ i = HEADER_WORDS + WordsPerRow * r + k
      /\ WordsPerRow * r \in Nat
  BY PositionIs
<1>2. /\ LastWord \in Nat /\ WordsPerRow \in Nat \ {0} /\ WordsPerRow = LastWord + 1
      /\ HEADER_WORDS \in Nat /\ ROWS \in Nat
      /\ ReadoutWords = HEADER_WORDS + WordsPerRow * ROWS
  BY Lengths
<1> HIDE DEF r, k
<1>3. r < ROWS
  <2>1. SUFFICES ASSUME r - ROWS \in Nat PROVE FALSE
    BY <1>1, <1>2
  <2>2. WordsPerRow * (r - ROWS) \in Nat /\ WordsPerRow * r = WordsPerRow * ROWS + WordsPerRow * (r - ROWS)
    BY <1>1, <1>2, <2>1
  <2>3. WordsPerRow * ROWS \in Nat
    BY <1>2
  <2> QED
    BY <1>1, <1>2, <2>2, <2>3
<1>4. CASE r = ROWS - 1
  <2>1. WordsPerRow * ROWS = WordsPerRow * r + WordsPerRow
    BY <1>1, <1>2, <1>4
  <2>2. i + 1 = ReadoutWords <=> k = LastWord
    BY <1>1, <1>2, <2>1
  <2> QED
    BY <1>1, <1>2, <1>3, <1>4, <2>2 DEF r, k
<1>5. CASE r # ROWS - 1
  <2>1. ROWS - 2 - r \in Nat
    BY <1>1, <1>2, <1>3, <1>5
  <2>2. /\ WordsPerRow * (ROWS - 2 - r) \in Nat
        /\ WordsPerRow * ROWS = WordsPerRow * r + WordsPerRow + WordsPerRow + WordsPerRow * (ROWS - 2 - r)
    BY <1>1, <1>2, <2>1
  <2>3. i + 1 # ReadoutWords
    BY <1>1, <1>2, <2>2
  <2> QED
    BY <1>1, <1>2, <1>3, <1>5, <2>3 DEF r, k
<1> QED
  BY <1>4, <1>5

-----------------------------------------------------------------------------
(* The packets of a readout: all but the first begin within a row, each in *)
(* a later row than the one before.                                        *)

LEMMA PacketStart ==
    ASSUME NEW p \in 1 .. PacketsPerReadout - 1
    PROVE  /\ p * PACKET_WORDS \in Nat /\ p * PACKET_WORDS >= HEADER_WORDS
           /\ RowOf(p * PACKET_WORDS) \in 1 .. ROWS - 1
           /\ PlaceOf(p * PACKET_WORDS) \in 1 .. LastWord
           /\ p * PACKET_WORDS + WordsPerRow <= ReadoutWords
<1> DEFINE i == p * PACKET_WORDS
<1>1. /\ PacketsPerReadout \in Nat /\ (PacketsPerReadout - 1) * PACKET_WORDS \in Nat
      /\ LastPacketWords \in Nat /\ LastPacketWords >= WordsPerRow
      /\ ReadoutWords = (PacketsPerReadout - 1) * PACKET_WORDS + LastPacketWords
  BY PacketCount
<1>2. /\ PACKET_WORDS \in Nat /\ HEADER_WORDS \in Nat /\ WordsPerRow \in Nat \ {0}
      /\ LastWord \in Nat /\ WordsPerRow = LastWord + 1
      /\ PACKET_WORDS >= HEADER_WORDS + WordsPerRow
      /\ ROWS \in Nat
  BY Lengths
<1>3. i \in Nat /\ i >= PACKET_WORDS
  <2>1. (p - 1) * PACKET_WORDS \in Nat /\ (p - 1) * PACKET_WORDS = i - PACKET_WORDS /\ i \in Nat
    BY <1>1, <1>2
  <2> QED
    BY <1>2, <2>1
<1>4. i <= (PacketsPerReadout - 1) * PACKET_WORDS
  <2>1. PacketsPerReadout - 1 - p \in Nat
    BY <1>1
  <2>2. /\ (PacketsPerReadout - 1 - p) * PACKET_WORDS \in Nat
        /\ (PacketsPerReadout - 1 - p) * PACKET_WORDS = (PacketsPerReadout - 1) * PACKET_WORDS - i
    BY <1>1, <1>2, <2>1
  <2> QED
    BY <1>1, <1>3, <2>2
<1> HIDE DEF i
<1>5. i >= HEADER_WORDS /\ i + WordsPerRow <= ReadoutWords /\ i < ReadoutWords
  BY <1>1, <1>2, <1>3, <1>4
<1>6. /\ RowOf(i) \in 0 .. ROWS - 1 /\ PlaceOf(i) \in 0 .. LastWord
      /\ i = HEADER_WORDS + WordsPerRow * RowOf(i) + PlaceOf(i)
  BY <1>3, <1>5, PositionIs, RowsOfReadout
<1>7. RowOf(i) # 0
  <2>1. SUFFICES ASSUME RowOf(i) = 0 PROVE FALSE
    OBVIOUS
  <2>2. WordsPerRow * RowOf(i) = 0
    BY <1>2, <2>1
  <2> QED
    BY <1>2, <1>3, <1>6, <2>2
<1>8. PlaceOf(i) # 0
  <2>1. Phase(p) # 0
    BY GeometryAssumption
  <2> QED
    BY <2>1 DEF Phase, PlaceOf, i
<1>9. RowOf(i) \in 1 .. ROWS - 1 /\ PlaceOf(i) \in 1 .. LastWord
  BY <1>2, <1>6, <1>7, <1>8
<1> QED
  BY <1>3, <1>5, <1>9 DEF i

LEMMA LaterPacket ==
    ASSUME NEW p \in 1 .. PacketsPerReadout - 1, NEW q \in 1 .. PacketsPerReadout - 1, p < q
    PROVE  RowOf(p * PACKET_WORDS) < RowOf(q * PACKET_WORDS)
<1> DEFINE a == p * PACKET_WORDS
           b == q * PACKET_WORDS
<1>1. /\ PacketsPerReadout \in Nat /\ PACKET_WORDS \in Nat /\ HEADER_WORDS \in Nat
      /\ LastWord \in Nat /\ WordsPerRow \in Nat \ {0} /\ WordsPerRow = LastWord + 1
      /\ HEADER_WORDS >= 2 /\ PACKET_WORDS >= HEADER_WORDS + WordsPerRow
  BY Lengths, PacketCount
<1>2. a \in Nat /\ b \in Nat /\ a >= HEADER_WORDS /\ b >= HEADER_WORDS
  BY PacketStart
<1>3. b >= a + PACKET_WORDS
  <2>1. q - p - 1 \in Nat
    BY <1>1
  <2>2. (q - p - 1) * PACKET_WORDS \in Nat /\ (q - p - 1) * PACKET_WORDS = b - a - PACKET_WORDS
    BY <1>1, <2>1
  <2> QED
    BY <1>1, <1>2, <2>2
<1> HIDE DEF a, b
<1>4. /\ RowOf(a) \in Nat /\ PlaceOf(a) \in 0 .. LastWord
      /\ a = HEADER_WORDS + WordsPerRow * RowOf(a) + PlaceOf(a)
      /\ RowOf(b) \in Nat /\ PlaceOf(b) \in 0 .. LastWord
      /\ b = HEADER_WORDS + WordsPerRow * RowOf(b) + PlaceOf(b)
      /\ WordsPerRow * RowOf(a) \in Nat /\ WordsPerRow * RowOf(b) \in Nat
  BY <1>2, PositionIs
<1>5. WordsPerRow * RowOf(b) > WordsPerRow * RowOf(a)
  BY <1>1, <1>2, <1>3, <1>4
<1>6. RowOf(a) < RowOf(b)
  <2>1. PICK u \in Nat, v \in Nat : u = RowOf(a) /\ v = RowOf(b)
    BY <1>4
  <2>2. SUFFICES ASSUME u - v \in Nat PROVE FALSE
    BY <2>1
  <2>3. WordsPerRow * (u - v) \in Nat /\ WordsPerRow * (u - v) = WordsPerRow * u - WordsPerRow * v
    BY <1>1, <2>2
  <2> QED
    BY <1>4, <1>5, <2>1, <2>3
<1> QED
  BY <1>6 DEF a, b

(* The words of a packet are words of the readout, one after the other.    *)
LEMMA PacketWord ==
    ASSUME NEW p \in Packets, NEW i \in 0 .. PacketSize(p) - 1
    PROVE  /\ p.packet \in 0 .. PacketsPerReadout - 1
           /\ p.packet * PACKET_WORDS \in Nat /\ i \in Nat
           /\ p.packet * PACKET_WORDS + i \in 0 .. ReadoutWords - 1
           /\ PacketSize(p) \in Nat /\ PacketSize(p) >= 1
           /\ i + 1 = PacketSize(p) =>
                IF p.packet = PacketsPerReadout - 1
                THEN p.packet * PACKET_WORDS + i + 1 = ReadoutWords
                ELSE p.packet * PACKET_WORDS + i + 1 = (p.packet + 1) * PACKET_WORDS
           /\ i + 1 # PacketSize(p) => p.packet * PACKET_WORDS + i + 1 < ReadoutWords
           /\ p.packet # PacketsPerReadout - 1 =>
                p.packet * PACKET_WORDS + i + 1 < ReadoutWords
<1> DEFINE x == p.packet
           m == PacketsPerReadout
<1>1. x \in 0 .. m - 1
  BY DEF Packets
<1>2. /\ m \in Nat \ {0} /\ (m - 1) * PACKET_WORDS \in Nat
      /\ LastPacketWords \in Nat /\ LastPacketWords >= WordsPerRow
      /\ LastPacketWords <= PACKET_WORDS
      /\ ReadoutWords = (m - 1) * PACKET_WORDS + LastPacketWords
  BY PacketCount
<1>3. PACKET_WORDS \in Nat \ {0} /\ WordsPerRow \in Nat \ {0}
  BY Lengths
<1> HIDE DEF m
<1>4. x * PACKET_WORDS \in Nat /\ (x + 1) * PACKET_WORDS = x * PACKET_WORDS + PACKET_WORDS
  <2> HIDE DEF x
  <2> QED
    BY <1>1, <1>2, <1>3
<1>5. CASE x = m - 1
  <2>1. PacketSize(p) = LastPacketWords
    BY <1>5 DEF PacketSize, x, m
  <2>2. x * PACKET_WORDS = (m - 1) * PACKET_WORDS
    BY <1>5
  <2> HIDE DEF x
  <2>3. i \in 0 .. LastPacketWords - 1
    BY <2>1
  <2>4. /\ PacketSize(p) >= 1 /\ PacketSize(p) \in Nat
        /\ x * PACKET_WORDS + i \in 0 .. ReadoutWords - 1
        /\ i + 1 = PacketSize(p) => x * PACKET_WORDS + i + 1 = ReadoutWords
        /\ i + 1 # PacketSize(p) => x * PACKET_WORDS + i + 1 < ReadoutWords
    BY <1>2, <1>3, <1>4, <2>1, <2>2, <2>3
  <2> QED
    BY <1>1, <1>4, <1>5, <2>3, <2>4 DEF x, m
<1>6. CASE x # m - 1
  <2>1. PacketSize(p) = PACKET_WORDS
    BY <1>6 DEF PacketSize, x, m
  <2> HIDE DEF x
  <2>2. i \in 0 .. PACKET_WORDS - 1
    BY <2>1
  <2>3. m - 2 - x \in Nat
    BY <1>1, <1>2, <1>6
  <2>4. /\ (m - 2 - x) * PACKET_WORDS \in Nat
        /\ (m - 2 - x) * PACKET_WORDS = (m - 1) * PACKET_WORDS - (x * PACKET_WORDS + PACKET_WORDS)
    BY <1>1, <1>2, <1>3, <1>4, <2>3
  <2>5. x * PACKET_WORDS + PACKET_WORDS < ReadoutWords
    BY <1>2, <1>3, <1>4, <2>4
  <2>6. /\ PacketSize(p) >= 1 /\ PacketSize(p) \in Nat
        /\ x * PACKET_WORDS + i \in 0 .. ReadoutWords - 1
        /\ i + 1 = PacketSize(p) => x * PACKET_WORDS + i + 1 = (x + 1) * PACKET_WORDS
        /\ x * PACKET_WORDS + i + 1 < ReadoutWords
    BY <1>2, <1>3, <1>4, <2>1, <2>2, <2>5
  <2> QED
    BY <1>1, <1>4, <1>6, <2>2, <2>6 DEF x, m
<1> QED
  BY <1>5, <1>6

-----------------------------------------------------------------------------
(* The words, and what onEvent makes of a packet's first ones.             *)

LEMMA RowWordIs ==
    ASSUME NEW r \in Nat, NEW k \in 0 .. LastWord
    PROVE  /\ RowWord(r, k).row = r /\ RowWord(r, k).word = k
           /\ RowWord(r, k).type =
                IF k = 0 THEN (IF r = 0 THEN "SOF" ELSE "SOR")
                ELSE IF k < LastWord THEN "MID"
                ELSE IF r = ROWS - 1 THEN "EOF" ELSE "EOR"
BY DEF RowWord

LEMMA InfoWordIs ==
    ASSUME NEW i \in 0 .. HEADER_WORDS - 1
    PROVE  InfoWord(i).type = IF i = 0 THEN "INFO_SOF"
                              ELSE IF i = HEADER_WORDS - 1 THEN "INFO_EOF" ELSE "INFO_MID"
BY DEF InfoWord

LEMMA ReadoutWordIs ==
    ASSUME NEW i \in Nat
    PROVE  /\ i < HEADER_WORDS => ReadoutWord(i) = InfoWord(i)
           /\ i >= HEADER_WORDS => ReadoutWord(i) = RowWord(RowOf(i), PlaceOf(i))
<1>1. HEADER_WORDS \in Nat
  BY Lengths
<1> QED
  BY <1>1 DEF ReadoutWord, RowOf, PlaceOf

(* The words of the row a packet begins in. *)
LEMMA RestOfRow ==
    ASSUME NEW x \in 1 .. PacketsPerReadout - 1,
           NEW n \in 0 .. LastWord - PlaceOf(x * PACKET_WORDS)
    PROVE  ReadoutWord(x * PACKET_WORDS + n)
             = RowWord(RowOf(x * PACKET_WORDS), PlaceOf(x * PACKET_WORDS) + n)
<1> DEFINE i == x * PACKET_WORDS
           r == RowOf(i)
           k == PlaceOf(i)
<1>1. /\ i \in Nat /\ i >= HEADER_WORDS /\ r \in 1 .. ROWS - 1 /\ k \in 1 .. LastWord
  BY PacketStart
<1>2. i = HEADER_WORDS + WordsPerRow * r + k /\ WordsPerRow * r \in Nat /\ r \in Nat
  BY <1>1, PositionIs
<1>3. LastWord \in Nat /\ HEADER_WORDS \in Nat
  BY Lengths
<1>4. n \in 0 .. LastWord - k
  OBVIOUS
<1> HIDE DEF i, r, k
<1>5. /\ i + n \in Nat /\ k + n \in 0 .. LastWord
      /\ i + n = HEADER_WORDS + WordsPerRow * r + (k + n)
  BY <1>1, <1>2, <1>3, <1>4
<1>6. i + n >= HEADER_WORDS /\ RowOf(i + n) = r /\ PlaceOf(i + n) = k + n
  BY <1>2, <1>5, PositionUnique
<1>7. ReadoutWord(i + n) = RowWord(r, k + n)
  BY <1>5, <1>6, ReadoutWordIs
<1> QED
  BY <1>7 DEF i, r, k

(* A readout's first packet begins with the header. *)
LEMMA HeaderStart ==
    ASSUME NEW p \in Packets, p.packet = 0
    PROVE  /\ WordOf(p, 0).type = "INFO_SOF"
           /\ opensFrame(WordOf(p, 0)) /\ ~ StartsWithRow(p)
<1>1. HEADER_WORDS \in Nat /\ HEADER_WORDS >= 2 /\ PACKET_WORDS \in Nat
  BY Lengths
<1>2. p.packet * PACKET_WORDS + 0 = 0
  <2>1. 0 * PACKET_WORDS = 0
    BY <1>1
  <2> QED
    BY <2>1
<1>3. WordOf(p, 0) = InfoWord(0)
  BY <1>1, <1>2, ReadoutWordIs DEF WordOf
<1>4. InfoWord(0).type = "INFO_SOF"
  BY <1>1, InfoWordIs
<1> QED
  BY <1>3, <1>4 DEF opensFrame, StartsWithRow

(* The others begin within a row, and the first word that is not one of    *)
(* the middle of a row is that row's last.                                 *)
LEMMA LaterStart ==
    ASSUME NEW p \in Packets, p.packet # 0
    PROVE  /\ p.packet \in 1 .. PacketsPerReadout - 1
           /\ WordOf(p, 0).type # "INFO_SOF" /\ ~ opensFrame(WordOf(p, 0))
           /\ ~ StartsWithRow(p)
           /\ firstSpecial(p) = LastWord - PlaceOf(p.packet * PACKET_WORDS)
           /\ WordOf(p, firstSpecial(p)).row = RowOf(p.packet * PACKET_WORDS)
<1> DEFINE x == p.packet
           i == x * PACKET_WORDS
           k == PlaceOf(i)
           r == RowOf(i)
<1>1. x \in 1 .. PacketsPerReadout - 1
  BY PacketCount DEF Packets
<1>2. /\ i \in Nat /\ i >= HEADER_WORDS /\ r \in 1 .. ROWS - 1 /\ k \in 1 .. LastWord
      /\ i + WordsPerRow <= ReadoutWords
  BY <1>1, PacketStart
<1>3. LastWord \in Nat \ {0} /\ WordsPerRow = LastWord + 1 /\ ROWS \in Nat
  BY Lengths
<1>4. \A n \in 0 .. LastWord - k : WordOf(p, n) = RowWord(r, k + n)
  BY <1>1, RestOfRow DEF WordOf
<1>5. LastWord - k \in 0 .. PacketSize(p) - 1
  <2>1. PacketSize(p) \in Nat /\ PacketSize(p) >= WordsPerRow
    <3>1. LastPacketWords \in Nat /\ LastPacketWords >= WordsPerRow
      BY PacketCount
    <3>2. PACKET_WORDS \in Nat /\ PACKET_WORDS >= WordsPerRow
      BY Lengths
    <3> QED
      BY <3>1, <3>2 DEF PacketSize
  <2> HIDE DEF k
  <2> QED
    BY <1>2, <1>3, <2>1
<1> HIDE DEF x, i, k, r
<1>6. \A n \in 0 .. LastWord - k :
          /\ WordOf(p, n).row = r
          /\ n < LastWord - k => WordOf(p, n).type = "MID"
          /\ n = LastWord - k => WordOf(p, n).type \in {"EOF", "EOR"}
  <2>1. SUFFICES ASSUME NEW n \in 0 .. LastWord - k
                 PROVE  /\ WordOf(p, n).row = r
                        /\ n < LastWord - k => WordOf(p, n).type = "MID"
                        /\ n = LastWord - k => WordOf(p, n).type \in {"EOF", "EOR"}
    OBVIOUS
  <2>2. k + n \in 1 .. LastWord /\ r \in Nat /\ (n < LastWord - k <=> k + n < LastWord)
    BY <1>2, <1>3
  <2>3. WordOf(p, n) = RowWord(r, k + n)
    BY <1>4
  <2> QED
    BY <2>2, <2>3, RowWordIs
<1>7. /\ WordOf(p, 0).type \in {"MID", "EOF", "EOR"}
  <2>1. 0 \in 0 .. LastWord - k
    BY <1>2, <1>3
  <2> QED
    BY <1>2, <1>3, <1>6, <2>1
<1>8. firstSpecial(p) = LastWord - k
  <2> DEFINE Special(n) == /\ WordOf(p, n).type # "MID"
                           /\ \A m \in 0 .. n - 1 : WordOf(p, m).type = "MID"
  <2>1. Special(LastWord - k)
    BY <1>2, <1>3, <1>6
  <2>2. ASSUME NEW n \in 0 .. PacketSize(p) - 1, Special(n) PROVE n = LastWord - k
    <3>1. ~ n < LastWord - k
      BY <1>2, <1>3, <1>6, <2>2
    <3>2. ~ LastWord - k < n
      <4>1. SUFFICES ASSUME LastWord - k < n PROVE FALSE
        OBVIOUS
      <4>2. LastWord - k \in 0 .. n - 1
        BY <1>2, <1>3, <4>1
      <4> QED
        BY <2>1, <2>2, <4>2
    <3> QED
      BY <1>2, <1>3, <3>1, <3>2
  <2>3. firstSpecial(p) = CHOOSE n \in 0 .. PacketSize(p) - 1 : Special(n)
    BY DEF firstSpecial
  <2> HIDE DEF Special
  <2> QED
    BY <1>5, <2>1, <2>2, <2>3
<1>9. WordOf(p, firstSpecial(p)).row = r
  <2>1. LastWord - k \in 0 .. LastWord - k
    BY <1>2, <1>3
  <2> QED
    BY <1>6, <1>8, <2>1
<1> QED
  BY <1>1, <1>7, <1>8, <1>9 DEF opensFrame, StartsWithRow, x, i, k, r

(* The words left of the row in progress, when x is the packet that is due. *)
LEMMA EorIndexIs ==
    ASSUME NEW k \in 0 .. LastWord, endCursor = LastWord * PIXELS_PER_WORD,
           cursor = k * PIXELS_PER_WORD
    PROVE  eorIndex = LastWord - k
<1>1. PIXELS_PER_WORD \in Nat \ {0} /\ LastWord \in Nat /\ LastWord - k \in Nat /\ k \in Nat
  BY Lengths
<1>2. /\ endCursor - cursor = PIXELS_PER_WORD * (LastWord - k) + 0
      /\ endCursor \in Int /\ cursor \in Int
  BY <1>1
<1>3. 0 \in 0 .. PIXELS_PER_WORD - 1 /\ PIXELS_PER_WORD * (LastWord - k) \in Nat
  BY <1>1
<1>4. ~ cursor > endCursor
  BY <1>2, <1>3
<1>5. (endCursor - cursor) \div PIXELS_PER_WORD = LastWord - k
  BY <1>1, <1>2, <1>3, DivisionUnique
<1> QED
  BY <1>4, <1>5 DEF eorIndex

(* Within a frame, a loss is noticed by every packet but the one that is   *)
(* due: only that one has the row's last word at the expected place.       *)
LEMMA LossSeen ==
    ASSUME NEW p \in Packets, NEW x \in 1 .. PacketsPerReadout - 1,
           row_counter >= 0, endCursor = LastWord * PIXELS_PER_WORD,
           cursor = PlaceOf(x * PACKET_WORDS) * PIXELS_PER_WORD
    PROVE  packetLoss(p) <=> p.packet # x
<1> DEFINE k == PlaceOf(x * PACKET_WORDS)
           w == WordOf(p, LastWord - k)
<1>1. k \in 1 .. LastWord
  BY PacketStart
<1>2. LastWord \in Nat \ {0} /\ HEADER_WORDS \in Nat /\ WordsPerRow \in Nat
      /\ WordsPerRow = LastWord + 1 /\ PACKET_WORDS \in Nat
  BY Lengths
<1>3. packetLoss(p) <=> ~ packetEndsRow(w)
  <2>1. eorIndex = LastWord - k
    BY <1>1, <1>2, EorIndexIs
  <2> QED
    BY <2>1 DEF packetLoss
<1> HIDE DEF k
<1>4. CASE p.packet = 0
  <2>1. p.packet * PACKET_WORDS + (LastWord - k) = LastWord - k /\ LastWord - k \in 0 .. LastWord - 1
    <3>1. 0 * PACKET_WORDS = 0
      BY <1>2
    <3> QED
      BY <1>1, <1>2, <1>4, <3>1
  <2>2. w = ReadoutWord(LastWord - k)
    BY <2>1 DEF WordOf
  <2>3. CASE LastWord - k < HEADER_WORDS
    <3>1. LastWord - k \in 0 .. HEADER_WORDS - 1 /\ LastWord - k \in Nat
      BY <1>2, <2>1, <2>3
    <3>2. w = InfoWord(LastWord - k)
      BY <2>2, <2>3, <3>1, ReadoutWordIs
    <3>3. w.type \notin {"EOR", "EOF"}
      BY <3>1, <3>2, InfoWordIs
    <3> QED
      BY <1>3, <1>4, <3>3 DEF packetEndsRow
  <2>4. CASE LastWord - k >= HEADER_WORDS
    <3>1. PICK n \in 0 .. LastWord - 1 : n = LastWord - k - HEADER_WORDS
      BY <1>1, <1>2, <2>1, <2>4
    <3>2. /\ LastWord - k \in Nat /\ n \in 0 .. LastWord /\ 0 \in Nat
          /\ LastWord - k = HEADER_WORDS + WordsPerRow * 0 + n
      BY <1>1, <1>2, <3>1
    <3>3. RowOf(LastWord - k) = 0 /\ PlaceOf(LastWord - k) = n
      BY <3>2, PositionUnique
    <3>4. w = RowWord(0, n)
      BY <2>2, <2>4, <3>2, <3>3, ReadoutWordIs
    <3>5. w.type \notin {"EOR", "EOF"}
      BY <1>2, <3>1, <3>2, <3>4, RowWordIs
    <3> QED
      BY <1>3, <1>4, <3>5 DEF packetEndsRow
  <2> QED
    BY <1>1, <1>2, <2>3, <2>4
<1>5. CASE p.packet # 0
  <2> DEFINE y == p.packet
             l == PlaceOf(y * PACKET_WORDS)
             r == RowOf(y * PACKET_WORDS)
  <2>1. y \in 1 .. PacketsPerReadout - 1
    BY <1>5, PacketCount DEF Packets
  <2>2. l \in 1 .. LastWord /\ r \in 1 .. ROWS - 1 /\ ROWS \in Nat
    BY <2>1, PacketStart, Lengths
  <2>3. y # x => l # k
    BY <2>1, GeometryAssumption DEF Phase, PlaceOf, k
  <2>4. y = x => l = k
    BY DEF k
  <2>5. w = ReadoutWord(y * PACKET_WORDS + (LastWord - k))
    BY DEF WordOf
  <2>6. \A n \in 0 .. LastWord - l : ReadoutWord(y * PACKET_WORDS + n) = RowWord(r, l + n)
    BY <2>1, RestOfRow
  <2>7. /\ y * PACKET_WORDS \in Nat
        /\ y * PACKET_WORDS = HEADER_WORDS + WordsPerRow * r + l
    BY <2>1, PacketStart, PositionIs
  <2> HIDE DEF y, l, r
  <2>8. CASE l <= k
    <3>1. LastWord - k \in 0 .. LastWord - l /\ l + (LastWord - k) \in 1 .. LastWord
      BY <1>1, <1>2, <2>2, <2>8
    <3>2. w = RowWord(r, l + (LastWord - k))
      BY <2>5, <2>6, <3>1
    <3>3. w.type \in {"EOR", "EOF"} <=> l + (LastWord - k) = LastWord
      BY <1>2, <2>2, <3>1, <3>2, RowWordIs
    <3>4. w.type \in {"EOR", "EOF"} <=> l = k
      BY <1>1, <1>2, <2>2, <3>3
    <3> QED
      BY <1>3, <2>3, <2>4, <3>4 DEF packetEndsRow, y
  <2>9. CASE l > k
    <3>1. PICK n \in 0 .. LastWord - 1 : n = l - k - 1
      BY <1>1, <1>2, <2>2, <2>9
    <3>2. r \in Nat /\ r + 1 \in Nat /\ WordsPerRow * r \in Nat
      BY <1>2, <2>2
    <3>3. WordsPerRow * (r + 1) = WordsPerRow * r + WordsPerRow
      BY <1>2, <3>2
    <3>4. /\ y * PACKET_WORDS + (LastWord - k) \in Nat /\ n \in 0 .. LastWord
          /\ y * PACKET_WORDS + (LastWord - k) = HEADER_WORDS + WordsPerRow * (r + 1) + n
      BY <1>1, <1>2, <2>2, <2>7, <3>1, <3>2, <3>3
    <3>5. w = RowWord(r + 1, n)
      BY <2>5, <3>2, <3>4, PositionUnique, ReadoutWordIs
    <3>6. w.type \notin {"EOR", "EOF"}
      BY <1>2, <3>1, <3>2, <3>4, <3>5, RowWordIs
    <3>7. l # k
      BY <1>1, <1>2, <2>2, <2>9
    <3> QED
      BY <1>3, <2>4, <3>6, <3>7 DEF packetEndsRow, y
  <2> QED
    BY <1>1, <1>2, <2>2, <2>8, <2>9
<1> QED
  BY <1>4, <1>5

-----------------------------------------------------------------------------
(* The inductive invariant.  It is about the word that is due next: the    *)
(* next one of the packet in onEvent, or the first one of the packet that  *)
(* follows the last that arrived, whether or not that one got lost.        *)

(* The readout before. *)
Before(n) == IF n = 0 THEN READOUTS - 1 ELSE n - 1

Due == IF pc # NULL THEN pc
       ELSE IF burst <= toSend.packet
       THEN [readout |-> toSend.readout, packet |-> toSend.packet - burst]
       ELSE [readout |-> Before(toSend.readout),
             packet |-> toSend.packet - burst + PacketsPerReadout]
At == Due.packet * PACKET_WORDS + j

(* The network is one packet ahead of onEvent. *)
NetInv ==
    /\ mode \in {0, 1, 4}
    /\ toSend \in Packets /\ burst \in 0 .. MAX_BURST
    /\ pc = NULL => j = 0
    /\ pc # NULL => /\ pc \in Packets /\ j \in 0 .. PacketSize(pc) - 1
                    /\ toSend = Following(pc) /\ burst = 0

(* While the header is due there is no frame.  endCursor has its first     *)
(* value until the first header was read, and nothing is lost before.      *)
HeaderInv == At < HEADER_WORDS =>
    /\ frame = NULL
    /\ pc = NULL => row_counter = -1
    /\ endCursor # COLUMNS => endCursor = LastWord * PIXELS_PER_WORD
    /\ endCursor = COLUMNS => burst = 0

(* While a row's word is due, the frame has everything before that word,   *)
(* stored or counted as lost, and onEvent's variables point at its place.  *)
RowsInv == At >= HEADER_WORDS =>
    /\ frame \in Frames
    /\ endCursor = LastWord * PIXELS_PER_WORD
    /\ frame.readouts \subseteq {Due.readout}
    /\ pc = NULL \/ (j > 0 /\ At > HEADER_WORDS) => frame.readouts = {Due.readout}
    /\ frame.placed = TRUE
    /\ frame.filled + Lost(frame) = RowOf(At) * COLUMNS + PlaceOf(At) * PIXELS_PER_WORD
    /\ PlaceOf(At) = 0 /\ RowOf(At) > 0 => row_counter = RowOf(At) - 1
    /\ PlaceOf(At) > 0 => /\ row_counter = RowOf(At) /\ row = RowOf(At)
                          /\ cursor = PlaceOf(At) * PIXELS_PER_WORD

(* What was handed over last is of the readout before the one that is due. *)
DeliveredInv ==
    IF delivered = NULL THEN Due.readout = 0
    ELSE /\ delivered \in Frames
         /\ delivered.readouts = {Before(Due.readout)}
         /\ delivered.placed = TRUE
         /\ Lost(delivered) = (ROWS * COLUMNS - delivered.filled)
                                     + IF delivered.ended = "cut" THEN COLUMNS ELSE 0

AsmInv == NetInv /\ failed = 0 /\ HeaderInv /\ RowsInv /\ DeliveredInv

-----------------------------------------------------------------------------
(* The network.                                                            *)

LEMMA NextReadout ==
    ASSUME NEW n \in Readouts
    PROVE  /\ 0 \in Readouts /\ (n + 1) % READOUTS \in Readouts /\ Before(n) \in Readouts
           /\ Before((n + 1) % READOUTS) = n /\ (Before(n) + 1) % READOUTS = n
<1>1. READOUTS \in Nat \ {0} /\ READOUTS >= 3 /\ Readouts = 0 .. READOUTS - 1
  BY LossAssumption DEF Readouts
<1>2. \A m \in Readouts : (m + 1) % READOUTS = IF m = READOUTS - 1 THEN 0 ELSE m + 1
  <2>1. SUFFICES ASSUME NEW m \in Readouts
                 PROVE  (m + 1) % READOUTS = IF m = READOUTS - 1 THEN 0 ELSE m + 1
    OBVIOUS
  <2>2. CASE m = READOUTS - 1
    <3>1. m + 1 = READOUTS * 1 + 0 /\ 0 \in 0 .. READOUTS - 1 /\ 1 \in Nat
      BY <1>1, <2>2
    <3>2. (READOUTS * 1 + 0) % READOUTS = 0
      BY <1>1, <3>1, DivisionUnique
    <3> QED
      BY <2>2, <3>1, <3>2
  <2>3. CASE m # READOUTS - 1
    <3>1. m + 1 = READOUTS * 0 + (m + 1) /\ m + 1 \in 0 .. READOUTS - 1 /\ 0 \in Nat
      BY <1>1, <2>3
    <3>2. (READOUTS * 0 + (m + 1)) % READOUTS = m + 1
      BY <1>1, <3>1, DivisionUnique
    <3> QED
      BY <2>3, <3>1, <3>2
  <2> QED
    BY <2>2, <2>3
<1>3. 0 \in Readouts /\ Before(n) \in Readouts
  BY <1>1 DEF Before
<1>4. (n + 1) % READOUTS \in Readouts /\ Before((n + 1) % READOUTS) = n
  BY <1>1, <1>2 DEF Before
<1>5. (Before(n) + 1) % READOUTS = n
  BY <1>1, <1>2, <1>3 DEF Before
<1> QED
  BY <1>3, <1>4, <1>5

LEMMA PacketIs ==
    ASSUME NEW p \in Packets
    PROVE  /\ p.readout \in Readouts /\ p.packet \in 0 .. PacketsPerReadout - 1
           /\ p # NULL /\ PacketSize(p) \in Nat /\ PacketSize(p) >= 1
<1>1. /\ LastPacketWords \in Nat /\ LastPacketWords >= WordsPerRow
      /\ WordsPerRow \in Nat \ {0} /\ PACKET_WORDS \in Nat \ {0}
  BY PacketCount, Lengths
<1>2. PacketSize(p) \in Nat /\ PacketSize(p) >= 1
  BY <1>1 DEF PacketSize
<1> QED
  BY <1>2, NullAssumption DEF Packets

LEMMA FollowingIs ==
    ASSUME NEW p \in Packets
    PROVE  /\ Following(p) \in Packets
           /\ p.packet < PacketsPerReadout - 1 =>
                /\ Following(p).readout = p.readout /\ Following(p).packet = p.packet + 1
           /\ p.packet = PacketsPerReadout - 1 =>
                /\ Following(p).readout = (p.readout + 1) % READOUTS
                /\ Following(p).packet = 0
<1>1. p.readout \in Readouts /\ p.packet \in 0 .. PacketsPerReadout - 1
  BY PacketIs
<1>2. PacketsPerReadout \in Nat \ {0} /\ 0 \in 0 .. PacketsPerReadout - 1
  BY PacketCount
<1>3. CASE p.packet < PacketsPerReadout - 1
  <2>1. Following(p) = [p EXCEPT !.packet = p.packet + 1]
    BY <1>3 DEF Following
  <2>2. p.packet + 1 \in 0 .. PacketsPerReadout - 1
    BY <1>1, <1>2, <1>3
  <2> QED
    BY <1>1, <1>2, <1>3, <2>1, <2>2 DEF Packets
<1>4. CASE p.packet = PacketsPerReadout - 1
  <2>1. Following(p) = [readout |-> (p.readout + 1) % READOUTS, packet |-> 0]
    BY <1>2, <1>4 DEF Following
  <2>2. (p.readout + 1) % READOUTS \in Readouts
    BY <1>1, NextReadout
  <2> QED
    BY <1>1, <1>2, <1>4, <2>1, <2>2 DEF Packets
<1> QED
  BY <1>1, <1>2, <1>3, <1>4

(* The packet that is due is one of the burst that was lost, or the next.  *)
LEMMA DueIs ==
    ASSUME NetInv
    PROVE  /\ Due \in Packets /\ j \in 0 .. PacketSize(Due) - 1
           /\ At \in 0 .. ReadoutWords - 1
           /\ pc # NULL => Due = pc
           /\ pc = NULL => /\ j = 0 /\ At = Due.packet * PACKET_WORDS
                           /\ burst <= toSend.packet =>
                                /\ Due.readout = toSend.readout
                                /\ Due.packet = toSend.packet - burst
                           /\ burst > toSend.packet =>
                                /\ Due.readout = Before(toSend.readout)
                                /\ Due.packet = toSend.packet - burst + PacketsPerReadout
                                /\ Due.packet > toSend.packet
<1>1. /\ toSend.readout \in Readouts /\ toSend.packet \in 0 .. PacketsPerReadout - 1
      /\ burst \in 0 .. MAX_BURST
  BY PacketIs DEF NetInv
<1>2. PacketsPerReadout \in Nat \ {0} /\ MAX_BURST \in 0 .. PacketsPerReadout - 1
  BY PacketCount, LossAssumption
<1>3. ASSUME pc # NULL
      PROVE  Due = pc /\ Due \in Packets /\ j \in 0 .. PacketSize(Due) - 1
  BY <1>3 DEF NetInv, Due
<1>4. ASSUME pc = NULL
      PROVE  /\ Due \in Packets /\ j = 0
             /\ burst <= toSend.packet => /\ Due.readout = toSend.readout
                                          /\ Due.packet = toSend.packet - burst
             /\ burst > toSend.packet => /\ Due.readout = Before(toSend.readout)
                                         /\ Due.packet = toSend.packet - burst + PacketsPerReadout
                                         /\ Due.packet > toSend.packet
  <2>1. j = 0
    BY <1>4 DEF NetInv
  <2>2. CASE burst <= toSend.packet
    <3>1. Due = [readout |-> toSend.readout, packet |-> toSend.packet - burst]
      BY <1>4, <2>2 DEF Due
    <3>2. toSend.packet - burst \in 0 .. PacketsPerReadout - 1
      BY <1>1, <1>2, <2>2
    <3> QED
      BY <1>1, <1>2, <2>1, <2>2, <3>1, <3>2 DEF Packets
  <2>3. CASE burst > toSend.packet
    <3>1. Due = [readout |-> Before(toSend.readout),
                 packet |-> toSend.packet - burst + PacketsPerReadout]
      BY <1>1, <1>2, <1>4, <2>3 DEF Due
    <3>2. /\ toSend.packet - burst + PacketsPerReadout \in 0 .. PacketsPerReadout - 1
          /\ toSend.packet - burst + PacketsPerReadout > toSend.packet
      BY <1>1, <1>2, <2>3
    <3>3. Before(toSend.readout) \in Readouts
      BY <1>1, NextReadout
    <3> QED
      BY <1>1, <1>2, <2>1, <2>3, <3>1, <3>2, <3>3 DEF Packets
  <2> QED
    BY <1>1, <1>2, <2>1, <2>2, <2>3
<1>5. Due \in Packets /\ j \in 0 .. PacketSize(Due) - 1
  BY <1>3, <1>4, PacketIs
<1>6. At \in 0 .. ReadoutWords - 1
  BY <1>5, PacketWord DEF At
<1>7. ASSUME pc = NULL PROVE At = Due.packet * PACKET_WORDS
  BY <1>4, <1>5, <1>7, PacketWord DEF At
<1> QED
  BY <1>3, <1>4, <1>5, <1>6, <1>7

(* Only a readout's first packet begins in the header. *)
LEMMA DueInHeader ==
    ASSUME NEW p \in Packets
    PROVE  /\ p.packet = 0 <=> p.packet * PACKET_WORDS < HEADER_WORDS
           /\ p.packet = 0 => p.packet * PACKET_WORDS = 0
           /\ p.packet # 0 => /\ p.packet \in 1 .. PacketsPerReadout - 1
                              /\ p.packet * PACKET_WORDS >= HEADER_WORDS
<1>1. HEADER_WORDS \in Nat /\ HEADER_WORDS >= 2 /\ PACKET_WORDS \in Nat
  BY Lengths
<1>2. p.packet = 0 => p.packet * PACKET_WORDS = 0
  <2>1. 0 * PACKET_WORDS = 0
    BY <1>1
  <2> QED
    BY <2>1
<1>3. ASSUME p.packet # 0
      PROVE  /\ p.packet \in 1 .. PacketsPerReadout - 1
             /\ p.packet * PACKET_WORDS >= HEADER_WORDS /\ p.packet * PACKET_WORDS \in Nat
  BY <1>3, PacketIs, PacketCount, PacketStart
<1> QED
  BY <1>1, <1>2, <1>3

-----------------------------------------------------------------------------
(* The beginning, and a loss.                                              *)

LEMMA InitAsm == ASSUME Init PROVE AsmInv
<1>1. /\ PacketsPerReadout \in Nat \ {0} /\ HEADER_WORDS \in Nat /\ HEADER_WORDS >= 2
      /\ PACKET_WORDS \in Nat /\ 0 \in Readouts
  BY PacketCount, Lengths, LossAssumption DEF Readouts
<1>2. /\ mode = 0 /\ toSend = [readout |-> 0, packet |-> 0]
      /\ burst = 0 /\ pc = NULL /\ j = 0 /\ row_counter = -1 /\ endCursor = COLUMNS
      /\ frame = NULL /\ delivered = NULL /\ failed = 0
  BY DEF Init
<1>3. toSend \in Packets /\ toSend.packet = 0 /\ toSend.readout = 0
  BY <1>1, <1>2 DEF Packets
<1>4. NetInv
  BY <1>1, <1>2, <1>3, LossAssumption DEF NetInv
<1>5. Due.packet = 0 /\ Due.readout = 0
  BY <1>2, <1>3, <1>4, DueIs
<1>6. At = 0
  BY <1>1, <1>2, <1>4, <1>5, DueIs, DueInHeader
<1>7. HeaderInv /\ RowsInv
  BY <1>1, <1>2, <1>6 DEF HeaderInv, RowsInv
<1>8. DeliveredInv
  BY <1>2, <1>5 DEF DeliveredInv
<1> QED
  BY <1>2, <1>4, <1>7, <1>8 DEF AsmInv

(* A lost packet leaves the same word due. *)
LEMMA LoseDue ==
    ASSUME NetInv, LosePacket
    PROVE  NetInv' /\ Due' = Due /\ At' = At
<1> DEFINE n == toSend.readout
           x == toSend.packet
<1>1. /\ toSend \in Packets /\ n \in Readouts /\ x \in 0 .. PacketsPerReadout - 1
      /\ burst \in 0 .. MAX_BURST /\ burst < MAX_BURST
  BY PacketIs DEF NetInv, LosePacket
<1>2. PacketsPerReadout \in Nat \ {0} /\ MAX_BURST \in 0 .. PacketsPerReadout - 1
  BY PacketCount, LossAssumption
<1>3. /\ pc = NULL /\ pc' = NULL /\ j' = j /\ burst' = burst + 1
      /\ toSend' = Following(toSend) /\ mode' = mode
  BY DEF LosePacket, asmVars
<1>4. NetInv'
  BY <1>1, <1>2, <1>3, FollowingIs DEF NetInv
<1>5. Due' = IF burst + 1 <= toSend'.packet
             THEN [readout |-> toSend'.readout, packet |-> toSend'.packet - (burst + 1)]
             ELSE [readout |-> Before(toSend'.readout),
                   packet |-> toSend'.packet - (burst + 1) + PacketsPerReadout]
  BY <1>3 DEF Due
<1>6. Due = IF burst <= x THEN [readout |-> n, packet |-> x - burst]
            ELSE [readout |-> Before(n), packet |-> x - burst + PacketsPerReadout]
  BY <1>3 DEF Due
<1>7. CASE x < PacketsPerReadout - 1
  <2>1. toSend'.packet = x + 1 /\ toSend'.readout = n
    BY <1>1, <1>3, <1>7, FollowingIs
  <2> HIDE DEF x, n
  <2>2. Due' = Due
    BY <1>1, <1>2, <1>5, <1>6, <2>1
  <2> QED
    BY <1>3, <1>4, <2>2 DEF At
<1>8. CASE x = PacketsPerReadout - 1
  <2>1. toSend'.packet = 0 /\ Before(toSend'.readout) = n
    BY <1>1, <1>3, <1>8, FollowingIs, NextReadout
  <2> HIDE DEF x, n
  <2>2. Due' = Due
    BY <1>1, <1>2, <1>5, <1>6, <1>8, <2>1
  <2> QED
    BY <1>3, <1>4, <2>2 DEF At
<1> QED
  BY <1>1, <1>2, <1>7, <1>8

LEMMA LoseAsm ==
    ASSUME AsmInv, HEARD_FROM_START, LosePacket
    PROVE  AsmInv'
<1>1. NetInv' /\ Due' = Due /\ At' = At
  BY LoseDue DEF AsmInv
<1>2. /\ endCursor # COLUMNS /\ pc = NULL /\ UNCHANGED <<pc, j, asmVars, delivered, failed>>
  BY DEF LosePacket
<1>3. /\ HeaderInv /\ RowsInv /\ DeliveredInv /\ failed = 0
  BY DEF AsmInv
<1>4. HeaderInv'
  BY <1>1, <1>2, <1>3 DEF HeaderInv, asmVars
<1>5. RowsInv'
  BY <1>1, <1>2, <1>3 DEF RowsInv, asmVars
<1>6. DeliveredInv'
  BY <1>1, <1>2, <1>3 DEF DeliveredInv
<1> QED
  BY <1>1, <1>2, <1>3, <1>4, <1>5, <1>6 DEF AsmInv

-----------------------------------------------------------------------------
(* A packet arrives.                                                       *)

LEMMA FrameIs ==
    ASSUME NEW f \in Frames
    PROVE  /\ f # NULL /\ f.readouts \in SUBSET Readouts /\ f.placed \in BOOLEAN
           /\ f.filled \in Int /\ Lost(f) \in Int
           /\ f.mode \in {0, 1, 4} /\ f.ended \in {"no", "cut", "EOF"}
<1>1. f.came.pixelsLost \in Int /\ f.pixelsLost \in Int
  BY OldCountsAssumption DEF Frames, Came
<1> QED
  BY <1>1, NullAssumption DEF Frames, Lost

LEMMA NewFrameIs ==
    ASSUME NEW m \in {0, 1, 4}, NEW came \in Came
    PROVE  /\ NewFrame(m, came) \in Frames /\ NewFrame(m, came).readouts = {}
           /\ NewFrame(m, came).placed = TRUE
           /\ NewFrame(m, came).filled = 0 /\ Lost(NewFrame(m, came)) = 0
<1>1. came.pixelsLost \in Int
  BY OldCountsAssumption DEF Came
<1> QED
  BY <1>1 DEF NewFrame, Frames, Lost

(* Pixels are counted as lost on top of the count that the frame came with. *)
LEMMA CountedLost ==
    ASSUME NEW f \in Frames, NEW n \in Int, NEW g, g.came = f.came,
           g.pixelsLost = f.pixelsLost + n
    PROVE  Lost(g) = Lost(f) + n
<1>1. f.came.pixelsLost \in Int /\ f.pixelsLost \in Int
  BY OldCountsAssumption DEF Frames, Came
<1> QED
  BY <1>1 DEF Lost

(* The packet that arrives is due then. *)
LEMMA ArriveDue ==
    ASSUME NetInv, onEvent
    PROVE  /\ pc' = toSend /\ pc' # NULL /\ j' = 0 /\ burst' = 0
           /\ Due' = toSend /\ At' = toSend.packet * PACKET_WORDS
           /\ mode' \in {0, 1, 4} => NetInv'
<1>1. toSend \in Packets
  BY DEF NetInv
<1>2. /\ pc' = toSend /\ j' = 0 /\ burst' = 0 /\ toSend' = Following(toSend)
  BY DEF onEvent
<1>3. /\ pc' # NULL /\ toSend.packet * PACKET_WORDS \in Nat
      /\ PacketSize(toSend) \in Nat /\ 0 \in 0 .. PacketSize(toSend) - 1
  <2>1. /\ pc' # NULL /\ PacketSize(toSend) \in Nat /\ 0 \in 0 .. PacketSize(toSend) - 1
    BY <1>1, <1>2, PacketIs
  <2> QED
    BY <1>1, <2>1, PacketWord
<1>4. Due' = toSend
  BY <1>2, <1>3 DEF Due
<1>5. At' = toSend.packet * PACKET_WORDS
  BY <1>2, <1>3, <1>4 DEF At
<1>6. ASSUME mode' \in {0, 1, 4} PROVE NetInv'
  <2>1. Following(toSend) \in Packets /\ 0 \in 0 .. MAX_BURST
    BY <1>1, FollowingIs, LossAssumption
  <2> QED
    BY <1>1, <1>2, <1>3, <1>6, <2>1 DEF NetInv
<1> QED
  BY <1>2, <1>3, <1>4, <1>5, <1>6

(* Where a packet that begins within a row says it is. *)
LEMMA FoundPlace ==
    ASSUME NEW p \in Packets, p.packet # 0, endCursor = LastWord * PIXELS_PER_WORD
    PROVE  /\ next_row(p) = RowOf(p.packet * PACKET_WORDS)
           /\ next_row(p) \in 1 .. ROWS - 1
           /\ next_cursor(p) = PlaceOf(p.packet * PACKET_WORDS) * PIXELS_PER_WORD
           /\ next_cursor(p) \in 1 .. COLUMNS - 1
           /\ missing(p) = COLUMNS - cursor /\ ~ StartsFirstRow(p)
           /\ RecoveryFails(p) = 0
<1> DEFINE k == PlaceOf(p.packet * PACKET_WORDS)
<1>1. /\ p.packet \in 1 .. PacketsPerReadout - 1 /\ ~ StartsWithRow(p)
      /\ firstSpecial(p) = LastWord - k
      /\ WordOf(p, firstSpecial(p)).row = RowOf(p.packet * PACKET_WORDS)
  BY LaterStart
<1>2. k \in 1 .. LastWord /\ RowOf(p.packet * PACKET_WORDS) \in 1 .. ROWS - 1
  BY <1>1, PacketStart
<1>3. /\ next_row(p) = RowOf(p.packet * PACKET_WORDS) /\ next_row(p) \in 1 .. ROWS - 1
  BY <1>1, <1>2 DEF next_row
<1>4. next_cursor(p) = endCursor - (LastWord - k) * PIXELS_PER_WORD
  BY <1>1 DEF next_cursor
<1>5. /\ PIXELS_PER_WORD \in Nat \ {0} /\ LastWord \in Nat /\ COLUMNS \in Nat
      /\ LastWord * PIXELS_PER_WORD \in Nat /\ LastWord * PIXELS_PER_WORD < COLUMNS
  BY Lengths, RowLength
<1> HIDE DEF k
<1>6. /\ (LastWord - k) * PIXELS_PER_WORD = LastWord * PIXELS_PER_WORD - k * PIXELS_PER_WORD
      /\ k * PIXELS_PER_WORD \in Nat /\ (k - 1) * PIXELS_PER_WORD \in Nat
      /\ (k - 1) * PIXELS_PER_WORD = k * PIXELS_PER_WORD - PIXELS_PER_WORD
  BY <1>2, <1>5
<1>7. k * PIXELS_PER_WORD <= LastWord * PIXELS_PER_WORD
  <2>1. k \in 0 .. LastWord
    BY <1>2, <1>5
  <2> QED
    BY <1>5, <2>1, WordColumns
<1>8. next_cursor(p) = k * PIXELS_PER_WORD /\ next_cursor(p) \in 1 .. COLUMNS - 1
  BY <1>4, <1>5, <1>6, <1>7
<1>9. missing(p) = COLUMNS - cursor /\ ~ StartsFirstRow(p)
  BY <1>1 DEF missing, StartsFirstRow
<1>10. RecoveryFails(p) = 0
  <2>1. next_cursor(p) \in 0 .. COLUMNS - 1
    BY <1>5, <1>8
  <2> QED
    BY <1>1, <1>3, <2>1 DEF RecoveryFails
<1> QED
  BY <1>3, <1>8, <1>9, <1>10 DEF k

(* The recovery goes on there, with the skipped pixels counted as lost. *)
LEMMA Continued ==
    ASSUME NEW p \in Packets, p.packet # 0, endCursor = LastWord * PIXELS_PER_WORD,
           NEW f \in Frames, NEW n \in Int, ContinueAt(p, f, n)
    PROVE  /\ frame' \in Frames /\ frame'.readouts = f.readouts /\ frame'.placed = f.placed
           /\ frame'.filled = f.filled
           /\ Lost(frame') =
                Lost(f) + n + PlaceOf(p.packet * PACKET_WORDS) * PIXELS_PER_WORD
           /\ cursor' = PlaceOf(p.packet * PACKET_WORDS) * PIXELS_PER_WORD
           /\ row_counter' = RowOf(p.packet * PACKET_WORDS)
           /\ row' = RowOf(p.packet * PACKET_WORDS)
           /\ endCursor' = endCursor
<1>1. /\ next_cursor(p) = PlaceOf(p.packet * PACKET_WORDS) * PIXELS_PER_WORD
      /\ next_cursor(p) \in 1 .. COLUMNS - 1
      /\ next_row(p) = RowOf(p.packet * PACKET_WORDS)
  BY FoundPlace
<1>2. next_cursor(p) # 0 /\ next_cursor(p) \in Int
  BY <1>1, Lengths
<1>3. f.pixelsLost \in Int /\ Lost(f) \in Int
  BY FrameIs DEF Frames
<1>4. frame' = [f EXCEPT !.pixelsLost = f.pixelsLost + n + next_cursor(p)]
  BY DEF ContinueAt
<1>5. /\ n + next_cursor(p) \in Int /\ f.pixelsLost + n + next_cursor(p) \in Int
      /\ f.pixelsLost + n + next_cursor(p) = f.pixelsLost + (n + next_cursor(p))
  BY <1>2, <1>3
<1>6. /\ frame' \in Frames /\ frame'.readouts = f.readouts /\ frame'.placed = f.placed
      /\ frame'.filled = f.filled /\ Lost(frame') = Lost(f) + (n + next_cursor(p))
  <2>1. /\ frame' \in Frames /\ frame'.readouts = f.readouts /\ frame'.placed = f.placed
        /\ frame'.filled = f.filled /\ frame'.came = f.came
        /\ frame'.pixelsLost = f.pixelsLost + n + next_cursor(p)
    BY <1>4, <1>5 DEF Frames
  <2> QED
    BY <1>5, <2>1, CountedLost
<1>7. Lost(frame') = Lost(f) + n + next_cursor(p)
  BY <1>2, <1>3, <1>6
<1> QED
  BY <1>1, <1>2, <1>6, <1>7 DEF ContinueAt

(* A frame that is cut short counts what was not stored, and one row more. *)
LEMMA Abandoned ==
    ASSUME NEW r \in Nat, NEW k \in 0 .. LastWord, frame \in Frames, frame.placed = TRUE,
           frame.filled + Lost(frame) = r * COLUMNS + k * PIXELS_PER_WORD,
           row_counter = r, cursor = k * PIXELS_PER_WORD, Abandon(COLUMNS - cursor)
    PROVE  /\ delivered' \in Frames /\ delivered'.readouts = frame.readouts
           /\ delivered'.placed = TRUE /\ delivered'.ended = "cut"
           /\ Lost(delivered') = (ROWS * COLUMNS - delivered'.filled) + COLUMNS
<1>1. /\ frame # NULL /\ frame.filled \in Int /\ Lost(frame) \in Int
  BY FrameIs
<1>2. /\ k * PIXELS_PER_WORD \in Nat /\ ROWS \in Nat /\ COLUMNS \in Nat
  BY Lengths, RowLength, WordColumns
<1>3. RestOfFrame = ROWS * COLUMNS - r * COLUMNS /\ r * COLUMNS \in Nat /\ ROWS * COLUMNS \in Nat
  BY <1>2 DEF RestOfFrame
<1> DEFINE n == (COLUMNS - cursor) + RestOfFrame
<1>4. n \in Int /\ Lost(frame) + n = (ROWS * COLUMNS - frame.filled) + COLUMNS
  <2>1. PICK f \in Int, l \in Int : f = frame.filled /\ l = Lost(frame)
    BY <1>1
  <2> QED
    BY <1>2, <1>3, <2>1
<1>5. /\ delivered' = [frame EXCEPT !.pixelsLost = frame.pixelsLost + n, !.ended = "cut"]
      /\ frame.pixelsLost + n \in Int
  <2>1. PICK x \in Int, y \in Int, z \in Int :
            x = frame.pixelsLost /\ y = COLUMNS - cursor /\ z = RestOfFrame
    BY <1>2, <1>3 DEF Frames
  <2>2. delivered' = [frame EXCEPT !.pixelsLost = x + y + z, !.ended = "cut"]
    BY <1>1, <2>1 DEF Abandon
  <2>3. x + y + z = x + (y + z) /\ x + (y + z) \in Int
    BY <2>1
  <2>4. n = y + z
    BY <2>1
  <2> HIDE DEF n
  <2> QED
    BY <2>1, <2>2, <2>3, <2>4
<1> HIDE DEF n
<1>6. /\ delivered' \in Frames /\ delivered'.readouts = frame.readouts
      /\ delivered'.placed = frame.placed /\ delivered'.ended = "cut"
      /\ delivered'.came = frame.came /\ delivered'.filled = frame.filled
      /\ delivered'.pixelsLost = frame.pixelsLost + n
  BY <1>5 DEF Frames
<1>7. Lost(delivered') = Lost(frame) + n
  BY <1>4, <1>6, CountedLost
<1> QED
  BY <1>4, <1>6, <1>7

(* What holds of a packet that arrives within a readout whose rows are due. *)
LEMMA RowsDue ==
    ASSUME AsmInv, pc = NULL, Due.packet # 0
    PROVE  /\ Due.packet \in 1 .. PacketsPerReadout - 1
           /\ At = Due.packet * PACKET_WORDS /\ At >= HEADER_WORDS
           /\ RowOf(At) \in 1 .. ROWS - 1 /\ PlaceOf(At) \in 1 .. LastWord
           /\ frame \in Frames /\ frame # NULL /\ frame.readouts = {Due.readout}
           /\ frame.placed = TRUE /\ endCursor = LastWord * PIXELS_PER_WORD
           /\ frame.filled + Lost(frame) = RowOf(At) * COLUMNS + PlaceOf(At) * PIXELS_PER_WORD
           /\ row_counter = RowOf(At) /\ row = RowOf(At) /\ row_counter >= 0
           /\ cursor = PlaceOf(At) * PIXELS_PER_WORD
<1>1. NetInv /\ RowsInv
  BY DEF AsmInv
<1>2. /\ Due \in Packets /\ At = Due.packet * PACKET_WORDS
      /\ Due.packet \in 1 .. PacketsPerReadout - 1 /\ At >= HEADER_WORDS
  BY <1>1, DueIs, DueInHeader
<1>3. RowOf(At) \in 1 .. ROWS - 1 /\ PlaceOf(At) \in 1 .. LastWord
  BY <1>2, PacketStart
<1>4. PlaceOf(At) > 0 /\ RowOf(At) >= 0
  BY <1>3, Lengths
<1>5. frame \in Frames
  BY <1>1, <1>2 DEF RowsInv
<1>6. frame # NULL
  BY <1>5, FrameIs
<1> QED
  BY <1>1, <1>2, <1>3, <1>4, <1>5, <1>6 DEF RowsInv

LEMMA HeaderDue ==
    ASSUME AsmInv, pc = NULL, Due.packet = 0
    PROVE  /\ At = 0 /\ At < HEADER_WORDS /\ frame = NULL /\ row_counter = -1
           /\ endCursor # COLUMNS => endCursor = LastWord * PIXELS_PER_WORD
           /\ endCursor = COLUMNS => burst = 0
<1>1. NetInv /\ HeaderInv
  BY DEF AsmInv
<1>2. At = 0 /\ At < HEADER_WORDS
  BY <1>1, DueIs, DueInHeader, Lengths
<1> QED
  BY <1>1, <1>2 DEF HeaderInv

(* The packet that is due: nothing to recover. *)
LEMMA ArriveInTime ==
    ASSUME AsmInv, onEvent, burst = 0
    PROVE  AsmInv' /\ delivered' = delivered
<1>1. /\ NetInv /\ HeaderInv /\ RowsInv /\ DeliveredInv /\ failed = 0 /\ mode \in {0, 1, 4}
  BY DEF AsmInv, NetInv
<1>2. pc = NULL
  BY DEF onEvent
<1>3. /\ pc' # NULL /\ j' = 0 /\ Due' = toSend /\ At' = toSend.packet * PACKET_WORDS
      /\ burst' = 0
      /\ mode' \in {0, 1, 4} => NetInv'
  BY <1>1, ArriveDue
<1>4. /\ toSend \in Packets /\ toSend.packet \in 0 .. PacketsPerReadout - 1
      /\ PacketsPerReadout \in Nat
  BY <1>1, PacketIs, PacketCount DEF NetInv
<1>5. Due.readout = toSend.readout /\ Due.packet = toSend.packet
  BY <1>1, <1>2, <1>4, DueIs
<1>6. At = toSend.packet * PACKET_WORDS
  BY <1>1, <1>2, <1>5, DueIs
<1>7. nothingToRecover(toSend)
  <2>1. ~ packetLoss(toSend)
    <3>1. CASE toSend.packet = 0
      <4>1. row_counter = -1
        BY <1>2, <1>5, <3>1, HeaderDue
      <4>2. WordOf(toSend, 0).type = "INFO_SOF"
        BY <1>4, <3>1, HeaderStart
      <4> QED
        BY <4>1, <4>2 DEF packetLoss
    <3>2. CASE toSend.packet # 0
      <4>1. /\ Due.packet \in 1 .. PacketsPerReadout - 1 /\ row_counter >= 0
            /\ endCursor = LastWord * PIXELS_PER_WORD
            /\ cursor = PlaceOf(Due.packet * PACKET_WORDS) * PIXELS_PER_WORD
        BY <1>2, <1>5, <3>2, RowsDue
      <4> QED
        BY <1>4, <1>5, <4>1, LossSeen
    <3> QED
      BY <3>1, <3>2
  <2> QED
    BY <2>1 DEF onEvent, recoverAtHeader, recoverInNextFrame, recoverInSameFrame, RowFound
<1>8. UNCHANGED <<asmVars, delivered, failed>>
  BY <1>7 DEF nothingToRecover
<1>9. NetInv'
  BY <1>1, <1>3, <1>8 DEF asmVars
<1>10. HeaderInv'
  BY <1>1, <1>3, <1>6, <1>8 DEF HeaderInv, asmVars
<1>11. RowsInv'
  BY <1>1, <1>3, <1>5, <1>6, <1>8 DEF RowsInv, asmVars
<1>12. DeliveredInv'
  BY <1>1, <1>3, <1>5, <1>8 DEF DeliveredInv
<1> QED
  BY <1>1, <1>8, <1>9, <1>10, <1>11, <1>12 DEF AsmInv

(* The first packets of a readout got lost, or several readouts' ends: the *)
(* frame is made now.                                                      *)
LEMMA ArriveWithoutHeader ==
    ASSUME AsmInv, onEvent, burst # 0, Due.packet = 0
    PROVE  AsmInv' /\ delivered' = delivered
<1>1. /\ NetInv /\ DeliveredInv /\ failed = 0 /\ mode \in {0, 1, 4}
      /\ toSend \in Packets /\ burst \in 0 .. MAX_BURST /\ pc = NULL
  BY DEF AsmInv, NetInv, onEvent
<1>2. /\ pc' # NULL /\ j' = 0 /\ Due' = toSend /\ At' = toSend.packet * PACKET_WORDS
      /\ mode' \in {0, 1, 4} => NetInv'
  BY <1>1, ArriveDue
<1>3. MAX_BURST \in Nat /\ PacketsPerReadout \in Nat /\ toSend.packet \in 0 .. PacketsPerReadout - 1
  BY <1>1, PacketIs, PacketCount, LossAssumption
<1>4. /\ toSend.packet # 0 /\ Due.readout = toSend.readout
  BY <1>1, <1>3, DueIs
<1>5. frame = NULL /\ row_counter = -1 /\ endCursor = LastWord * PIXELS_PER_WORD
  BY <1>1, HeaderDue
<1>6. /\ WordOf(toSend, 0).type # "INFO_SOF" /\ ~ opensFrame(WordOf(toSend, 0))
      /\ toSend.packet \in 1 .. PacketsPerReadout - 1
  BY <1>1, <1>4, LaterStart
<1>7. packetLoss(toSend)
  BY <1>5, <1>6 DEF packetLoss
<1>8. /\ ~ StartsFirstRow(toSend) /\ RecoveryFails(toSend) = 0
      /\ next_row(toSend) = RowOf(toSend.packet * PACKET_WORDS)
  BY <1>1, <1>4, <1>5, FoundPlace
<1>9. recoverInNextFrame(toSend)
  BY <1>5, <1>6, <1>7, <1>8
  DEF onEvent, nothingToRecover, recoverAtHeader, recoverInSameFrame, BeginsNext
<1> DEFINE r == RowOf(toSend.packet * PACKET_WORDS)
           k == PlaceOf(toSend.packet * PACKET_WORDS)
<1>10. PICK came \in Came :
       /\ failed' = 0 /\ mode' = NextMode /\ delivered' = delivered
       /\ ContinueAt(toSend, NewFrame(NextMode, came), r * COLUMNS)
  BY <1>5, <1>8, <1>9 DEF recoverInNextFrame, Abandon
<1>11. NextMode \in {0, 1, 4}
  BY <1>1 DEF NextMode
<1>12. /\ r \in 1 .. ROWS - 1 /\ k \in 1 .. LastWord
       /\ toSend.packet * PACKET_WORDS >= HEADER_WORDS
       /\ toSend.packet * PACKET_WORDS \in Nat
  BY <1>6, PacketStart
<1>13. r * COLUMNS \in Int /\ k * PIXELS_PER_WORD \in Int
  <2>1. COLUMNS \in Int /\ PIXELS_PER_WORD \in Int /\ ROWS \in Int /\ LastWord \in Int
    BY Lengths
  <2> HIDE DEF r, k
  <2> QED
    BY <1>12, <2>1
<1>14. /\ frame' \in Frames /\ frame'.readouts = {} /\ frame'.placed = TRUE
       /\ frame'.filled = 0 /\ Lost(frame') = 0 + r * COLUMNS + k * PIXELS_PER_WORD
       /\ cursor' = k * PIXELS_PER_WORD /\ row_counter' = r /\ row' = r
       /\ endCursor' = endCursor
  <2>1. /\ NewFrame(NextMode, came) \in Frames /\ NewFrame(NextMode, came).readouts = {}
        /\ NewFrame(NextMode, came).placed = TRUE /\ NewFrame(NextMode, came).filled = 0
        /\ Lost(NewFrame(NextMode, came)) = 0
    BY <1>11, NewFrameIs
  <2> QED
    BY <1>1, <1>4, <1>5, <1>10, <1>13, <2>1, Continued
<1>15. NetInv' /\ failed' = 0
  BY <1>2, <1>10, <1>11
<1>16. ~ At' < HEADER_WORDS /\ HeaderInv'
  <2>1. ~ At' < HEADER_WORDS
    BY <1>2, <1>12, Lengths
  <2> QED
    BY <2>1 DEF HeaderInv
<1>17. RowsInv'
  <2>1. At' = toSend.packet * PACKET_WORDS /\ k > 0
    BY <1>2, <1>12, Lengths
  <2>2. frame'.filled + Lost(frame') = r * COLUMNS + k * PIXELS_PER_WORD
    <3> HIDE DEF r, k
    <3> QED
      BY <1>13, <1>14
  <2> QED
    BY <1>2, <1>5, <1>14, <2>1, <2>2 DEF RowsInv
<1>18. DeliveredInv'
  BY <1>1, <1>2, <1>4, <1>10 DEF DeliveredInv
<1> QED
  BY <1>10, <1>15, <1>16, <1>17, <1>18 DEF AsmInv

(* The end of a readout got lost, and perhaps packets of the next; its     *)
(* header arrives: the frame is handed over.                               *)
LEMMA ArriveAtHeader ==
    ASSUME AsmInv, onEvent, burst # 0, Due.packet # 0, toSend.packet = 0
    PROVE  AsmInv' /\ delivered'.readouts = {Due.readout}
<1>1. /\ NetInv /\ failed = 0 /\ mode \in {0, 1, 4}
      /\ toSend \in Packets /\ burst \in 0 .. MAX_BURST /\ pc = NULL
  BY DEF AsmInv, NetInv, onEvent
<1>2. /\ pc' # NULL /\ j' = 0 /\ Due' = toSend /\ At' = toSend.packet * PACKET_WORDS
      /\ burst' = 0
      /\ mode' \in {0, 1, 4} => NetInv'
  BY <1>1, ArriveDue
<1>3. MAX_BURST \in Nat /\ toSend.readout \in Readouts
  BY <1>1, PacketIs, PacketCount, LossAssumption
<1>4. Due.readout = Before(toSend.readout)
  BY <1>1, <1>3, DueIs
<1>5. /\ WordOf(toSend, 0).type = "INFO_SOF" /\ opensFrame(WordOf(toSend, 0))
      /\ ~ StartsFirstRow(toSend)
  BY <1>1, HeaderStart DEF StartsFirstRow
<1>6. /\ Due.packet \in 1 .. PacketsPerReadout - 1 /\ At = Due.packet * PACKET_WORDS
      /\ RowOf(At) \in 1 .. ROWS - 1 /\ PlaceOf(At) \in 1 .. LastWord
      /\ frame \in Frames /\ frame.readouts = {Due.readout}
      /\ frame.placed = TRUE /\ endCursor = LastWord * PIXELS_PER_WORD
      /\ frame.filled + Lost(frame) = RowOf(At) * COLUMNS + PlaceOf(At) * PIXELS_PER_WORD
      /\ row_counter = RowOf(At) /\ row_counter >= 0
      /\ cursor = PlaceOf(At) * PIXELS_PER_WORD
  BY <1>1, RowsDue
<1>7. packetLoss(toSend)
  BY <1>1, <1>6, LossSeen
<1>8. recoverAtHeader(toSend)
  BY <1>5, <1>7 DEF onEvent, nothingToRecover, recoverInNextFrame, recoverInSameFrame, RowFound
<1>9. /\ Abandon(COLUMNS - cursor) /\ frame' = NULL /\ endCursor' = endCursor
      /\ mode' = mode /\ failed' = failed
  BY <1>8 DEF recoverAtHeader
<1>10. /\ delivered' \in Frames /\ delivered'.readouts = {Due.readout}
       /\ delivered'.placed = TRUE /\ delivered'.ended = "cut"
       /\ Lost(delivered') = (ROWS * COLUMNS - delivered'.filled) + COLUMNS
  <2>1. RowOf(At) \in Nat /\ PlaceOf(At) \in 0 .. LastWord
    BY <1>6, Lengths
  <2> QED
    BY <1>6, <1>9, <2>1, Abandoned
<1>11. NetInv' /\ failed' = 0
  BY <1>1, <1>2, <1>9
<1>12. At' < HEADER_WORDS /\ ~ At' >= HEADER_WORDS
  BY <1>1, <1>2, DueInHeader, Lengths
<1>13. HeaderInv' /\ RowsInv'
  BY <1>2, <1>6, <1>9, <1>12 DEF HeaderInv, RowsInv
<1>14. DeliveredInv'
  <2>1. delivered' # NULL
    BY <1>10, FrameIs
  <2> QED
    BY <1>2, <1>4, <1>10, <2>1 DEF DeliveredInv
<1> QED
  BY <1>10, <1>11, <1>13, <1>14 DEF AsmInv

(* Packets within a readout got lost: the frame goes on. *)
LEMMA ArriveInSame ==
    ASSUME AsmInv, onEvent, burst # 0, Due.packet # 0, toSend.packet # 0,
           burst <= toSend.packet
    PROVE  AsmInv' /\ delivered' = delivered
<1>1. /\ NetInv /\ DeliveredInv /\ failed = 0 /\ mode \in {0, 1, 4}
      /\ toSend \in Packets /\ burst \in 0 .. MAX_BURST /\ pc = NULL
  BY DEF AsmInv, NetInv, onEvent
<1>2. /\ pc' # NULL /\ j' = 0 /\ Due' = toSend /\ At' = toSend.packet * PACKET_WORDS
      /\ burst' = 0
      /\ mode' \in {0, 1, 4} => NetInv'
  BY <1>1, ArriveDue
<1>3. /\ MAX_BURST \in Nat /\ PacketsPerReadout \in Nat
      /\ toSend.packet \in 1 .. PacketsPerReadout - 1
      /\ ~ opensFrame(WordOf(toSend, 0))
  BY <1>1, LaterStart, PacketCount, LossAssumption
<1>4. /\ Due.readout = toSend.readout
      /\ Due.packet \in 1 .. PacketsPerReadout - 1 /\ Due.packet < toSend.packet
  BY <1>1, <1>3, DueIs, RowsDue
<1> DEFINE r == RowOf(At)
           k == PlaceOf(At)
           s == RowOf(toSend.packet * PACKET_WORDS)
           l == PlaceOf(toSend.packet * PACKET_WORDS)
<1>5. /\ At = Due.packet * PACKET_WORDS
      /\ r \in 1 .. ROWS - 1 /\ k \in 1 .. LastWord
      /\ frame \in Frames /\ frame # NULL /\ frame.readouts = {Due.readout}
      /\ frame.placed = TRUE /\ endCursor = LastWord * PIXELS_PER_WORD
      /\ frame.filled + Lost(frame) = r * COLUMNS + k * PIXELS_PER_WORD
      /\ row_counter = r /\ row_counter >= 0
      /\ cursor = k * PIXELS_PER_WORD
  BY <1>1, RowsDue
<1>6. /\ s \in 1 .. ROWS - 1 /\ l \in 1 .. LastWord /\ r < s
      /\ toSend.packet * PACKET_WORDS >= HEADER_WORDS
      /\ toSend.packet * PACKET_WORDS \in Nat
  BY <1>3, <1>4, <1>5, PacketStart, LaterPacket
<1>7. /\ ~ StartsFirstRow(toSend) /\ RecoveryFails(toSend) = 0
      /\ next_row(toSend) = s /\ missing(toSend) = COLUMNS - cursor
  BY <1>1, <1>3, <1>5, FoundPlace
<1>8. packetLoss(toSend)
  BY <1>1, <1>3, <1>4, <1>5, LossSeen
<1>9. ~ BeginsNext(toSend)
  BY <1>5, <1>6, <1>7, Lengths DEF BeginsNext
<1>10. recoverInSameFrame(toSend)
  BY <1>3, <1>7, <1>8, <1>9
  DEF onEvent, nothingToRecover, recoverAtHeader, recoverInNextFrame
<1>11. /\ failed' = 0 /\ mode' = mode /\ delivered' = delivered
       /\ ContinueAt(toSend, frame, Skipped(toSend))
       /\ Skipped(toSend) = (COLUMNS - cursor) + (s - 1 - r) * COLUMNS
  BY <1>5, <1>7, <1>10 DEF recoverInSameFrame, Skipped
<1>12. frame.filled \in Int /\ Lost(frame) \in Int
  BY <1>5, FrameIs
<1>13. /\ COLUMNS \in Nat /\ k * PIXELS_PER_WORD \in Nat /\ l * PIXELS_PER_WORD \in Nat
       /\ (s - 1 - r) * COLUMNS \in Int
       /\ (s - 1 - r) * COLUMNS = s * COLUMNS - COLUMNS - r * COLUMNS
       /\ r * COLUMNS \in Int /\ s * COLUMNS \in Int
  <2>1. COLUMNS \in Nat /\ PIXELS_PER_WORD \in Nat /\ ROWS \in Nat /\ LastWord \in Nat
    BY Lengths
  <2> HIDE DEF r, k, s, l
  <2>2. k \in Nat /\ l \in Nat /\ r \in Int /\ s \in Int
    BY <1>5, <1>6, <2>1
  <2> QED
    BY <2>1, <2>2
<1>14. Skipped(toSend) \in Int
  <2> HIDE DEF r, k, s, l
  <2> QED
    BY <1>5, <1>11, <1>13
<1>15. /\ frame' \in Frames /\ frame'.readouts = {Due.readout} /\ frame'.placed = TRUE
       /\ frame'.filled = frame.filled
       /\ Lost(frame') = Lost(frame) + Skipped(toSend) + l * PIXELS_PER_WORD
       /\ cursor' = l * PIXELS_PER_WORD /\ row_counter' = s /\ row' = s
       /\ endCursor' = endCursor
  BY <1>1, <1>3, <1>5, <1>11, <1>14, Continued
<1>16. frame'.filled + Lost(frame') = s * COLUMNS + l * PIXELS_PER_WORD
  <2> HIDE DEF r, k, s, l
  <2>1. PICK f \in Int, n \in Int : f = frame.filled /\ n = Lost(frame)
    BY <1>12
  <2>2. Skipped(toSend) = s * COLUMNS - r * COLUMNS - k * PIXELS_PER_WORD
    BY <1>5, <1>11, <1>13
  <2>3. f + n = r * COLUMNS + k * PIXELS_PER_WORD
    BY <1>5, <2>1
  <2>4. f + (n + Skipped(toSend) + l * PIXELS_PER_WORD) = s * COLUMNS + l * PIXELS_PER_WORD
    BY <1>13, <2>2, <2>3
  <2> QED
    BY <1>15, <2>1, <2>4
<1>17. NetInv' /\ failed' = 0
  BY <1>1, <1>2, <1>11
<1>18. HeaderInv'
  <2>1. ~ At' < HEADER_WORDS
    BY <1>2, <1>6, Lengths
  <2> QED
    BY <2>1 DEF HeaderInv
<1>19. RowsInv'
  <2>1. At' = toSend.packet * PACKET_WORDS /\ l > 0
    BY <1>2, <1>6, Lengths
  <2> QED
    BY <1>2, <1>4, <1>5, <1>15, <1>16, <2>1 DEF RowsInv
<1>20. DeliveredInv'
  BY <1>1, <1>2, <1>4, <1>11 DEF DeliveredInv
<1> QED
  BY <1>11, <1>17, <1>18, <1>19, <1>20 DEF AsmInv

(* The end of a readout and the header of the next got lost: the row of    *)
(* the packet that arrives lies before the one in progress, and the frame  *)
(* is handed over and a new one made.                                      *)
LEMMA ArriveInNext ==
    ASSUME AsmInv, onEvent, burst # 0, Due.packet # 0, toSend.packet # 0,
           burst > toSend.packet
    PROVE  AsmInv' /\ delivered'.readouts = {Due.readout}
<1>1. /\ NetInv /\ DeliveredInv /\ failed = 0 /\ mode \in {0, 1, 4}
      /\ toSend \in Packets /\ burst \in 0 .. MAX_BURST /\ pc = NULL
  BY DEF AsmInv, NetInv, onEvent
<1>2. /\ pc' # NULL /\ j' = 0 /\ Due' = toSend /\ At' = toSend.packet * PACKET_WORDS
      /\ burst' = 0
      /\ mode' \in {0, 1, 4} => NetInv'
  BY <1>1, ArriveDue
<1>3. /\ PacketsPerReadout \in Nat
      /\ toSend.packet \in 1 .. PacketsPerReadout - 1
      /\ ~ opensFrame(WordOf(toSend, 0))
  BY <1>1, LaterStart, PacketCount
<1>4. /\ Due.readout = Before(toSend.readout)
      /\ Due.packet \in 1 .. PacketsPerReadout - 1 /\ toSend.packet < Due.packet
  BY <1>1, <1>3, DueIs, RowsDue
<1> DEFINE r == RowOf(At)
           k == PlaceOf(At)
           s == RowOf(toSend.packet * PACKET_WORDS)
           l == PlaceOf(toSend.packet * PACKET_WORDS)
<1>5. /\ At = Due.packet * PACKET_WORDS
      /\ r \in 1 .. ROWS - 1 /\ k \in 1 .. LastWord
      /\ frame \in Frames /\ frame # NULL /\ frame.readouts = {Due.readout}
      /\ frame.placed = TRUE /\ endCursor = LastWord * PIXELS_PER_WORD
      /\ frame.filled + Lost(frame) = r * COLUMNS + k * PIXELS_PER_WORD
      /\ row_counter = r /\ row_counter >= 0
      /\ cursor = k * PIXELS_PER_WORD
  BY <1>1, RowsDue
<1>6. /\ s \in 1 .. ROWS - 1 /\ l \in 1 .. LastWord /\ s < r
      /\ toSend.packet * PACKET_WORDS >= HEADER_WORDS
      /\ toSend.packet * PACKET_WORDS \in Nat
  BY <1>3, <1>4, <1>5, PacketStart, LaterPacket
<1>7. /\ ~ StartsFirstRow(toSend) /\ RecoveryFails(toSend) = 0
      /\ next_row(toSend) = s /\ missing(toSend) = COLUMNS - cursor
  BY <1>1, <1>3, <1>5, FoundPlace
<1>8. packetLoss(toSend)
  BY <1>1, <1>3, <1>4, <1>5, LossSeen
<1>9. BeginsNext(toSend)
  BY <1>5, <1>6, <1>7 DEF BeginsNext
<1>10. recoverInNextFrame(toSend)
  BY <1>3, <1>7, <1>8, <1>9
  DEF onEvent, nothingToRecover, recoverAtHeader, recoverInSameFrame
<1>11. PICK came \in Came :
       /\ failed' = 0 /\ mode' = NextMode /\ Abandon(COLUMNS - cursor)
       /\ ContinueAt(toSend, NewFrame(NextMode, came), s * COLUMNS)
  BY <1>7, <1>10 DEF recoverInNextFrame
<1>12. NextMode \in {0, 1, 4}
  BY <1>1 DEF NextMode
<1>13. s * COLUMNS \in Int /\ l * PIXELS_PER_WORD \in Int
  <2>1. COLUMNS \in Int /\ PIXELS_PER_WORD \in Int /\ ROWS \in Int /\ LastWord \in Int
    BY Lengths
  <2> HIDE DEF s, l
  <2> QED
    BY <1>6, <2>1
<1>14. /\ frame' \in Frames /\ frame'.readouts = {} /\ frame'.placed = TRUE
       /\ frame'.filled = 0 /\ Lost(frame') = 0 + s * COLUMNS + l * PIXELS_PER_WORD
       /\ cursor' = l * PIXELS_PER_WORD /\ row_counter' = s /\ row' = s
       /\ endCursor' = endCursor
  <2>1. /\ NewFrame(NextMode, came) \in Frames /\ NewFrame(NextMode, came).readouts = {}
        /\ NewFrame(NextMode, came).placed = TRUE /\ NewFrame(NextMode, came).filled = 0
        /\ Lost(NewFrame(NextMode, came)) = 0
    BY <1>12, NewFrameIs
  <2> QED
    BY <1>1, <1>3, <1>5, <1>11, <1>13, <2>1, Continued
<1>15. /\ delivered' \in Frames /\ delivered'.readouts = {Due.readout}
       /\ delivered'.placed = TRUE /\ delivered'.ended = "cut"
       /\ Lost(delivered') = (ROWS * COLUMNS - delivered'.filled) + COLUMNS
  <2>1. r \in Nat /\ k \in 0 .. LastWord
    BY <1>5, Lengths
  <2> QED
    BY <1>5, <1>11, <2>1, Abandoned
<1>16. NetInv' /\ failed' = 0
  BY <1>2, <1>11, <1>12
<1>17. HeaderInv'
  <2>1. ~ At' < HEADER_WORDS
    BY <1>2, <1>6, Lengths
  <2> QED
    BY <2>1 DEF HeaderInv
<1>18. RowsInv'
  <2>1. At' = toSend.packet * PACKET_WORDS /\ l > 0
    BY <1>2, <1>6, Lengths
  <2>2. frame'.filled + Lost(frame') = s * COLUMNS + l * PIXELS_PER_WORD
    <3> HIDE DEF s, l
    <3> QED
      BY <1>13, <1>14
  <2> QED
    BY <1>2, <1>5, <1>14, <2>1, <2>2 DEF RowsInv
<1>19. DeliveredInv'
  <2>1. delivered' # NULL
    BY <1>15, FrameIs
  <2> QED
    BY <1>2, <1>4, <1>15, <2>1 DEF DeliveredInv
<1> QED
  BY <1>15, <1>16, <1>17, <1>18, <1>19 DEF AsmInv

LEMMA ArriveAsm ==
    ASSUME AsmInv, onEvent
    PROVE  AsmInv'
<1>1. CASE burst = 0
  BY <1>1, ArriveInTime
<1>2. CASE burst # 0 /\ Due.packet = 0
  BY <1>2, ArriveWithoutHeader
<1>3. CASE burst # 0 /\ Due.packet # 0 /\ toSend.packet = 0
  BY <1>3, ArriveAtHeader
<1>4. CASE burst # 0 /\ Due.packet # 0 /\ toSend.packet # 0 /\ burst <= toSend.packet
  BY <1>4, ArriveInSame
<1>5. CASE burst # 0 /\ Due.packet # 0 /\ toSend.packet # 0 /\ burst > toSend.packet
  BY <1>5, ArriveInNext
<1>6. burst \in Int /\ toSend.packet \in Int
  <2>1. burst \in 0 .. MAX_BURST /\ toSend \in Packets
    BY DEF AsmInv, NetInv
  <2> QED
    BY <2>1, PacketIs
<1> QED
  BY <1>1, <1>2, <1>3, <1>4, <1>5, <1>6

-----------------------------------------------------------------------------
(* A word is read.                                                         *)

(* The word is the one that is due, and the next word is due then; after   *)
(* the last one, the next readout is.                                      *)
LEMMA ReadDue ==
    ASSUME NetInv, pc # NULL, NextWord
    PROVE  /\ Due = pc /\ At \in 0 .. ReadoutWords - 1 /\ Word = ReadoutWord(At)
           /\ pc.readout \in Readouts /\ burst' = 0
           /\ pc' = NULL \/ j' > 0
           /\ At + 1 # ReadoutWords =>
                /\ Due'.readout = Due.readout /\ At' = At + 1
                /\ pc' = NULL => At' >= HEADER_WORDS + WordsPerRow
           /\ At + 1 = ReadoutWords =>
                Due'.readout = (Due.readout + 1) % READOUTS /\ At' = 0
           /\ mode' \in {0, 1, 4} => NetInv'
<1>1. /\ pc \in Packets /\ j \in 0 .. PacketSize(pc) - 1 /\ toSend = Following(pc)
      /\ burst = 0 /\ toSend \in Packets
  BY DEF NetInv
<1>2. /\ Due = pc /\ At = pc.packet * PACKET_WORDS + j
  BY DEF Due, At
<1>3. Word = ReadoutWord(At)
  BY <1>2 DEF Word, WordOf
<1>4. /\ At \in 0 .. ReadoutWords - 1 /\ j \in Nat
      /\ PacketSize(pc) \in Nat /\ pc.packet \in 0 .. PacketsPerReadout - 1
      /\ pc.packet * PACKET_WORDS \in Nat /\ pc.readout \in Readouts
  BY <1>1, <1>2, PacketWord, PacketIs
<1>5. /\ toSend' = toSend /\ burst' = 0 /\ PACKET_WORDS \in Nat /\ ReadoutWords \in Nat
      /\ HEADER_WORDS \in Nat /\ WordsPerRow \in Nat /\ PACKET_WORDS >= HEADER_WORDS + WordsPerRow
      /\ PacketsPerReadout \in Nat
  BY <1>1, Lengths, PacketCount DEF NextWord, netVars
<1>6. CASE j + 1 < PacketSize(pc)
  <2>1. pc' = pc /\ j' = j + 1
    BY <1>6 DEF NextWord
  <2>2. Due' = pc /\ At' = pc.packet * PACKET_WORDS + (j + 1)
    BY <2>1 DEF Due, At
  <2>3. At + 1 < ReadoutWords
    BY <1>1, <1>2, <1>4, <1>6, PacketWord
  <2>4. At' = At + 1 /\ j' > 0 /\ pc' # NULL
    BY <1>2, <1>4, <2>1, <2>2
  <2>5. ASSUME mode' \in {0, 1, 4} PROVE NetInv'
    <3>1. j + 1 \in 0 .. PacketSize(pc) - 1 /\ 0 \in 0 .. MAX_BURST
      BY <1>4, <1>6, LossAssumption
    <3>2. PacketSize(pc)' = PacketSize(pc)
      BY <2>1
    <3>3. Following(pc)' = Following(pc)
      BY <2>1
    <3> QED
      BY <1>1, <1>5, <2>1, <2>5, <3>1, <3>2, <3>3 DEF NetInv
  <2> QED
    BY <1>2, <1>3, <1>4, <1>5, <2>2, <2>3, <2>4, <2>5
<1>7. CASE j + 1 = PacketSize(pc)
  <2>1. pc' = NULL /\ j' = 0
    BY <1>4, <1>7 DEF NextWord
  <2>2. /\ toSend.packet \in 0 .. PacketsPerReadout - 1
        /\ Due'.readout = toSend.readout /\ Due'.packet = toSend.packet
    <3>1. toSend.packet \in 0 .. PacketsPerReadout - 1
      BY <1>1, PacketIs
    <3>2. Due' = [readout |-> toSend.readout, packet |-> toSend.packet - 0]
      BY <1>5, <2>1, <3>1 DEF Due
    <3> QED
      BY <3>1, <3>2
  <2>3. At' = toSend.packet * PACKET_WORDS
    <3>1. toSend.packet * PACKET_WORDS \in Nat
      BY <1>5, <2>2
    <3> QED
      BY <2>1, <2>2, <3>1 DEF At
  <2>4. ASSUME pc.packet = PacketsPerReadout - 1
        PROVE  /\ At + 1 = ReadoutWords /\ At' = 0
               /\ Due'.readout = (Due.readout + 1) % READOUTS
    <3>1. At + 1 = ReadoutWords
      BY <1>1, <1>2, <1>7, <2>4, PacketWord
    <3>2. toSend.readout = (pc.readout + 1) % READOUTS /\ toSend.packet = 0
      BY <1>1, <2>4, FollowingIs
    <3>3. At' = 0
      BY <1>1, <2>3, <3>2, DueInHeader
    <3> QED
      BY <1>2, <2>2, <3>1, <3>2, <3>3
  <2>5. ASSUME pc.packet # PacketsPerReadout - 1
        PROVE  /\ At + 1 # ReadoutWords /\ At' = At + 1
               /\ Due'.readout = Due.readout /\ At' >= HEADER_WORDS + WordsPerRow
    <3>1. At + 1 = (pc.packet + 1) * PACKET_WORDS /\ At + 1 < ReadoutWords
      BY <1>1, <1>2, <1>7, <2>5, PacketWord
    <3>2. toSend.readout = pc.readout /\ toSend.packet = pc.packet + 1
      BY <1>1, <1>4, <1>5, <2>5, FollowingIs
    <3>3. At' = At + 1
      BY <2>3, <3>1, <3>2
    <3>4. At' >= HEADER_WORDS + WordsPerRow
      <4>1. (pc.packet + 1) * PACKET_WORDS = pc.packet * PACKET_WORDS + PACKET_WORDS
        BY <1>4, <1>5
      <4> QED
        BY <1>4, <1>5, <3>1, <3>3, <4>1
    <3> QED
      BY <1>2, <1>4, <1>5, <2>2, <3>1, <3>2, <3>3, <3>4
  <2>6. ASSUME mode' \in {0, 1, 4} PROVE NetInv'
    <3>1. 0 \in 0 .. MAX_BURST
      BY LossAssumption
    <3> QED
      BY <1>1, <1>5, <2>1, <2>6, <3>1 DEF NetInv
  <2> QED
    BY <1>2, <1>3, <1>4, <1>5, <2>1, <2>4, <2>5, <2>6
<1>8. j + 1 < PacketSize(pc) \/ j + 1 = PacketSize(pc)
  BY <1>1, <1>4
<1> QED
  BY <1>6, <1>7, <1>8

(* Only the action for the word's type is taken. *)
LEMMA WordAction ==
    ASSUME processWord
    PROVE  /\ pc # NULL /\ NextWord
           /\ Word.type \in {"SOF", "SOR"} => startRow
           /\ Word.type = "MID" => middleOfRow
           /\ Word.type = "EOR" => endRow
           /\ Word.type = "EOF" => endFrame
           /\ Word.type \in {"INFO_SOF", "INFO_MID"} => infoWord
           /\ Word.type = "INFO_EOF" => infoEnd
<1>1. startRow => Word.type \in {"SOF", "SOR"}
  BY DEF startRow
<1>2. middleOfRow => Word.type = "MID"
  BY DEF middleOfRow
<1>3. endRow => Word.type = "EOR"
  BY DEF endRow
<1>4. endFrame => Word.type = "EOF"
  BY DEF endFrame
<1>5. infoWord => Word.type \in {"INFO_SOF", "INFO_MID"}
  BY DEF infoWord
<1>6. infoEnd => Word.type = "INFO_EOF"
  BY DEF infoEnd
<1>7. /\ pc # NULL /\ NextWord
      /\ startRow \/ middleOfRow \/ endRow \/ endFrame \/ infoWord \/ infoEnd
  BY DEF processWord
<1> QED
  BY <1>1, <1>2, <1>3, <1>4, <1>5, <1>6, <1>7

(* The word's pixels stored in a frame of the same readout, at their place. *)
LEMMA StoredIs ==
    ASSUME frame \in Frames, pc.readout \in Readouts, frame.readouts \subseteq {pc.readout},
           frame.placed = TRUE, NEW n \in Int, row = Word.row,
           cursor = Word.word * PIXELS_PER_WORD,
           NEW g, g = Stored(pc.readout, Word, n)
    PROVE  /\ g \in Frames /\ g.readouts = {pc.readout} /\ g.placed = TRUE
           /\ g.filled = frame.filled + n /\ Lost(g) = Lost(frame)
<1>1. frame.filled \in Int /\ frame.filled + n \in Int
  BY FrameIs
<1>2. frame.readouts \cup {pc.readout} = {pc.readout} /\ {pc.readout} \in SUBSET Readouts
  OBVIOUS
<1>3. (frame.placed /\ row = Word.row /\ cursor = Word.word * PIXELS_PER_WORD) = TRUE
  OBVIOUS
<1>4. g = [frame EXCEPT !.readouts = {pc.readout}, !.placed = TRUE, !.filled = frame.filled + n]
  BY <1>2, <1>3 DEF Stored
<1>5. /\ g \in Frames /\ g.readouts = {pc.readout} /\ g.placed = TRUE
      /\ g.filled = frame.filled + n /\ g.pixelsLost = frame.pixelsLost /\ g.came = frame.came
  BY <1>1, <1>2, <1>4 DEF Frames
<1> QED
  BY <1>5 DEF Lost

(* The frame gets pixels, and no loss is counted. *)
Gains == /\ frame \in Frames /\ frame' \in Frames /\ Lost(frame') = Lost(frame)
         /\ \E n \in Nat : frame'.filled = frame.filled + n

(* Words of the header; the last one makes the frame. *)
LEMMA ReadHeader ==
    ASSUME AsmInv, processWord, At < HEADER_WORDS
    PROVE  /\ AsmInv' /\ delivered' = delivered
           /\ \/ frame' = frame
              \/ frame = NULL /\ frame' # NULL /\ frame'.filled = 0 /\ Lost(frame') = 0
<1>1. /\ NetInv /\ HeaderInv /\ DeliveredInv /\ failed = 0 /\ mode \in {0, 1, 4} /\ pc # NULL
      /\ NextWord
  BY WordAction DEF AsmInv, NetInv
<1>2. /\ At \in 0 .. ReadoutWords - 1 /\ Word = ReadoutWord(At) /\ burst' = 0
      /\ pc' = NULL \/ j' > 0
      /\ At + 1 # ReadoutWords =>
           /\ Due'.readout = Due.readout /\ At' = At + 1
           /\ pc' = NULL => At' >= HEADER_WORDS + WordsPerRow
      /\ mode' \in {0, 1, 4} => NetInv'
  BY <1>1, ReadDue
<1>3. /\ HEADER_WORDS \in Nat /\ WordsPerRow \in Nat \ {0} /\ ROWS \in Nat \ {0}
      /\ WordsPerRow * ROWS \in Nat /\ ReadoutWords = HEADER_WORDS + WordsPerRow * ROWS
      /\ WordsPerRow * ROWS >= WordsPerRow /\ LastWord \in Nat
  <2>1. /\ HEADER_WORDS \in Nat /\ WordsPerRow \in Nat \ {0} /\ ROWS \in Nat \ {0}
        /\ ReadoutWords = HEADER_WORDS + WordsPerRow * ROWS /\ LastWord \in Nat
    BY Lengths
  <2>2. /\ WordsPerRow * (ROWS - 1) \in Nat
        /\ WordsPerRow * (ROWS - 1) = WordsPerRow * ROWS - WordsPerRow /\ WordsPerRow * ROWS \in Nat
    BY <2>1
  <2> QED
    BY <2>1, <2>2
<1>4. At + 1 # ReadoutWords
  BY <1>2, <1>3
<1>5. /\ Due'.readout = Due.readout /\ At' = At + 1 /\ pc' # NULL
  BY <1>2, <1>3, <1>4
<1>6. frame = NULL /\ (endCursor # COLUMNS => endCursor = LastWord * PIXELS_PER_WORD)
  BY <1>1 DEF HeaderInv
<1>7. Word.type = IF At = 0 THEN "INFO_SOF"
                  ELSE IF At = HEADER_WORDS - 1 THEN "INFO_EOF" ELSE "INFO_MID"
  <2>1. At \in 0 .. HEADER_WORDS - 1 /\ At \in Nat
    BY <1>2, <1>3
  <2>2. Word = InfoWord(At)
    BY <1>2, <2>1, ReadoutWordIs
  <2> QED
    BY <2>1, <2>2, InfoWordIs
<1>8. CASE At # HEADER_WORDS - 1
  <2>1. Word.type \in {"INFO_SOF", "INFO_MID"}
    BY <1>7, <1>8
  <2>2. UNCHANGED <<asmVars, delivered, failed>>
    BY <2>1, WordAction DEF infoWord
  <2>3. /\ frame' = NULL /\ endCursor' = endCursor /\ mode' = mode /\ failed' = 0
        /\ delivered' = delivered
    BY <1>1, <1>6, <2>2 DEF asmVars
  <2>4. NetInv'
    BY <1>1, <1>2, <2>3
  <2>5. HeaderInv'
    BY <1>2, <1>5, <1>6, <2>3 DEF HeaderInv
  <2>6. RowsInv'
    <3>1. ~ At' >= HEADER_WORDS
      BY <1>2, <1>3, <1>5, <1>8
    <3> QED
      BY <3>1 DEF RowsInv
  <2>7. DeliveredInv'
    BY <1>1, <1>5, <2>3 DEF DeliveredInv
  <2> QED
    BY <1>6, <2>3, <2>4, <2>5, <2>6, <2>7 DEF AsmInv
<1>9. CASE At = HEADER_WORDS - 1
  <2>1. Word.type = "INFO_EOF"
    BY <1>3, <1>7, <1>9, Lengths
  <2>2. infoEnd
    BY <2>1, WordAction
  <2>3. PICK came \in Came :
        /\ mode' \in {0, 1, 4} /\ endCursor' = LastWord * PIXELS_PER_WORD /\ failed' = 0
        /\ frame' = NewFrame(mode', came) /\ delivered' = delivered
    <3>1. mode' \in {0, 1, 4}
      BY <2>2 DEF infoEnd, ModeOf
    <3>2. endCursor' = LastWord * PIXELS_PER_WORD
      BY <2>2, RowLength DEF infoEnd
    <3> QED
      BY <1>1, <1>6, <2>2, <3>1, <3>2 DEF infoEnd
  <2>4. /\ frame' \in Frames /\ frame'.readouts = {} /\ frame'.placed = TRUE
        /\ frame'.filled = 0 /\ Lost(frame') = 0
    BY <2>3, NewFrameIs
  <2>5. At' = HEADER_WORDS /\ HEADER_WORDS = HEADER_WORDS + WordsPerRow * 0 + 0
    BY <1>3, <1>5, <1>9
  <2>6. RowOf(HEADER_WORDS) = 0 /\ PlaceOf(HEADER_WORDS) = 0
    <3>1. 0 \in 0 .. LastWord /\ 0 \in Nat
      BY <1>3
    <3> QED
      BY <1>3, <2>5, <3>1, PositionUnique
  <2>7. 0 * COLUMNS + 0 * PIXELS_PER_WORD = 0
    BY Lengths
  <2>8. frame'.filled + Lost(frame') = 0
    BY <2>4
  <2>9. RowsInv'
    <3>1. ~ At' > HEADER_WORDS /\ ~ 0 > 0
      BY <1>3, <2>5
    <3> QED
      BY <1>5, <2>3, <2>4, <2>5, <2>6, <2>7, <2>8, <3>1 DEF RowsInv
  <2>10. HeaderInv'
    <3>1. ~ At' < HEADER_WORDS
      BY <1>3, <2>5
    <3> QED
      BY <3>1 DEF HeaderInv
  <2>11. NetInv'
    BY <1>2, <2>3
  <2>12. DeliveredInv'
    BY <1>1, <1>5, <2>3 DEF DeliveredInv
  <2> QED
    BY <1>6, <2>3, <2>4, <2>9, <2>10, <2>11, <2>12, FrameIs DEF AsmInv
<1> QED
  BY <1>8, <1>9

(* What holds of the words of the rows. *)
LEMMA RowWordDue ==
    ASSUME AsmInv, processWord, At >= HEADER_WORDS
    PROVE  /\ RowOf(At) \in 0 .. ROWS - 1 /\ PlaceOf(At) \in 0 .. LastWord
           /\ Word.row = RowOf(At) /\ Word.word = PlaceOf(At)
           /\ Word.type = RowWord(RowOf(At), PlaceOf(At)).type
           /\ pc.readout = Due.readout /\ pc.readout \in Readouts
           /\ frame \in Frames /\ frame # NULL /\ endCursor = LastWord * PIXELS_PER_WORD
           /\ frame.filled \in Int /\ Lost(frame) \in Int
           /\ frame.readouts \subseteq {pc.readout} /\ frame.placed = TRUE
           /\ frame.filled + Lost(frame) = RowOf(At) * COLUMNS + PlaceOf(At) * PIXELS_PER_WORD
           /\ PlaceOf(At) = 0 /\ RowOf(At) > 0 => row_counter = RowOf(At) - 1
           /\ PlaceOf(At) > 0 => /\ row_counter = RowOf(At) /\ row = RowOf(At)
                                 /\ cursor = PlaceOf(At) * PIXELS_PER_WORD
           /\ At + 1 = ReadoutWords <=> (RowOf(At) = ROWS - 1 /\ PlaceOf(At) = LastWord)
           /\ At \in Nat
<1>1. NetInv /\ RowsInv /\ pc # NULL /\ NextWord
  BY WordAction DEF AsmInv
<1>2. /\ Due = pc /\ At \in 0 .. ReadoutWords - 1 /\ Word = ReadoutWord(At)
      /\ pc.readout \in Readouts
  BY <1>1, ReadDue
<1>3. At \in Nat /\ At < ReadoutWords
  BY <1>2, Lengths
<1>4. /\ RowOf(At) \in 0 .. ROWS - 1 /\ RowOf(At) \in Nat /\ PlaceOf(At) \in 0 .. LastWord
      /\ At + 1 = ReadoutWords <=> (RowOf(At) = ROWS - 1 /\ PlaceOf(At) = LastWord)
  BY <1>3, PositionIs, RowsOfReadout
<1>5. Word = RowWord(RowOf(At), PlaceOf(At))
  BY <1>2, <1>3, ReadoutWordIs
<1>6. Word.row = RowOf(At) /\ Word.word = PlaceOf(At)
  BY <1>4, <1>5, RowWordIs
<1>7. frame \in Frames
  BY <1>1 DEF RowsInv
<1>8. frame # NULL /\ frame.filled \in Int /\ Lost(frame) \in Int
  BY <1>7, FrameIs
<1> QED
  BY <1>1, <1>2, <1>3, <1>4, <1>5, <1>6, <1>7, <1>8 DEF RowsInv

(* After a word that does not end the readout, only the frame matters. *)
LEMMA RowsGoOn ==
    ASSUME AsmInv, processWord, At >= HEADER_WORDS, At + 1 # ReadoutWords,
           delivered' = delivered, failed' = 0, mode' = mode, endCursor' = endCursor,
           frame' \in Frames, frame'.readouts = {pc.readout}, frame'.placed = TRUE,
           frame'.filled + Lost(frame')
             = RowOf(At + 1) * COLUMNS + PlaceOf(At + 1) * PIXELS_PER_WORD,
           PlaceOf(At + 1) = 0 /\ RowOf(At + 1) > 0 => row_counter' = RowOf(At + 1) - 1,
           PlaceOf(At + 1) > 0 => /\ row_counter' = RowOf(At + 1) /\ row' = RowOf(At + 1)
                                  /\ cursor' = PlaceOf(At + 1) * PIXELS_PER_WORD
    PROVE  AsmInv'
<1>1. NetInv /\ DeliveredInv /\ pc # NULL /\ NextWord /\ mode \in {0, 1, 4}
  BY WordAction DEF AsmInv, NetInv
<1>2. /\ Due = pc /\ Due'.readout = Due.readout /\ At' = At + 1
      /\ mode' \in {0, 1, 4} => NetInv'
  BY <1>1, ReadDue
<1>3. endCursor = LastWord * PIXELS_PER_WORD /\ At \in Nat
  BY RowWordDue
<1>4. NetInv'
  BY <1>1, <1>2
<1>5. HeaderInv'
  <2>1. ~ At' < HEADER_WORDS
    BY <1>2, <1>3, Lengths
  <2> QED
    BY <2>1 DEF HeaderInv
<1>6. RowsInv'
  BY <1>2, <1>3 DEF RowsInv
<1>7. DeliveredInv'
  BY <1>1, <1>2 DEF DeliveredInv
<1> QED
  BY <1>4, <1>5, <1>6, <1>7 DEF AsmInv

(* A row begins. *)
LEMMA ReadRowStart ==
    ASSUME AsmInv, processWord, At >= HEADER_WORDS, PlaceOf(At) = 0
    PROVE  AsmInv' /\ delivered' = delivered /\ Gains
<1> DEFINE r == RowOf(At)
<1>1. /\ r \in 0 .. ROWS - 1 /\ Word.row = r /\ Word.type = RowWord(r, 0).type
      /\ pc.readout \in Readouts /\ frame \in Frames /\ frame # NULL
      /\ frame.filled \in Int /\ Lost(frame) \in Int
      /\ frame.readouts \subseteq {pc.readout} /\ frame.placed = TRUE
      /\ frame.filled + Lost(frame) = r * COLUMNS + 0 * PIXELS_PER_WORD
      /\ r > 0 => row_counter = r - 1
      /\ At + 1 = ReadoutWords <=> (r = ROWS - 1 /\ 0 = LastWord)
      /\ At \in Nat
  BY RowWordDue
<1>2. /\ ROWS \in Nat /\ COLUMNS \in Nat /\ LastWord \in Nat \ {0} /\ PIXELS_PER_WORD \in Nat
      /\ failed = 0
  BY Lengths DEF AsmInv
<1>3. RowOf(At + 1) = r /\ PlaceOf(At + 1) = 1 /\ At + 1 # ReadoutWords
  <2>1. PlaceOf(At) < LastWord
    BY <1>2
  <2>2. RowOf(At + 1) = RowOf(At) /\ PlaceOf(At + 1) = PlaceOf(At) + 1
    BY <1>1, <2>1, NextPosition
  <2> QED
    BY <1>1, <1>2, <2>2
<1> HIDE DEF r
<1>4. Word.type = IF r = 0 THEN "SOF" ELSE "SOR"
  <2>1. r \in Nat /\ 0 \in 0 .. LastWord
    BY <1>1, <1>2
  <2>2. RowWord(r, 0).type = IF r = 0 THEN "SOF" ELSE "SOR"
    BY <2>1, RowWordIs
  <2>3. Word.type = RowWord(r, 0).type
    BY <1>1
  <2> QED
    BY <2>2, <2>3
<1>5. startRow
  BY <1>4, WordAction
<1> DEFINE n == IF Word.type = "SOF" THEN 0 ELSE row_counter + 1
<1>6. n = r
  <2>1. r \in Nat /\ (r > 0 => row_counter = r - 1)
    BY <1>1, <1>2
  <2> QED
    BY <1>4, <2>1
<1>7. /\ row_counter' = r /\ row' = r /\ cursor' = PIXELS_PER_WORD
      /\ frame' = [frame EXCEPT
             !.readouts = @ \cup {pc.readout},
             !.placed = @ /\ r = Word.row,
             !.filled = @ + PIXELS_PER_WORD]
      /\ failed' = failed /\ endCursor' = endCursor /\ mode' = mode /\ delivered' = delivered
  <2>1. n \in 0 .. ROWS - 1
    BY <1>1, <1>6
  <2> QED
    BY <1>1, <1>5, <1>6, <2>1 DEF startRow
<1>8. /\ frame' \in Frames /\ frame'.readouts = {pc.readout} /\ frame'.placed = TRUE
      /\ frame'.filled = frame.filled + PIXELS_PER_WORD
      /\ Lost(frame') = Lost(frame)
  <2>1. frame.filled + PIXELS_PER_WORD \in Int
    BY <1>1, <1>2
  <2>2. frame.readouts \cup {pc.readout} = {pc.readout} /\ {pc.readout} \in SUBSET Readouts
    BY <1>1
  <2>3. (frame.placed /\ r = Word.row) = TRUE
    BY <1>1
  <2>4. frame' = [frame EXCEPT !.readouts = {pc.readout}, !.placed = TRUE,
                               !.filled = frame.filled + PIXELS_PER_WORD]
    BY <1>7, <2>2, <2>3
  <2>5. /\ frame' \in Frames /\ frame'.readouts = {pc.readout} /\ frame'.placed = TRUE
        /\ frame'.filled = frame.filled + PIXELS_PER_WORD
        /\ frame'.pixelsLost = frame.pixelsLost /\ frame'.came = frame.came
    BY <1>1, <2>1, <2>2, <2>4 DEF Frames
  <2> QED
    BY <2>5 DEF Lost
<1>9. frame'.filled + Lost(frame') = r * COLUMNS + 1 * PIXELS_PER_WORD
  <2>1. PICK f \in Int, l \in Int : f = frame.filled /\ l = Lost(frame)
    BY <1>1
  <2>2. 0 * PIXELS_PER_WORD = 0 /\ 1 * PIXELS_PER_WORD = PIXELS_PER_WORD /\ r * COLUMNS \in Int
    BY <1>1, <1>2
  <2>3. f + l = r * COLUMNS + 0 * PIXELS_PER_WORD
    BY <1>1, <2>1
  <2>4. frame'.filled = f + PIXELS_PER_WORD /\ Lost(frame') = l
    BY <1>8, <2>1
  <2> QED
    BY <1>2, <2>1, <2>2, <2>3, <2>4
<1>10. cursor' = 1 * PIXELS_PER_WORD
  BY <1>2, <1>7
<1> QED
  <2>1. ~ PlaceOf(At + 1) = 0 /\ failed' = 0
    BY <1>2, <1>3, <1>7
  <2> QED
    BY <1>1, <1>2, <1>3, <1>7, <1>8, <1>9, <1>10, <2>1, RowsGoOn DEF Gains

(* A word of the middle of a row. *)
LEMMA ReadMiddle ==
    ASSUME AsmInv, processWord, At >= HEADER_WORDS,
           PlaceOf(At) # 0, PlaceOf(At) # LastWord
    PROVE  AsmInv' /\ delivered' = delivered /\ Gains
<1> DEFINE r == RowOf(At)
           k == PlaceOf(At)
<1>1. /\ r \in 0 .. ROWS - 1 /\ k \in 0 .. LastWord /\ Word.row = r /\ Word.word = k
      /\ Word.type = RowWord(r, k).type
      /\ pc.readout \in Readouts /\ frame \in Frames
      /\ frame.filled \in Int /\ Lost(frame) \in Int
      /\ frame.readouts \subseteq {pc.readout} /\ frame.placed = TRUE
      /\ frame.filled + Lost(frame) = r * COLUMNS + k * PIXELS_PER_WORD
      /\ k > 0 => row_counter = r /\ row = r /\ cursor = k * PIXELS_PER_WORD
      /\ At + 1 = ReadoutWords <=> (r = ROWS - 1 /\ k = LastWord)
      /\ At \in Nat
  BY RowWordDue
<1>2. /\ ROWS \in Nat /\ COLUMNS \in Nat /\ LastWord \in Nat \ {0} /\ PIXELS_PER_WORD \in Nat
      /\ failed = 0 /\ LastWord * PIXELS_PER_WORD \in Nat
      /\ LastWord * PIXELS_PER_WORD < COLUMNS
  BY Lengths, RowLength DEF AsmInv
<1>3. k > 0 /\ k < LastWord
  <2>1. k \in 0 .. LastWord /\ k # 0 /\ k # LastWord
    BY <1>1
  <2> QED
    BY <1>2, <2>1
<1>4. RowOf(At + 1) = r /\ PlaceOf(At + 1) = k + 1 /\ At + 1 # ReadoutWords
  <2>1. RowOf(At + 1) = RowOf(At) /\ PlaceOf(At + 1) = PlaceOf(At) + 1
    BY <1>1, <1>3, NextPosition
  <2> QED
    BY <1>1, <1>2, <1>3, <2>1
<1> HIDE DEF r, k
<1>5. Word.type = "MID"
  <2>1. r \in Nat /\ k # 0
    BY <1>1, <1>2, <1>3
  <2> QED
    BY <1>1, <1>3, <2>1, RowWordIs
<1>6. middleOfRow
  BY <1>5, WordAction
<1>7. /\ (k + 1) * PIXELS_PER_WORD = k * PIXELS_PER_WORD + PIXELS_PER_WORD
      /\ (k + 1) * PIXELS_PER_WORD <= LastWord * PIXELS_PER_WORD
      /\ k * PIXELS_PER_WORD \in Int /\ (k + 1) * PIXELS_PER_WORD \in Int
  <2>1. k \in Int
    BY <1>1, <1>2
  <2>2. k * PIXELS_PER_WORD \in Int /\ (k + 1) * PIXELS_PER_WORD \in Int
    BY <1>2, <2>1
  <2> QED
    BY <1>1, <1>3, <2>2, WordColumns
<1>8. /\ cursor' = (k + 1) * PIXELS_PER_WORD /\ row_counter' = r /\ row' = r
      /\ frame' = Stored(pc.readout, Word, PIXELS_PER_WORD)
      /\ failed' = 0 /\ endCursor' = endCursor /\ mode' = mode /\ delivered' = delivered
  <2>1. cursor' = (k + 1) * PIXELS_PER_WORD
    BY <1>1, <1>3, <1>6, <1>7 DEF middleOfRow
  <2>2. cursor' < COLUMNS
    BY <1>2, <1>7, <2>1
  <2> QED
    BY <1>1, <1>2, <1>3, <1>6, <2>1, <2>2 DEF middleOfRow
<1>9. /\ frame' \in Frames /\ frame'.readouts = {pc.readout} /\ frame'.placed = TRUE
      /\ frame'.filled = frame.filled + PIXELS_PER_WORD
      /\ Lost(frame') = Lost(frame)
  <2>1. PIXELS_PER_WORD \in Int /\ row = Word.row /\ cursor = Word.word * PIXELS_PER_WORD
    BY <1>1, <1>2, <1>3
  <2>2. /\ frame \in Frames /\ pc.readout \in Readouts
        /\ frame.readouts \subseteq {pc.readout} /\ frame.placed = TRUE
    BY <1>1
  <2> QED
    BY <1>8, <2>1, <2>2, StoredIs
<1>10. frame'.filled + Lost(frame') = r * COLUMNS + (k + 1) * PIXELS_PER_WORD
  <2>1. PICK f \in Int, l \in Int : f = frame.filled /\ l = Lost(frame)
    BY <1>1
  <2>2. r * COLUMNS \in Int
    BY <1>1, <1>2
  <2>3. f + l = r * COLUMNS + k * PIXELS_PER_WORD
    BY <1>1, <2>1
  <2>4. frame'.filled = f + PIXELS_PER_WORD /\ Lost(frame') = l
    BY <1>9, <2>1
  <2> QED
    BY <1>2, <1>7, <2>1, <2>2, <2>3, <2>4
<1>11. k + 1 > 0 /\ k + 1 # 0
  BY <1>1, <1>2, <1>3
<1> QED
  <2>1. Gains
    BY <1>1, <1>2, <1>9 DEF Gains
  <2> QED
    BY <1>4, <1>8, <1>9, <1>10, <1>11, <2>1, RowsGoOn

(* The word that ends a row but the last. *)
LEMMA ReadRowEnd ==
    ASSUME AsmInv, processWord, At >= HEADER_WORDS, PlaceOf(At) = LastWord,
           RowOf(At) # ROWS - 1
    PROVE  AsmInv' /\ delivered' = delivered /\ Gains
<1> DEFINE r == RowOf(At)
<1>1. /\ r \in 0 .. ROWS - 1 /\ Word.row = r /\ Word.word = LastWord
      /\ Word.type = RowWord(r, LastWord).type
      /\ pc.readout \in Readouts /\ frame \in Frames
      /\ frame.filled \in Int /\ Lost(frame) \in Int
      /\ frame.readouts \subseteq {pc.readout} /\ frame.placed = TRUE
      /\ frame.filled + Lost(frame) = r * COLUMNS + LastWord * PIXELS_PER_WORD
      /\ LastWord > 0 => row_counter = r /\ row = r /\ cursor = LastWord * PIXELS_PER_WORD
      /\ At + 1 = ReadoutWords <=> r = ROWS - 1
      /\ At \in Nat
  BY RowWordDue
<1>2. /\ ROWS \in Nat /\ COLUMNS \in Nat /\ LastWord \in Nat \ {0} /\ PIXELS_PER_WORD \in Nat
      /\ failed = 0 /\ LastWord * PIXELS_PER_WORD \in Nat
  BY Lengths, RowLength DEF AsmInv
<1>3. LastWord > 0
  BY <1>2
<1>4. RowOf(At + 1) = r + 1 /\ PlaceOf(At + 1) = 0 /\ At + 1 # ReadoutWords
  BY <1>1, NextPosition
<1>5. r # ROWS - 1
  OBVIOUS
<1> HIDE DEF r
<1>6. Word.type = "EOR"
  <2>1. r \in Nat /\ LastWord \in 0 .. LastWord
    BY <1>1, <1>2
  <2> QED
    BY <1>1, <1>2, <1>5, <2>1, RowWordIs
<1>7. endRow
  BY <1>6, WordAction
<1>8. /\ row_counter' = r /\ frame' = Stored(pc.readout, Word, COLUMNS - cursor)
      /\ failed' = 0 /\ endCursor' = endCursor /\ mode' = mode /\ delivered' = delivered
  BY <1>1, <1>2, <1>3, <1>7 DEF endRow
<1>9. /\ frame' \in Frames /\ frame'.readouts = {pc.readout} /\ frame'.placed = TRUE
      /\ frame'.filled = frame.filled + (COLUMNS - cursor)
      /\ Lost(frame') = Lost(frame)
  <2>1. COLUMNS - cursor \in Int /\ row = Word.row /\ cursor = Word.word * PIXELS_PER_WORD
    BY <1>1, <1>2, <1>3
  <2>2. /\ frame \in Frames /\ pc.readout \in Readouts
        /\ frame.readouts \subseteq {pc.readout} /\ frame.placed = TRUE
    BY <1>1
  <2>3. PICK n \in Int : n = COLUMNS - cursor
    BY <2>1
  <2>4. frame' = Stored(pc.readout, Word, n)
    BY <1>8, <2>3
  <2>5. /\ frame' \in Frames /\ frame'.readouts = {pc.readout} /\ frame'.placed = TRUE
        /\ frame'.filled = frame.filled + n /\ Lost(frame') = Lost(frame)
    BY <2>1, <2>2, <2>4, StoredIs
  <2> QED
    BY <2>3, <2>5
<1>10. frame'.filled + Lost(frame') = (r + 1) * COLUMNS + 0 * PIXELS_PER_WORD
  <2>1. PICK f \in Int, l \in Int : f = frame.filled /\ l = Lost(frame)
    BY <1>1
  <2>2. /\ r * COLUMNS \in Int /\ (r + 1) * COLUMNS = r * COLUMNS + COLUMNS
        /\ 0 * PIXELS_PER_WORD = 0
    BY <1>1, <1>2
  <2> QED
    BY <1>1, <1>2, <1>3, <1>9, <2>1, <2>2
<1>11. r \in Int /\ ~ 0 > 0
  BY <1>1, <1>2
<1>12. /\ row_counter' = RowOf(At + 1) - 1 /\ ~ PlaceOf(At + 1) > 0
       /\ frame'.filled + Lost(frame')
            = RowOf(At + 1) * COLUMNS + PlaceOf(At + 1) * PIXELS_PER_WORD
  <2>1. row_counter' = RowOf(At + 1) - 1
    <3>1. RowOf(At + 1) = r + 1 /\ row_counter' = r
      BY <1>4, <1>8, Zenon
    <3> QED
      BY <1>11, <3>1
  <2>2. ~ PlaceOf(At + 1) > 0
    BY <1>4, <1>11
  <2>3. frame'.filled + Lost(frame')
          = RowOf(At + 1) * COLUMNS + PlaceOf(At + 1) * PIXELS_PER_WORD
    BY <1>4, <1>10, Zenon
  <2> QED
    BY <2>1, <2>2, <2>3
<1>13. Gains
  <2>1. COLUMNS - cursor \in Nat
    BY <1>1, <1>2, <1>3, RowLength
  <2> QED
    BY <1>1, <1>9, <2>1 DEF Gains
<1> QED
  BY <1>4, <1>8, <1>9, <1>12, <1>13, RowsGoOn

(* The word that ends a frame: the frame is handed over, all counted. *)
LEMMA ReadFrameEnd ==
    ASSUME AsmInv, processWord, At >= HEADER_WORDS, PlaceOf(At) = LastWord,
           RowOf(At) = ROWS - 1
    PROVE  /\ AsmInv' /\ delivered'.readouts = {Due.readout}
           /\ delivered' \in Frames /\ delivered'.ended = "EOF" /\ frame' = NULL
           /\ Lost(delivered') = Lost(frame)
           /\ \E n \in Nat : delivered'.filled = frame.filled + n
<1>1. /\ Word.row = ROWS - 1 /\ Word.word = LastWord
      /\ Word.type = RowWord(ROWS - 1, LastWord).type
      /\ pc.readout = Due.readout /\ pc.readout \in Readouts /\ frame \in Frames
      /\ frame.filled \in Int /\ Lost(frame) \in Int
      /\ frame.readouts \subseteq {pc.readout} /\ frame.placed = TRUE
      /\ frame.filled + Lost(frame) = (ROWS - 1) * COLUMNS + LastWord * PIXELS_PER_WORD
      /\ LastWord > 0 => row = ROWS - 1 /\ cursor = LastWord * PIXELS_PER_WORD
      /\ At + 1 = ReadoutWords
      /\ endCursor = LastWord * PIXELS_PER_WORD
  BY RowWordDue
<1>2. /\ ROWS \in Nat \ {0} /\ COLUMNS \in Nat /\ LastWord \in Nat \ {0}
      /\ PIXELS_PER_WORD \in Nat /\ failed = 0 /\ LastWord * PIXELS_PER_WORD \in Nat
      /\ HEADER_WORDS \in Nat /\ HEADER_WORDS >= 2
  BY Lengths, RowLength DEF AsmInv
<1>3. LastWord > 0
  BY <1>2
<1>4. NetInv /\ DeliveredInv /\ pc # NULL /\ NextWord /\ mode \in {0, 1, 4}
  BY WordAction DEF AsmInv, NetInv
<1>5. /\ Due'.readout = (Due.readout + 1) % READOUTS /\ At' = 0 /\ burst' = 0
      /\ mode' \in {0, 1, 4} => NetInv'
  BY <1>1, <1>4, ReadDue
<1>6. Word.type = "EOF"
  <2>1. ROWS - 1 \in Nat /\ LastWord \in 0 .. LastWord
    BY <1>2
  <2> QED
    BY <1>1, <1>2, <2>1, RowWordIs
<1>7. endFrame
  BY <1>6, WordAction
<1> DEFINE f == Stored(pc.readout, Word, COLUMNS - cursor)
<1>8. /\ row_counter' = -1 /\ delivered' = [f EXCEPT !.ended = "EOF"] /\ frame' = NULL
      /\ failed' = 0 /\ endCursor' = endCursor /\ mode' = mode
  BY <1>2, <1>7 DEF endFrame
<1>9. /\ f \in Frames /\ f.readouts = {pc.readout} /\ f.placed = TRUE
      /\ f.filled = frame.filled + (COLUMNS - cursor)
      /\ Lost(f) = Lost(frame)
  <2>1. COLUMNS - cursor \in Int /\ row = Word.row /\ cursor = Word.word * PIXELS_PER_WORD
    BY <1>1, <1>2, <1>3
  <2>2. /\ frame \in Frames /\ pc.readout \in Readouts
        /\ frame.readouts \subseteq {pc.readout} /\ frame.placed = TRUE
    BY <1>1
  <2>3. PICK n \in Int : n = COLUMNS - cursor
    BY <2>1
  <2>4. f = Stored(pc.readout, Word, n)
    BY <2>3
  <2> HIDE DEF f
  <2>5. /\ f \in Frames /\ f.readouts = {pc.readout} /\ f.placed = TRUE
        /\ f.filled = frame.filled + n /\ Lost(f) = Lost(frame)
    BY <2>1, <2>2, <2>4, StoredIs
  <2> QED
    BY <2>3, <2>5
<1>10. Lost(f) = ROWS * COLUMNS - f.filled
  <2>1. PICK a \in Int, b \in Int : a = frame.filled /\ b = Lost(frame)
    BY <1>1
  <2>2. (ROWS - 1) * COLUMNS = ROWS * COLUMNS - COLUMNS /\ ROWS * COLUMNS \in Int
    BY <1>2
  <2>3. b = ROWS * COLUMNS - (a + (COLUMNS - LastWord * PIXELS_PER_WORD))
    BY <1>1, <1>2, <2>1, <2>2
  <2> QED
    BY <1>1, <1>3, <1>9, <2>1, <2>3
<1> HIDE DEF f
<1>11. /\ delivered' \in Frames /\ delivered'.readouts = {Due.readout}
       /\ delivered'.placed = TRUE /\ delivered'.ended = "EOF"
       /\ delivered'.filled = f.filled /\ Lost(delivered') = Lost(f)
  <2>1. /\ delivered' \in Frames /\ delivered'.readouts = {Due.readout}
        /\ delivered'.placed = TRUE /\ delivered'.ended = "EOF"
        /\ delivered'.filled = f.filled
        /\ delivered'.pixelsLost = f.pixelsLost /\ delivered'.came = f.came
    BY <1>1, <1>8, <1>9 DEF Frames
  <2> QED
    BY <2>1 DEF Lost
<1>12. NetInv'
  BY <1>4, <1>5, <1>8
<1>13. HeaderInv' /\ RowsInv'
  <2>1. ~ At' >= HEADER_WORDS
    BY <1>2, <1>5
  <2> QED
    BY <1>1, <1>5, <1>8, <2>1 DEF HeaderInv, RowsInv
<1>14. DeliveredInv'
  <2>1. delivered' # NULL
    BY <1>11, FrameIs
  <2>2. Before(Due'.readout) = Due.readout
    BY <1>1, <1>5, NextReadout
  <2>3. Lost(delivered') = (ROWS * COLUMNS - delivered'.filled) + 0
    <3>1. ROWS * COLUMNS \in Int /\ f.filled \in Int
      BY <1>2, <1>9, FrameIs
    <3> QED
      BY <1>10, <1>11, <3>1
  <2> QED
    BY <1>11, <2>1, <2>2, <2>3 DEF DeliveredInv
<1> QED
  <2>1. COLUMNS - cursor \in Nat
    BY <1>1, <1>2, <1>3, RowLength
  <2>2. AsmInv'
    BY <1>8, <1>12, <1>13, <1>14 DEF AsmInv
  <2> QED
    BY <1>8, <1>9, <1>11, <2>1, <2>2

LEMMA ReadAsm ==
    ASSUME AsmInv, processWord
    PROVE  AsmInv'
<1>1. At \in Int /\ HEADER_WORDS \in Int
  <2>1. At \in 0 .. ReadoutWords - 1
    BY DueIs DEF AsmInv
  <2> QED
    BY <2>1, Lengths
<1>2. CASE At < HEADER_WORDS
  BY <1>2, ReadHeader
<1>3. CASE At >= HEADER_WORDS /\ PlaceOf(At) = 0
  BY <1>3, ReadRowStart
<1>4. CASE At >= HEADER_WORDS /\ PlaceOf(At) # 0 /\ PlaceOf(At) # LastWord
  BY <1>4, ReadMiddle
<1>5. CASE At >= HEADER_WORDS /\ PlaceOf(At) = LastWord /\ RowOf(At) # ROWS - 1
  BY <1>5, ReadRowEnd
<1>6. CASE At >= HEADER_WORDS /\ PlaceOf(At) = LastWord /\ RowOf(At) = ROWS - 1
  BY <1>6, ReadFrameEnd
<1> QED
  BY <1>1, <1>2, <1>3, <1>4, <1>5, <1>6

-----------------------------------------------------------------------------
(* The theorems.                                                           *)

LEMMA StepAsm ==
    ASSUME AsmInv, HEARD_FROM_START, [Next]_vars
    PROVE  AsmInv'
<1>1. CASE LosePacket
  BY <1>1, LoseAsm
<1>2. CASE onEvent
  BY <1>2, ArriveAsm
<1>3. CASE processWord
  BY <1>3, ReadAsm
<1>4. CASE UNCHANGED vars
  <2>1. /\ toSend' = toSend /\ burst' = burst /\ pc' = pc /\ j' = j /\ mode' = mode
        /\ row_counter' = row_counter /\ cursor' = cursor /\ endCursor' = endCursor
        /\ row' = row /\ frame' = frame /\ delivered' = delivered /\ failed' = failed
    BY <1>4 DEF vars, netVars, asmVars
  <2>2. Due' = Due /\ At' = At
    BY <2>1 DEF Due, At
  <2>3. NetInv'
    <3>1. PacketSize(pc)' = PacketSize(pc) /\ Following(pc)' = Following(pc)
      BY <2>1
    <3> QED
      BY <2>1, <3>1 DEF AsmInv, NetInv
  <2>4. HeaderInv' /\ RowsInv' /\ DeliveredInv'
    BY <2>1, <2>2 DEF AsmInv, HeaderInv, RowsInv, DeliveredInv
  <2> QED
    BY <2>1, <2>3, <2>4 DEF AsmInv
<1> QED
  BY <1>1, <1>2, <1>3, <1>4 DEF Next

(* None of onEvent's assertions fails, however the network loses packets.  *)
THEOREM NoAssertionEverFails ==
    ASSUME HEARD_FROM_START PROVE Spec => []NoAssertionFails
<1>1. Init => AsmInv
  BY InitAsm
<1>2. AsmInv /\ [Next]_vars => AsmInv'
  BY StepAsm
<1>3. AsmInv => NoAssertionFails
  BY DEF AsmInv, NoAssertionFails
<1> QED
  BY <1>1, <1>2, <1>3, PTL DEF Spec

(* The frames that exist are of one readout or none yet, and well placed.  *)
LEMMA AssembledIs ==
    ASSUME AsmInv, NEW f \in Assembled
    PROVE  f.placed = TRUE /\ \E n \in Readouts : f.readouts \subseteq {n}
<1>1. NetInv /\ HeaderInv /\ RowsInv /\ DeliveredInv
  BY DEF AsmInv
<1>2. Due.readout \in Readouts /\ At \in Int /\ HEADER_WORDS \in Int
  <2>1. Due \in Packets /\ At \in 0 .. ReadoutWords - 1
    BY <1>1, DueIs
  <2> QED
    BY <2>1, PacketIs, Lengths
<1>3. f # NULL /\ (f = frame \/ f = delivered)
  BY DEF Assembled
<1>4. CASE f = frame
  BY <1>1, <1>2, <1>3, <1>4 DEF HeaderInv, RowsInv
<1>5. CASE f = delivered
  <2>1. Before(Due.readout) \in Readouts
    BY <1>2, NextReadout
  <2> QED
    BY <1>1, <1>3, <1>5, <2>1 DEF DeliveredInv
<1> QED
  BY <1>3, <1>4, <1>5

(* Every pixel is stored in its own row and column, whatever was lost.     *)
THEOREM PixelsInPlace ==
    ASSUME HEARD_FROM_START PROVE Spec => []RowPlacement
<1>1. Init => AsmInv
  BY InitAsm
<1>2. AsmInv /\ [Next]_vars => AsmInv'
  BY StepAsm
<1>3. AsmInv => RowPlacement
  BY AssembledIs DEF RowPlacement
<1> QED
  BY <1>1, <1>2, <1>3, PTL DEF Spec

(* The rows stored in a frame since it was got are of one readout, and one *)
(* that came with old pixels and keeps some of them counts a loss.         *)
THEOREM FramesNeverMix ==
    ASSUME HEARD_FROM_START PROVE Spec => []NoMixing
<1>1. Init => AsmInv
  BY InitAsm
<1>2. AsmInv /\ [Next]_vars => AsmInv'
  BY StepAsm
<1>3. ASSUME AsmInv PROVE NoMixing
  <2>1. ASSUME NEW f \in Assembled PROVE Cardinality(f.readouts) <= 1
    <3>1. PICK n \in Readouts : f.readouts \subseteq {n}
      BY <1>3, <2>1, AssembledIs
    <3>2. f.readouts = {} \/ f.readouts = {n}
      BY <3>1
    <3>3. Cardinality({}) = 0 /\ Cardinality({n}) = 1
      BY FS_EmptySet, FS_Singleton
    <3> QED
      BY <3>2, <3>3
  <2>2. ASSUME delivered # NULL, KeepsOld(delivered) PROVE Lost(delivered) > 0
    <3>1. /\ delivered \in Frames
          /\ Lost(delivered) = (ROWS * COLUMNS - delivered.filled)
                                  + IF delivered.ended = "cut" THEN COLUMNS ELSE 0
      BY <1>3, <2>2 DEF AsmInv, DeliveredInv
    <3>2. delivered.filled \in Int /\ delivered.filled < ROWS * COLUMNS
      BY <2>2, <3>1, FrameIs DEF KeepsOld
    <3>3. COLUMNS \in Nat /\ ROWS * COLUMNS \in Int
      BY Lengths
    <3> QED
      BY <3>1, <3>2, <3>3
  <2> QED
    BY <2>1, <2>2 DEF NoMixing
<1> QED
  BY <1>1, <1>2, <1>3, PTL DEF Spec

(* The pixels that did not arrive are counted, also in the rows that were  *)
(* lost whole, on top of the count that the frame came with; a frame cut   *)
(* short counts one row more.                                              *)
THEOREM LossesAreCounted ==
    ASSUME HEARD_FROM_START PROVE Spec => []LossAccounted
<1>1. Init => AsmInv
  BY InitAsm
<1>2. AsmInv /\ [Next]_vars => AsmInv'
  BY StepAsm
<1>3. AsmInv => LossAccounted
  BY DEF AsmInv, DeliveredInv, LossAccounted
<1> QED
  BY <1>1, <1>2, <1>3, PTL DEF Spec

-----------------------------------------------------------------------------
(* The stream of frames.                                                   *)

Position(i) == RowOf(i) * COLUMNS + PlaceOf(i) * PIXELS_PER_WORD

(* Later words of a readout are of later pixels. *)
LEMMA PositionGrows ==
    ASSUME NEW i \in Nat, NEW k \in Nat, HEADER_WORDS <= i, i <= k, k < ReadoutWords
    PROVE  /\ Position(i) \in Nat /\ Position(k) \in Nat
           /\ Position(i) <= Position(k) /\ Position(i) <= ROWS * COLUMNS
           /\ ROWS * COLUMNS \in Nat
<1>1. /\ ROWS \in Nat \ {0} /\ COLUMNS \in Nat \ {0} /\ PIXELS_PER_WORD \in Nat \ {0}
      /\ LastWord \in Nat \ {0} /\ WordsPerRow \in Nat \ {0} /\ WordsPerRow = LastWord + 1
      /\ HEADER_WORDS \in Nat /\ ReadoutWords \in Nat
  BY Lengths
<1> DEFINE r == RowOf(i)
           s == RowOf(k)
           a == PlaceOf(i)
           b == PlaceOf(k)
<1>2. /\ r \in 0 .. ROWS - 1 /\ s \in 0 .. ROWS - 1 /\ a \in 0 .. LastWord /\ b \in 0 .. LastWord
      /\ i = HEADER_WORDS + WordsPerRow * r + a /\ k = HEADER_WORDS + WordsPerRow * s + b
      /\ WordsPerRow * r \in Nat /\ WordsPerRow * s \in Nat
  BY <1>1, PositionIs, RowsOfReadout
<1>3. /\ a * PIXELS_PER_WORD \in 0 .. LastWord * PIXELS_PER_WORD
      /\ b * PIXELS_PER_WORD \in 0 .. LastWord * PIXELS_PER_WORD
      /\ LastWord * PIXELS_PER_WORD \in Nat /\ LastWord * PIXELS_PER_WORD < COLUMNS
  BY <1>2, WordColumns, RowLength
<1>4. Position(i) = r * COLUMNS + a * PIXELS_PER_WORD /\ Position(k) = s * COLUMNS + b * PIXELS_PER_WORD
  BY DEF Position
<1> HIDE DEF r, s, a, b
<1>5. /\ r * COLUMNS \in Nat /\ s * COLUMNS \in Nat /\ ROWS * COLUMNS \in Nat
      /\ (ROWS - 1 - r) * COLUMNS \in Nat
      /\ (ROWS - 1 - r) * COLUMNS = ROWS * COLUMNS - COLUMNS - r * COLUMNS
  BY <1>1, <1>2
<1>6. Position(i) \in Nat /\ Position(k) \in Nat /\ Position(i) <= ROWS * COLUMNS
  BY <1>1, <1>3, <1>4, <1>5
<1>7. r <= s
  <2>1. SUFFICES ASSUME s < r PROVE FALSE
    BY <1>2
  <2>2. /\ WordsPerRow * (r - s - 1) \in Nat
        /\ WordsPerRow * (r - s - 1) = WordsPerRow * r - WordsPerRow * s - WordsPerRow
    BY <1>1, <1>2, <2>1
  <2> QED
    BY <1>1, <1>2, <2>2
<1>8. Position(i) <= Position(k)
  <2>1. CASE r = s
    <3>1. a <= b
      BY <1>1, <1>2, <2>1
    <3>2. (b - a) * PIXELS_PER_WORD \in Nat
          /\ (b - a) * PIXELS_PER_WORD = b * PIXELS_PER_WORD - a * PIXELS_PER_WORD
      BY <1>1, <1>2, <3>1
    <3> QED
      BY <1>3, <1>4, <1>5, <2>1, <3>2
  <2>2. CASE r < s
    <3>1. (s - r - 1) * COLUMNS \in Nat
          /\ (s - r - 1) * COLUMNS = s * COLUMNS - r * COLUMNS - COLUMNS
      BY <1>1, <1>2, <2>2
    <3> QED
      BY <1>1, <1>3, <1>4, <1>5, <3>1
  <2> QED
    BY <1>2, <1>7, <2>1, <2>2
<1> QED
  BY <1>5, <1>6, <1>8

(* No frame misses less than nothing. *)
FilledInv == frame # NULL => frame.filled >= 0 /\ Lost(frame) >= 0

(* What is stored or lost are the pixels before the one that is due.       *)
LEMMA FrameDue ==
    ASSUME AsmInv, frame # NULL
    PROVE  /\ At \in Nat /\ HEADER_WORDS <= At /\ At < ReadoutWords
           /\ frame \in Frames /\ frame.filled \in Int /\ Lost(frame) \in Int
           /\ frame.readouts \subseteq {Due.readout}
           /\ pc = NULL => frame.readouts = {Due.readout}
           /\ frame.filled + Lost(frame) = Position(At)
           /\ Position(At) \in Nat /\ Position(At) <= ROWS * COLUMNS /\ ROWS * COLUMNS \in Nat
<1>1. At \in 0 .. ReadoutWords - 1 /\ HeaderInv /\ RowsInv
  BY DueIs DEF AsmInv
<1>2. HEADER_WORDS \in Nat /\ ReadoutWords \in Nat
  BY Lengths
<1>3. At \in Nat /\ HEADER_WORDS <= At /\ At < ReadoutWords
  BY <1>1, <1>2 DEF HeaderInv
<1>4. /\ frame \in Frames /\ frame.readouts \subseteq {Due.readout}
      /\ pc = NULL => frame.readouts = {Due.readout}
      /\ frame.filled + Lost(frame) = Position(At)
  BY <1>1, <1>3 DEF RowsInv, Position
<1> QED
  BY <1>3, <1>4, FrameIs, PositionGrows

Bounded == frame # NULL =>
    /\ At \in Nat /\ HEADER_WORDS <= At /\ At < ReadoutWords
    /\ frame.filled \in Int /\ Lost(frame) \in Int
    /\ frame.filled + Lost(frame) = Position(At)
    /\ Position(At) \in Nat
    /\ frame.filled + Lost(frame) <= ROWS * COLUMNS /\ ROWS * COLUMNS \in Nat
LEMMA FrameBounded == AsmInv => Bounded
BY FrameDue DEF Bounded
LEMMA FrameDueNext == AsmInv' => Bounded'
BY FrameBounded, PTL

Hand == IF frame = NULL THEN 0 ELSE frame.filled

(* A new frame is begun. *)
LEMMA BeginsFrame ==
    ASSUME frame = NULL, frame' # NULL, frame'.filled = 0, delivered' = delivered
    PROVE  Stream!Begin
BY DEF Stream!Begin, Given

(* The frame goes on, with no fewer pixels. *)
LEMMA GainsPixels ==
    ASSUME AsmInv', FilledInv', frame # NULL, frame' # NULL, frame.filled \in Int,
           frame'.filled >= frame.filled, delivered' = delivered
    PROVE  Stream!Gain
<1>1. /\ frame'.filled \in Int /\ Lost(frame') \in Int
      /\ frame'.filled + Lost(frame') <= ROWS * COLUMNS /\ ROWS * COLUMNS \in Nat
  BY FrameDueNext DEF Bounded
<1>2. frame'.filled \in frame.filled .. ROWS * COLUMNS
  BY <1>1 DEF FilledInv
<1>3. Given' = Given
  BY DEF Given
<1> QED
  BY <1>2, <1>3 DEF Stream!Gain

(* The frame is handed over. *)
LEMMA GivesFrame ==
    ASSUME AsmInv, AsmInv', frame # NULL, delivered' \in Frames, frame' = NULL \/ frame'.filled = 0,
           delivered'.readouts = {Due.readout},
           delivered'.filled \in frame.filled .. ROWS * COLUMNS
    PROVE  Stream!Next
<1>1. delivered' # NULL /\ delivered'.filled \in Int /\ ROWS * COLUMNS \in Int
  BY FrameIs, FrameDue
<1>2. DeliveredInv /\ DeliveredInv'
  BY DEF AsmInv
<1>3. Due.readout \in Readouts
  BY DueIs, PacketIs DEF AsmInv
<1>4. (CHOOSE n \in Readouts : delivered'.readouts = {n}) = Due.readout
  BY <1>3
<1>5. PICK extra \in {0, COLUMNS} :
          Lost(delivered') = ROWS * COLUMNS - delivered'.filled + extra
  <2>1. Lost(delivered') = (ROWS * COLUMNS - delivered'.filled)
                                  + IF delivered'.ended = "cut" THEN COLUMNS ELSE 0
    BY <1>1, <1>2 DEF DeliveredInv
  <2> QED
    BY <2>1
<1>6. Given' = [readout |-> Due.readout, pixels |-> delivered'.filled,
                lost |-> Lost(delivered')]
  BY <1>1, <1>4 DEF Given
<1>7. (Given.readout + 1) % READOUTS = Due.readout
  <2>1. CASE delivered = NULL
    <3>1. Due.readout = 0 /\ Given.readout = READOUTS - 1
      BY <1>2, <2>1 DEF DeliveredInv, Given
    <3>2. READOUTS \in Nat /\ READOUTS > 0 /\ (READOUTS - 1) + 1 = READOUTS
      BY LossAssumption
    <3> QED
      BY <3>1, <3>2
  <2>2. CASE delivered # NULL
    <3>1. /\ delivered.readouts = {Before(Due.readout)} /\ Before(Due.readout) \in Readouts
          /\ (Before(Due.readout) + 1) % READOUTS = Due.readout
      BY <1>2, <1>3, <2>2, NextReadout DEF DeliveredInv
    <3>2. (CHOOSE n \in Readouts : delivered.readouts = {n}) = Before(Due.readout)
      BY <3>1
    <3>3. Given.readout = Before(Due.readout)
      BY <2>2, <3>2 DEF Given
    <3> QED
      BY <3>1, <3>3
  <2> QED
    BY <2>1, <2>2
<1>8. Hand' = 0
  BY DEF Hand
<1>9. Stream!Give(extra)
  BY <1>5, <1>6, <1>7, <1>8 DEF Stream!Give, Hand
<1> QED
  BY <1>5, <1>9 DEF Stream!Next

(* The recovery hands over the frame. *)
LEMMA AbandonGives ==
    ASSUME AsmInv, AsmInv', FilledInv, onEvent, frame # NULL, Abandon(COLUMNS - cursor),
           frame' = NULL \/ frame'.filled = 0
    PROVE  Stream!Next
<1>1. /\ frame \in Frames /\ frame.filled \in Int /\ Lost(frame) \in Int
      /\ frame.readouts = {Due.readout} /\ HEADER_WORDS <= At
      /\ frame.filled + Lost(frame) <= ROWS * COLUMNS /\ ROWS * COLUMNS \in Nat
  BY FrameDue DEF onEvent
<1>2. pc = NULL /\ Due.packet # 0
  <2>1. pc = NULL /\ Due \in Packets /\ At = Due.packet * PACKET_WORDS /\ At \in Int
        /\ HEADER_WORDS \in Int
    BY DueIs, Lengths, FrameDue DEF AsmInv, onEvent
  <2> QED
    BY <1>1, <2>1, DueInHeader
<1>3. /\ RowOf(At) \in 1 .. ROWS - 1 /\ PlaceOf(At) \in 1 .. LastWord /\ frame.placed = TRUE
      /\ frame.filled + Lost(frame) = RowOf(At) * COLUMNS + PlaceOf(At) * PIXELS_PER_WORD
      /\ row_counter = RowOf(At) /\ cursor = PlaceOf(At) * PIXELS_PER_WORD
  BY <1>2, RowsDue
<1>4. delivered' \in Frames /\ delivered'.readouts = frame.readouts
  <2>1. RowOf(At) \in Nat /\ PlaceOf(At) \in 0 .. LastWord
    BY <1>3, Lengths
  <2> QED
    BY <1>1, <1>3, <2>1, Abandoned
<1>5. delivered'.filled = frame.filled
  <2>1. delivered' = [frame EXCEPT !.pixelsLost = @ + (COLUMNS - cursor) + RestOfFrame,
                                   !.ended = "cut"]
    BY DEF Abandon
  <2> QED
    BY <1>1, <2>1 DEF Frames
<1>6. delivered'.filled \in frame.filled .. ROWS * COLUMNS
  BY <1>1, <1>5 DEF FilledInv
<1> QED
  BY <1>1, <1>4, <1>6, GivesFrame

(* The packets that arrive hand over the frame, begin one, or add to what  *)
(* it knows to be lost.                                                    *)
LEMMA ArriveStream ==
    ASSUME AsmInv, AsmInv', FilledInv, onEvent
    PROVE  FilledInv' /\ [Stream!Next]_(Stream!vars)
<1>1. /\ NetInv /\ pc = NULL /\ pc' # NULL /\ Due' = toSend /\ At' = toSend.packet * PACKET_WORDS
      /\ failed' = 0 /\ toSend \in Packets
  BY ArriveDue DEF AsmInv, NetInv, onEvent
<1>2. ASSUME frame' = frame, delivered' = delivered
      PROVE  FilledInv' /\ [Stream!Next]_(Stream!vars)
  BY <1>2 DEF FilledInv, Stream!vars, Given
<1>3. CASE nothingToRecover(toSend)
  BY <1>2, <1>3 DEF nothingToRecover, asmVars
<1>4. CASE recoverAtHeader(toSend)
  <2>1. frame' = NULL /\ Abandon(COLUMNS - cursor)
    BY <1>4 DEF recoverAtHeader
  <2>2. CASE frame = NULL
    BY <1>2, <2>1, <2>2 DEF Abandon
  <2>3. CASE frame # NULL
    BY <2>1, <2>3, AbandonGives DEF FilledInv
  <2> QED
    BY <2>2, <2>3
<1>5. ASSUME RowFound(toSend) PROVE toSend.packet # 0
  BY <1>1, <1>5, HeaderStart DEF RowFound
<1>6. ASSUME toSend.packet # 0 PROVE frame' # NULL /\ At' >= HEADER_WORDS
  <2>1. At' >= HEADER_WORDS
    BY <1>1, <1>6, DueInHeader
  <2>2. frame' \in Frames
    BY <2>1 DEF AsmInv, RowsInv
  <2> QED
    BY <2>1, <2>2, FrameIs
<1>7. CASE recoverInNextFrame(toSend)
  <2>1. PICK came \in Came :
        /\ toSend.packet # 0 /\ Abandon(missing(toSend))
        /\ ContinueAt(toSend, NewFrame(NextMode, came), next_row(toSend) * COLUMNS)
    BY <1>5, <1>7 DEF recoverInNextFrame
  <2>2. frame' # NULL
    BY <1>6, <2>1
  <2>3. frame'.filled = 0
    <3>1. frame' = [NewFrame(NextMode, came) EXCEPT
                      !.pixelsLost = @ + next_row(toSend) * COLUMNS + next_cursor(toSend)]
      BY <2>1 DEF ContinueAt
    <3> QED
      BY <3>1 DEF NewFrame
  <2>4. FilledInv'
    BY <2>2, <2>3, FrameDueNext DEF Bounded, FilledInv
  <2>5. CASE frame = NULL
    <3>1. delivered' = delivered
      BY <2>1, <2>5 DEF Abandon
    <3> QED
      BY <2>2, <2>3, <2>4, <2>5, <3>1, BeginsFrame DEF Stream!Next
  <2>6. CASE frame # NULL
    <3>1. endCursor = LastWord * PIXELS_PER_WORD
      BY <2>6, FrameDue DEF AsmInv, RowsInv
    <3>2. missing(toSend) = COLUMNS - cursor
      BY <1>1, <2>1, <3>1, FoundPlace
    <3> QED
      BY <2>1, <2>3, <2>4, <2>6, <3>2, AbandonGives
  <2> QED
    BY <2>4, <2>5, <2>6
<1>8. CASE recoverInSameFrame(toSend)
  <2>1. /\ toSend.packet # 0 /\ frame # NULL /\ delivered' = delivered
        /\ ContinueAt(toSend, frame, Skipped(toSend))
    BY <1>5, <1>8 DEF recoverInSameFrame, BeginsNext
  <2>2. /\ frame' # NULL /\ frame' \in Frames /\ frame'.readouts \subseteq {toSend.readout}
    BY <1>1, <1>6, <2>1 DEF AsmInv, RowsInv
  <2>3. /\ frame \in Frames /\ frame.filled \in Int /\ Lost(frame) \in Int
        /\ frame.readouts = {Due.readout} /\ frame.filled + Lost(frame) = Position(At)
        /\ At \in Nat /\ HEADER_WORDS <= At
    BY <1>1, <2>1, FrameDue
  <2>4. frame'.filled = frame.filled /\ frame'.readouts = frame.readouts
    <3>1. frame' = [frame EXCEPT !.pixelsLost = @ + Skipped(toSend) + next_cursor(toSend)]
      BY <2>1 DEF ContinueAt
    <3> QED
      BY <2>3, <3>1 DEF Frames
  <2>5. At <= At'
    <3>1. Due.readout = toSend.readout
      BY <2>2, <2>3, <2>4
    <3>2. toSend.readout \in Readouts /\ toSend.packet \in Nat /\ burst \in Nat /\ PACKET_WORDS \in Nat
      BY <1>1, PacketIs, Lengths, LossAssumption, PacketCount DEF NetInv
    <3>3. Before(toSend.readout) # toSend.readout
      BY <3>2, LossAssumption DEF Before, Readouts
    <3>4. Due.packet = toSend.packet - burst /\ At = Due.packet * PACKET_WORDS
      BY <1>1, <3>1, <3>2, <3>3, DueIs
    <3>5. /\ burst * PACKET_WORDS \in Nat /\ toSend.packet * PACKET_WORDS \in Nat
          /\ (toSend.packet - burst) * PACKET_WORDS
               = toSend.packet * PACKET_WORDS - burst * PACKET_WORDS
      BY <3>2
    <3> QED
      BY <1>1, <3>4, <3>5
  <2>6. /\ At' \in Nat /\ At' < ReadoutWords
        /\ frame'.filled \in Int /\ Lost(frame') \in Int
        /\ frame'.filled + Lost(frame') = Position(At)'
    BY <2>2, FrameDueNext DEF Bounded
  <2>7. Position(At) <= Position(At)' /\ Position(At) \in Nat /\ Position(At)' \in Nat
    <3>1. PICK i \in Nat, k \in Nat : i = At /\ k = At'
      BY <2>3, <2>6
    <3>2. Position(i) <= Position(k) /\ Position(i) \in Nat /\ Position(k) \in Nat
      BY <2>3, <2>5, <2>6, <3>1, PositionGrows
    <3>3. Position(At)' = Position(k)
      BY <3>1 DEF Position, RowOf, PlaceOf
    <3> QED
      BY <3>1, <3>2, <3>3
  <2>8. FilledInv'
    <3>1. frame.filled >= 0 /\ Lost(frame) >= 0
      BY <2>1 DEF FilledInv
    <3>2. Lost(frame') >= Lost(frame)
      BY <2>3, <2>4, <2>6, <2>7
    <3> QED
      BY <2>3, <2>4, <2>6, <3>1, <3>2 DEF FilledInv
  <2>9. Stream!Gain
    BY <2>1, <2>2, <2>3, <2>4, <2>8, GainsPixels
  <2> QED
    BY <2>8, <2>9 DEF Stream!Next
<1> QED
  BY <1>3, <1>4, <1>7, <1>8 DEF onEvent

(* A word begins the frame, adds its pixels to it, or ends it.             *)
LEMMA ReadStream ==
    ASSUME AsmInv, AsmInv', FilledInv, processWord
    PROVE  FilledInv' /\ [Stream!Next]_(Stream!vars)
<1>1. At \in Int /\ HEADER_WORDS \in Int
  <2>1. At \in 0 .. ReadoutWords - 1
    BY DueIs DEF AsmInv
  <2> QED
    BY <2>1, Lengths
<1>2. CASE At < HEADER_WORDS
  <2>1. /\ delivered' = delivered
        /\ \/ frame' = frame
           \/ frame = NULL /\ frame' # NULL /\ frame'.filled = 0 /\ Lost(frame') = 0
    BY <1>2, ReadHeader
  <2>2. CASE frame' = frame
    BY <2>1, <2>2 DEF FilledInv, Stream!vars, Given
  <2>3. CASE frame = NULL /\ frame' # NULL /\ frame'.filled = 0 /\ Lost(frame') = 0
    BY <2>1, <2>3, BeginsFrame DEF FilledInv, Stream!Next
  <2> QED
    BY <2>1, <2>2, <2>3
<1>3. ASSUME delivered' = delivered, Gains
      PROVE  FilledInv' /\ [Stream!Next]_(Stream!vars)
  <2>1. /\ frame # NULL /\ frame' # NULL /\ frame.filled \in Int /\ Lost(frame) \in Int
        /\ Lost(frame') = Lost(frame)
    BY <1>3, FrameIs DEF Gains
  <2>2. PICK n \in Nat : frame'.filled = frame.filled + n
    BY <1>3 DEF Gains
  <2>3. frame'.filled >= frame.filled /\ FilledInv'
    BY <2>1, <2>2 DEF FilledInv
  <2> QED
    BY <1>3, <2>1, <2>3, GainsPixels DEF Stream!Next
<1>4. CASE At >= HEADER_WORDS /\ PlaceOf(At) = 0
  BY <1>3, <1>4, ReadRowStart
<1>5. CASE At >= HEADER_WORDS /\ PlaceOf(At) # 0 /\ PlaceOf(At) # LastWord
  BY <1>3, <1>5, ReadMiddle
<1>6. CASE At >= HEADER_WORDS /\ PlaceOf(At) = LastWord /\ RowOf(At) # ROWS - 1
  BY <1>3, <1>6, ReadRowEnd
<1>7. CASE At >= HEADER_WORDS /\ PlaceOf(At) = LastWord /\ RowOf(At) = ROWS - 1
  <2>1. /\ delivered'.readouts = {Due.readout} /\ delivered' \in Frames /\ frame' = NULL
        /\ delivered'.ended = "EOF" /\ Lost(delivered') = Lost(frame)
    BY <1>7, ReadFrameEnd
  <2>2. PICK n \in Nat : delivered'.filled = frame.filled + n
    BY <1>7, ReadFrameEnd
  <2>3. frame # NULL /\ frame.filled \in Int /\ Lost(frame) \in Int
    BY <1>7, RowWordDue
  <2>4. ROWS * COLUMNS \in Int /\ delivered'.filled \in Int /\ delivered' # NULL
    BY <2>1, <2>3, FrameIs, FrameDue
  <2>5. delivered'.filled <= ROWS * COLUMNS
    <3>1. Lost(delivered') = (ROWS * COLUMNS - delivered'.filled)
                                    + IF delivered'.ended = "cut" THEN COLUMNS ELSE 0
      BY <2>4 DEF AsmInv, DeliveredInv
    <3> QED
      BY <2>1, <2>3, <2>4, <3>1 DEF FilledInv
  <2>6. delivered'.filled \in frame.filled .. ROWS * COLUMNS
    BY <2>2, <2>3, <2>4, <2>5
  <2> QED
    BY <2>1, <2>3, <2>6, GivesFrame DEF FilledInv
<1> QED
  BY <1>1, <1>2, <1>4, <1>5, <1>6, <1>7

LEMMA StreamStep ==
    ASSUME AsmInv, FilledInv, HEARD_FROM_START, [Next]_vars
    PROVE  FilledInv' /\ [Stream!Next]_(Stream!vars)
<1>1. AsmInv'
  BY StepAsm
<1>2. ASSUME frame' = frame, delivered' = delivered
      PROVE  FilledInv' /\ [Stream!Next]_(Stream!vars)
  BY <1>2 DEF FilledInv, Stream!vars, Given
<1>3. CASE LosePacket
  BY <1>2, <1>3 DEF LosePacket, asmVars
<1>4. CASE onEvent
  BY <1>1, <1>4, ArriveStream
<1>5. CASE processWord
  BY <1>1, <1>5, ReadStream
<1>6. CASE UNCHANGED vars
  BY <1>2, <1>6 DEF vars, asmVars
<1> QED
  BY <1>3, <1>4, <1>5, <1>6 DEF Next

(* The assembler implements the stream of frames: each readout is handed    *)
(* over once and in order, complete or not, with every pixel it was given,  *)
(* however the network loses packets (at most MAX_BURST in a row).         *)
THEOREM AssemblerImplementsStream ==
    ASSUME HEARD_FROM_START PROVE Spec => ImplementsStream
<1>1. Init => AsmInv /\ FilledInv /\ Stream!Init
  <2>1. Init => frame = NULL /\ delivered = NULL
    BY DEF Init
  <2> QED
    BY <2>1, InitAsm DEF FilledInv, Stream!Init, Given
<1>2. AsmInv /\ FilledInv /\ [Next]_vars => (AsmInv /\ FilledInv)' /\ [Stream!Next]_(Stream!vars)
  BY StepAsm, StreamStep
<1> QED
  BY <1>1, <1>2, PTL DEF Spec, ImplementsStream, Stream!Spec
=============================================================================
