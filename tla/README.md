# mpx3-driver: formal models

TLA+ models of the driver that receives the pixel packets of a Medipix3 detector
behind a SPIDR board, puts them together to frames, hands whole frame sets to a
client and controls the board. The modules are checked with TLC on small
instances; most of what is checked is also proved for every value of the
constants with TLAPS.

Paths below are relative to the repository; the code is in `src/`.

## 1. Inventory

```
 SPIDR --UDP, one socket per chip--> UdpReceiver::run       (one thread)
                                       | onEvent(packet)
                                     FrameAssembler (one per chip)
                                       | newChipFrame / putChipFrame
                                     FrameSetManager --- ring of FrameSets
                                       ^ wait / getFrameSet / releaseFrameSet
 client (Dexter) -----------------> SpidrDaq                (client's thread)
 client, main -----TCP request/reply--> SpidrController --> SPIDR

 older, still compiled:
 SPIDR --UDP--> ReceiverThread(C), one thread and ring per chip
                  | inputNotification
                FramebuilderThread(C)  --> decoders on a thread pool
```

| Component | State it keeps | Operations | What is hard | What makes it correct |
|---|---|---|---|---|
| `FrameSetManager`, `FrameSet`, `ChipFrame` | free running `head_`, `tail_`; `headState`, `tailState`; the draft's `frameId`, `expectCounterH`; per slot the number of counters and a pointer per chip and counter; two statistics | `newChipFrame`, `putChipFrame` (receiving thread); `wait`, `getFrameSet`, `releaseFrameSet` (client) | two threads that hold different mutexes and meet in two atomics and a condition variable; frames recycled by pointer; sets complete by occupancy only | bounded ring, one owner per frame, a set the reader holds is stable, FIFO, each set counted once, nothing stays in the ring for ever |
| `FrameAssembler` | row, cursor, current frame, counter depth, OMR, look-up tables | `onEvent(packet)`, `lutInit`, `lutBugFix` | packets lost anywhere; what was lost is inferred from the phase of rows in packets and from row numbers | pixels in their place, readouts never mixed, each handed over once, the number of missing pixels right |
| `UdpReceiver` | sockets, `finished`, one packet buffer per chip | `initThread`, `run` | errors of `recv` and `bind`, shutdown | each packet inspected once by its chip's assembler |
| `SpidrDaq` | pointers to the above | start-up for a controller; the client's interface | requests that fail while the detector is found and sockets are opened | the module sends for the devices asked for, and they are heard |
| `SpidrController` | socket, last request and reply, pixel configuration, busy count | some hundred requests, a few of them compound | replies later than their time-out, read-modify-write of registers | a result of true means the module was set, other bits survive |
| `main` | configuration | one acquisition | results that nobody looks at; nothing ends the receiver | no trigger before the receiver runs; a fault costs one setting |
| `ReceiverThread(C)` | a ring of frame buffers per chip, what packet or row is expected, statistics | `readDatagrams`, `handleFrameTimeout`, `releaseFrame`, `run`, `stop` | lost, repeated and reordered packets, time-outs that race late ones, overruns | a frame's count of losses is what it misses, published frames are stable, `stop` returns |
| `FramebuilderThread(C)` | what frame number each chip is at, `_stop`, `_abortFrame` | `run`, `processFrame`, `inputNotification`, `stop` | wake-ups that share one condition, chips that miss different frames | frames of one number are put together, none is slept through |
| `OMR` | 48 bits | field access | widths, signs and reversals | a field read is the field written |
| `libs/` | | | | vendored; the program logs with spdlog and does not use the Disruptor |

All hazards found in the code, with their lines and the properties that cover
them, are in `PROJECT.json`.

## 2. Modules

| Module | What it is |
|---|---|
| `FrameSetManager` | the ring, one action per operation or part of it |
| `FrameSetManagerProps` | its properties, and the refinement mapping to `FrameQueue` |
| `FrameQueue` | what the ring promises: a bounded FIFO of whole sets with statistics |
| `DetectorReadout` | the ring (it extends `FrameSetManagerProps`) composed with the order in which the detector reads out its chips, and the loss of parts of it |
| `FrameAssembler` | `onEvent` for one chip, composed with a network that loses packets |
| `FrameStream` | what an assembler promises: one frame of each readout, in order, with its losses; `FrameAssembler` has the refinement mapping |
| `SpidrController` | requests, replies and time-outs, and the operations made of them |
| `Acquisition` | `main`, `main stop` and the constructor of `SpidrDaq`, over `SpidrController`, with the start of the receiver |
| `ReceiverThread`, `ReceiverThreadC` | the two Qt receivers; the second extends the first as the class does |
| `ReceiverRing` | what their ring promises the consumer; `ReceiverThread` has the refinement mapping |
| `FrameBuilder` | the Qt frame builder over the rings of N receivers |
| `PixelLut`, `OMR`, `PixelConfig` | what rearranges bits: look-up tables, the register, the pixel configuration; `Layouts` runs them side by side |
| `FrameSetManagerProofs` | theorems about the ring, and that it implements the queue |
| `ReadoutProofs` | about the readouts in the ring, over these |
| `AcquisitionProofs` | about the programs, over `SpidrProofs` |
| `AssemblerProofs`, `SpidrProofs`, `ReceiverProofs`, `FrameBuilderProofs`, `LayoutsProofs` | about the assembler, the controller, the receivers, the builder, the layouts |
| `MC...` | constants for TLC |

### FrameSetManager

Variables have the names of the members they stand for, without the underscore.
`frame[<<s, j, c>>]` is `fs[s].frame[j][c]`. ChipFrames are objects of a small
heap: `heap[o]` is `Free`, `Garbage` (a `new ChipFrame()`, whose constructor
writes nothing), `Clear` (after `clear()`), or a payload. `holding[c]` is the
frame chip c's assembler got from `newChipFrame` and has not yet put back.

The receiving thread holds `headMut` for a whole call, and there is one
receiving thread for all chips, so its calls do not interleave with each other.
They do interleave with the client's, which hold `tailMut`. A call is one action
for each stretch in which the other side sees at most one change:

| Code | Actions |
|---|---|
| `newChipFrame` | `newChipFrame` = `takeChipFrame`, `allocateChipFrame` or the failing assertion |
| `putChipFrame`, lines 56-64 | `putChipFrame` |
| lines 64-75, a frame with another id | `startNewFrame` = `dropDraft` or `publishDraft` |
| lines 76-80 and `FrameSet::putChipFrame` | `storeChipFrame` |
| lines 80-92, the set is complete | `finishFrame` |
| `wait` | `waitFindsNothing`, `waitBlocks`, `waitTimesOut`; `Notified` is `notify_one` |
| `getFrameSet` | `getFrameSet`; calls that return `nullptr` change nothing |
| `releaseFrameSet` | `releaseFrameSet` = `releaseLent`, `releaseOldest`, `releaseSpurious`; then `advanceTail` for `tail_++` |
| `SpidrDaq::resetLostCount` | `resetLostCount`, which a concurrent increment may undo |

`isFull()` and the `head_++` after it are one action. Between the two the client
can only move `tail_`, which leaves a ring that was not full not full, and it
does not look at what `head_` guards before it moves.

### DetectorReadout

The ring does not see readouts, only occupied spots. That its sets are readouts
rests on how it is driven: all chips start a pass before any of them ends it.
The module adds this order, with the low and the high counter as two passes at
24 bit, and what the assemblers do when packets are lost: a pass that is missed
altogether, one whose header is missed (`BeginLate`), one whose end is missed,
so that the frame is given back when the next pass of the chip begins
(`FinishCut`). Of the assembler its calls are left and `mode`, which it stores
in a frame: the header's, or after `BeginLate` at 24 bit the one that the recovery
guesses (`GuessedMode`), which `guessed` remembers. The frame's id is
whatever memory holds, since `onEvent` never stores one; the runs take 0, what a
fresh page of the heap holds. The heap's places are taken in order.

### FrameAssembler

One chip. The stream is generated word by word from the packet geometry: info
header, then rows of SOF/SOR, MID, EOR/EOF words, cut into packets of
`PACKET_WORDS`. A pixel's value is replaced by where it comes from: a frame
keeps the readouts written into it, how many pixels it got, and whether each
went to the row and column it belongs to. `onEvent` is the loss test and
recovery of lines 16-100 (one action, with an alternative for each branch);
`processWord` is one round of the loop over the packet's words. The frame that
`newChipFrame` returns may be cleared (`Came`: no old pixels, `pixelsLost` 0), or
come as it is: a `new ChipFrame()` writes nothing, and a frame taken back from
the set in progress still has its pixels and its count. `onEvent` only adds to
that count, so the model keeps what the frame came with and the properties speak
of the difference (`Lost`). Chip ids are real ones: with a number below 5 in the
header (`FrameAssembler.cpp:167` and `:173`) no frame is got and the first row is
written through a null pointer. An assertion
that fails sets `failed` to its line and stops the model. The refinement maps
`frame` to the pixels in hand of `FrameStream` and `delivered` to the frame
given last; which packets and words there are is no longer seen.

In the build the geometry of 12-bit readout is 8 header words and 256 rows of 52
words (51 of 5 pixels, one of a single pixel), in 11 packets of 9000 bytes and
one of 7560. No packet starts with a row and no two start at the same place of a
row; the loss test relies on this, `GeometryAssumption` states it, and the small
instances satisfy it. So do 1-bit (256 rows of 5 words, 2 packets), 6-bit (26
words, 6 packets) and 12-bit readout (52 words, 12 packets) of the build.

### SpidrController

A request writes its message and waits for the reply, each for a limited time
(`request`, lines 1713-1821). `pending` holds the messages the module has not
handled, `sock` the replies that have arrived. `SendRequest`, `SendTimeOut`,
`ReplyTimeOut` and `ReadReply` are the four ways through `request`; `read` takes
all that is in the socket and looks at the first reply, so that a late reply
shifts all later ones. A message whose sending timed out may or may not be sent
by Qt later. `Answer` and `Refuse` are the module's (external).

An operation is a sequence of requests in `op`. `skip` says how many requests a
failure abandons and `tested` whether the caller gives up the whole operation,
which is how the code's `if( !... ) return false` and its ignored results differ.
A word is the set of its bits. Operations that make a single request are alike
but for their command, so the commands are sets of names (`DeviceSettings` and
others) and one action stands for each set; registers, DACs and flash addresses
are the ones whose reply is compared with the request (`Echoed`).

### Acquisition

Three programs, each a sequence of places; an `Operation` is one operation of
the controller and ends with its result, which most callers ignore (`Ignored`).
The module starts as an earlier program may have left it, triggering or not and
with every setting wrong. The receiver is what matters to these programs:
`MakeReceiver` (tables for the firmware, the first port), `BindNext` and
`BindFails`, `Spawn`. `main` ends in `join`, since nothing sets `finished`.

### ReceiverThread and ReceiverThreadC

The ring is `head`, `tail`, `empty` with the contents of the buffers: which
position of the frame was stored, and of which counter. `SameFrame` and
`NewFrame` read a numbered packet and find that it continues the frame or not;
`Store` copies it and may end the frame. The two are steps of their own because
the consumer's `releaseFrame` may come between, and so that each changes the
ring once. `handleFrameTimeout` is a wait without a packet. `run` takes itself
for stopped until its socket is open (`BeginRun`, `Open`).

`shutter_cnt` is compared and never assigned (`ReceiverThread.cpp:251`): any
value of `Shutters` may be found at any packet. The number of the first packet,
and the size of any packet taken for the first, decide the geometry; packets of
a wrong size mislead the receiver, which `history.misled` records.

In `ReceiverThreadC` packets carry words without numbers; what the module sends
is generated word by word, and `LosePacket` leaves out the words of one packet.
The actions are the cases of the switch in its `readDatagrams`.

`resetLost` takes no lock and may come at any time. While the thread runs, any of
the totals it clears may be written back by an increment that had read it
before (`Cleared`); packets and words are steps, so a reset falls between two.

`history` and `cut` stand for nothing in the code: the first remembers what
became of frames that are gone, the second how the module cuts frames. A frame
that ends by time-outs leaves in `history.losses` what its last packet had shown
to be lost, which is what `readDatagrams` had put into the total by then.

### FrameBuilder

Receivers publish (`nextFrameBuffer`) and then notify, two steps. The builder's
places `pc` follow `run` and `processFrame`: tests outside the mutex are steps
of their own, the test and the wait under the mutex are one. `todo` is what a
loop over the receivers still has to do. Only receivers in `notifiers` have a
builder to notify: all of them or just the first, as the comment of
`nextFrameBuffer` has it (`ReceiverThread.cpp:366`); nothing in the repository
sets them up any more.

`gathered`, `dropped` and `common` are for `Gathers` and `processed` for
`Aligned`.

### PixelLut, OMR, PixelConfig

`PixelLut` fills both tables by one turn of the loop in `lutInit` per step, at 6
and 12 bit. `OMR` is the register as a set of bits; an `int` that becomes a
`long` takes its sign along (`ToLong`), which is why `setLowR` overwrites the
high part. `PixelConfig` keeps a word per pixel and gives the planes in which a
row is sent.

### Variants

Operators named `...Variant` belong to no specification. Each is a definition
with a plausible mistake (a missing reset, an off-by-one, a dropped guard), put
beside the correct one to see that a property notices. `PROJECT.json` pairs
every property of every passing run with one.

## 3. Runs

| Run | Instance | What it shows |
|---|---|---|
| `fsm_ring` | 2 chips, 12 bit, 2 slots, indices modulo 4, 6 objects, stale releases | `TypeOK`, `RingBounded`, `OneOwner`, `ReaderHoldsPublished` for chips in any order |
| `fsm_queue` | 1 chip, 12 bit, 4 slots, indices modulo 4, fair | `ImplementsQueue` and `EverySetReturns` with a well behaved reader |
| `readout` | 2 chips, 12 and 24 bit, 2 slots, 10 objects, at most one loss | `WholeSets` and `CountsAddUp` without loss, `NeverMixed` with one, `AssertionsHold`, `CleanRecycle` |
| `assembler` | 6 rows of 7 pixels, 3 packets a readout, bursts of up to 2, frames that come cleared or not | `NoAssertionFails`, `RowPlacement`, `NoMixing`, `LossAccounted`, `ImplementsStream` |
| `spidr` | 1 device, 2 rows, 2 registers, 2 faults, 3 operations | `SuccessIsReal`, `NoForeignBits`, `ReadsCurrent`, `BitWriteIsLocal` |
| `acquisition` | 4 devices of which one is missing, 1 fault, 3 readout masks | `QuietUntilReceiving`, `OneFaultOneSetting`, `TablesErrOneWay`, `EnabledAsAsked`, `Settles` |
| `receiver` | 3 buffers; 3 numbered packets, or 4 frames of 4 rows with 2 packets lost; resets at any time | `LostFrameIsMissing`, `TotalsAddUp`, `FlaggedIsCounterH`, `NoSilentLoss`, `ImplementsRing`, `CutFrameEnds`, `StopReturns` |
| `builder` | 3 receivers, rings of 2, 1 call of the client | `NoSleepOnInput`, `NoSleepOnLagging`, `Aligned`, `Gathers` |
| `layouts` | all codes of 6 and 12 bit; 4 settings of the register; 2 by 2 pixels, 2 calls | `WalkMeetsAll`, `FixUndoesBug`, `FieldsKept`, `PixelsAsAsked` |
| `readout_loss` | as `readout` | violates `AllSetsWhole` |
| `assembler_midframe` | rows of 9 pixels, the first packet seen is inside a readout | violates `NoAssertionFails` |
| `receiver_timeout` | as `receiver` | violates `TimeoutLossCounted` |

**The ring's bounds.** Two slots are the smallest ring that can be full (one slot is always
the draft's) and `UINT_RANGE` 4 makes the indices wrap after every other lap,
with head and tail on different sides of the wrap; `fsm_queue` has four slots so
that the queue holds three sets. Two frame ids are enough for "the draft's" and
"another". `Objects` is the heap's size; a `newChipFrame` that would need one
more would not be taken, so it has to be enough: a frame sits at a spot or in an
assembler's hands, which makes 2 slots x 1 counter x 2 chips + 2 = 6 in
`fsm_ring` (12 bit never uses the spots of a high counter), 4 x 1 + 1 = 5 in
`fsm_queue` and 2 x 2 x 2 + 2 = 10 in `readout`.
Objects and chips that are only told apart by name are interchangeable in
`fsm_ring`, chips in `readout`; a run with a liveness
property uses no symmetry. `fsm_ring` switches deadlock checking
off because a stale release can end in the assertion of `releaseFrameSet`, which
stops the process.

`CleanRecycle` is checked in `readout`, where both counters' frames are recycled,
also after losses, blank and in the wrong place, and releases interleave with the
receiving thread, but a behaviour keeps its depth and sets are returned once. That it holds while the
depth changes at any frame and with stale releases is theorem
`RecycledSlotsAreClean`; an instance with two chips and all depths is too large.

`MAX_LOSSES` is 1: one loss already leaves the chips out of step for good, and
the run follows that through every later state. With two losses frames of
different readouts do share sets (chip A of one, chip B of the next), which
`NeverMixed` does not claim to exclude. The loss may be of any part of a pass, also
of its beginning at 24 bit. Readouts are counted modulo four. The run has 2.8
million states.

**The assembler's.** A packet's boundary falls on the middle and on the
last word of a row, three packets allow the loss of one, the first, a middle or
the last, of two in a row across a readout's end, and four readouts (modulo)
tell a readout from its two neighbours. A burst of a whole readout or more
cannot be noticed by row numbers and is excluded by `MAX_BURST`; `OLD_COUNTS` are
the counts of a frame that comes uncleared, of which only differences are looked
at; two tell whether the count was set or added to; that the first
packet ever received is a header is `HEARD_FROM_START`, which
`assembler_midframe` drops.

**The controller's.** What goes wrong needs at most two faults (a time-out that
leaves a reply behind and a refusal that it hides) and three operations (one
that sets what another may spoil, one that is late, one that reads the late
reply), with a register that has two bits and one that has another. Two rows
make an upload that can fail at its first and its last row. One operation of
each kind is in the instance; the sets of single-request commands are
represented by one of each, since nothing tells their members apart.

**The programs'.** `MaxFaults` is 1, as `QuietUntilReceiving` claims no more;
`OneFaultOneSetting` is stated for any number. Three masks: all devices, one
with device 0 and one without. `MaxCalls` 20 is above what any program makes
and binds nothing.

**The receivers'.** With three buffers the ring overruns at the third frame a
consumer leaves. Frames of three packets (of sizes 2, 2 and 1) or one (of size 5),
numbered over both counters; three packets complete a frame of three or three
of one, or leave up to three cut frames, in any order and with repetitions. It
takes three packets a frame for one to be cut after a loss in it (the first
missing, the second there, the third not); a fourth packet brings states but,
as the theorems show, nothing new. Words: frames of 4 rows, 4 words a
row and one header word, in three packets of at most 6 words, of which SOR, EOR
and EOF fall on different places (`PacketsCutRows`, section 4). Three packets in
a row that make up a whole frame are not seen by `ReceiverThreadC`, hence
`MaxLosses` 2. `MaxBeforeStop`
bounds the packets before a call of `stop`, whose place in the thread's life
matters, not its place in the data.

**The builder's.** Three chips, so that one lags, one leads and one does
neither; a ring of two that overruns; frame numbers modulo 8 that run over. The
streams are given: chips that miss different frames and one number that cannot
be read, and chips none of which can read its first number.

**Deadlock checking** is off where behaviours end: the faults, packets or calls
of the bound are used up (`spidr`, `builder`, `layouts`), the
programs end (`acquisition`), an assertion stops the process
(`assembler_midframe`, `fsm_ring`). `receiver` never stops, as `resetLost` is
always possible.

**Fairness.** In `fsm_queue` it is asked of the client alone: it leaves `wait`
when the time is over, fetches a set that is there, returns it and finishes the
call. Nothing is asked of the receiving thread, whose input may stop at any time.
A notification sent between `wait`'s test and its sleep is lost in the model as
in the code; `EverySetReturns` holds because of the time limit, as its variant
shows. In `acquisition` a program goes on and every request ends, by its reply or
its time limit, both of which the code and Qt see to; faults are never required.
In `receiver` the thread runs and a wait without a packet ends after its 100 ms;
no packet is required to come. In `builder` the thread runs and a receiver that
has published goes on to notify; no frame is required to come and no call to be
made.

## 4. Disagreements with the code

Shown by runs that TLC refutes:

* **Sets after a loss** (`readout_loss`). Since `onEvent` keeps the frame id to
  itself (`FrameAssembler.cpp:146`), nothing but occupied spots tells whether a
  set is complete. Recycled sets keep their frames, blank, at their spots. A
  chip that misses one pass does not take its frame out, so the set is published
  with the blank one, and is not counted as lost; the chips stay out of step
  after it.
* **The first row after starting in mid-stream** (`assembler_midframe`).
  `endCursor` starts as 256, not 255, so a stream first heard inside a readout
  is placed one pixel off and the assertion of `FrameAssembler.cpp:135` stops
  the process.
* **The total of lost packets** (`receiver_timeout`). "declare the frame complete,
  count the loss and continue" (`ReceiverThread.cpp:347`): nothing adds to
  `_packetsLost` there, and `_expSequenceNr` is set ("Don't count losses again",
  `:351`) so that the next packet does not either. What a frame misses behind its
  last packet is in the frame's count and never in the total. `LossesAddUp` is
  exact about what is in it.

Met while modelling. The models have the code's behaviour, and the properties
are stated so that they hold with it:

* `putChipFrame` publishes the draft when a frame with another id arrives
  (`FrameSetManager.cpp:64`) but keeps comparing with the id of the published
  one, since `frameId` is only set when `headState` is 0. With several chips
  every further frame of the new id starts a set of its own. The assembler at
  this commit gives all frames the same id, whatever memory held.
* Frames cut short report one row, 256 pixels, too many as lost
  (`FrameAssembler.cpp:46` and `:66`): the row in progress is counted as
  `missing` and again among the rows that follow. `LossAccounted` allows for it.
* After a lost header the recovery toggles between modes 0 and 1, a high counter
  has mode 4 (`FrameAssembler.cpp:73`, `FrameSet.cpp:49`): high counters
  recovered this way are filed as low ones, and published in the low one's place.
  `NeverMixed` says so: where a mode was guessed, either counter of the readout may
  be at a spot.
* `newChipFrame` may return the chip's own frame out of the set in progress, as
  it is (`FrameSetManager.cpp:98`, `FrameSet.cpp:36`), when a chip begins a
  readout while another's frame of the last one is still missing, or a `new
  ChipFrame()` whose constructor initialises nothing (`ChipFrame.cpp:3-6`).
  `onEvent` overwrites the pixels it receives and adds to `pixelsLost`
  (`FrameAssembler.cpp:46`, `:66`, `:92`). So after a loss such a frame is handed over
  with rows of an earlier readout, or of nothing, and its count is too high by
  what it came with. `NoMixing`, `LossAccounted` and the stream's `lost` are about
  what `onEvent` stores and adds, which is exact: old pixels that remain always
  come with a loss added.
* `lutInit`'s comment gives taps b4 and b5 for the 6-bit counter, the code uses
  b0 and b5 (`FrameAssembler.cpp:246`). The code's sequence visits every code
  (`WalkMeetsAll`).
* `OMR::setLowR` overwrites the high part with its sign (`OMR.h:62`), and
  `getFuseSel` reads six bits, of which `getFusePulseWidth` has the last (`OMR.h:51`).
* The bits of `MPX3` pixel configurations (`mpx3defs.h:42-56`) of the second
  counter are shifted into the first and collide with those there.
* The receivers: a buffer used again
  after an overrun keeps the flag of counter H; `stop` called before the socket
  is open is overwritten and `stop` then waits for ever; `resetLost`
  (`ReceiverThread.h:70`) takes no lock, so that a total it clears may come back.
* `ReceiverThreadC` finds losses by counting the pixels of a row and the rows of
  a frame (`ReceiverThreadC.cpp:249`). Two losses, of the end of one frame and
  the start of the next or in two frames, can leave two pieces of rows that
  make up a row of the right length, and the frame then mixes two readouts and
  reports nothing. Whether they can depends on where packets cut rows:
  `PacketsCutRows` says that a frame has at least three packets, none of which
  begins with a row, that the second and the last begin at different places of a
  row, and, if the last one's is the later, that the last packet is longer than a
  row.
  `NoSilentLoss` is proved under it. It is close to necessary: of 14 small
  geometries without it that were tried, TLC finds a silent loss in all but one
  (4 rows of 7 pixels, 2 a word, packets of 5 words).
* The builder: `stop`'s wake-up can come between the test of `_stop` and the
  wait, and `run` sets `_abortFrame` back (`FramebuilderThread.cpp:124-150`); if
  only the first receiver notifies, the wait for another chip's frame is woken by
  chance; if no chip can read a number the same frames are decoded for ever
  (`FramebuilderThreadC.cpp:101`).
* The programs: the sockets are opened from the port of device 0 on, which is 0
  if that device is missing or masked out (`SpidrDaq.cpp:154`); the constructors
  of `SpidrDaq` without a controller dereference it in `init`
  (`SpidrDaq.cpp:152`); `startContReadout` ends in `openShutter`, which replaces
  the trigger configuration set before; the index of an ADC or fan is not
  compared with the reply's; nothing sets `finished` (`UdpReceiver.cpp:101`).

`AssertionsHold` is checked and proved under two conditions: one counter depth
for all frames, and a reader that returns a set once. Both are needed. A depth
change between a low and a high counter leaves `expectCounterH` set for a draft
of one counter (`FrameSet.cpp:34`), and a second release of a set resets
`tailState` under the next set's legitimate release (`FrameSetManager.cpp:40`).
`SuccessIsReal` excludes a time-out and a refusal in one behaviour: the late
reply to an earlier request hides the refusal of a later one.

## 5. Proofs

### The ring

`FrameSetManagerProofs`, for any set of chips, ring size, index range that is a multiple of it, frame
ids, settings and payloads, from the assumptions of `FrameSetManager`
(`SizeAssumption`, `ObjectAssumption`, `OmrAssumption`, `StaleAssumption`):

| Theorem | Statement |
|---|---|
| `TypeCorrect` | `Spec => []TypeOK` |
| `RingStaysBounded` | `Spec => []RingBounded` |
| `ReaderKeepsItsSet` | `Spec => []ReaderHoldsPublished` |
| `EveryFrameHasOneOwner` | `Spec => []OneOwner` |
| `AssertionsNeverFail` | `Spec => []AssertionsHold`, if `StaleReleases = FALSE` and all settings have one depth |
| `ManagerImplementsQueue` | `Spec => ImplementsQueue` |
| `RecycledSlotsAreClean` | `Spec => []CleanRecycle` |

`TypeOK` is not inductive: that `cf` is a call's argument, and the
frame it speaks of is there, depends on `pc` (`CallOK`). `RingInv` adds what the
ring's bound rests on: the distance from tail to head is at most `FSM_SIZE - 1`;
the reader is inside `advanceTail` only while that distance is positive; a lent
slot is the tail slot of a ring that is not empty. The arithmetic is in a few
lemmas on `Inc` and `Minus` (incrementing one index changes the distance by one,
also across the wrap) and on `Slot`: indices less than a lap apart are in
different slots, for which `UINT_RANGE` must be a multiple of
`FSM_SIZE`. One step lemma per action keeps the invariant. `OneOwner` is
inductive relative to these; `DeletedFrom` and `takeChipFrame` are the steps
where it is at risk. `AssertInv` ties `expectCounterH` to the number of counters
of the draft and `tailState` to the set lent.

The refinement maps the published slots, from the tail on, to the queue's
sequence; while the reader is inside `advanceTail` the first of them is no longer
queued. `Untouched` says that a step leaves a slot, its frames and their contents
alone: the receiving thread does so for all slots but the draft's
(`ProducerUntouched`), the client for all but the tail's while it clears it
(`ReaderUntouched`), because no two slots share a frame (`OneOwner`). With
`QueuedSlots`, which says that a queued set is in neither, the queue before and
after a step is the same, longer by one at its end or shorter by one at its front
(`SameQueue`, `LongerQueue`, `ShorterQueue`), and each action is `Publish`,
`Discard`, `Lend`, `Return`, `Returned` or `ResetLost` of `FrameQueue`, or a
stutter.

`CleanInv` makes `CleanRecycle` inductive: the slot being given back is clean
already, and a call in progress means that the head slot is a draft. Publishing
adds just the head slot to the published ones and `advanceTail` takes away just
the tail's (`PublishedGrows`, `PublishedShrinks`).

### The receivers

`ReceiverProofs`, for both receiver classes, any number of buffers above one,
any geometry of packets and rows, any losses and any order of the consumer's
calls:

| Theorem | Statement |
|---|---|
| `RingIsSound` | `Spec => []RingInv` |
| `FramesCountTheirLosses` | `Spec => []LostFrameIsMissing` |
| `TotalsAreSums` | `Spec => []TotalsAddUp` |
| `FlagsAreTrue` | `Spec => []FlaggedIsCounterH` |
| `ReceiverImplementsRing` | `Spec => ImplementsRing` |
| `WholeUnlessLost` | `Spec => [](losses = 0 => NoSilentLoss)` |
| `NoLossIsSilent` | `Spec => []NoSilentLoss`, if `PacketsCutRows` and `MaxLosses <= 2` |

`RingIsSound` and `ReceiverImplementsRing` need `ReceiverAssumption`, the others `CompactAssumption` too.

`RingInv` says that `_empty` is set exactly when head and tail meet, without
which a full ring and an empty one look the same. Every action either works on
the buffer at the head (`Works`), turns to the next (`Publishes`), gives the one
at the tail back (`Releases`) or leaves the ring alone (`NextStep`), and each of
these is followed through to the queue once. That the buffers in the queue are
neither the head's nor, but for the first, the tail's (`SlotOfIs`) needs slots
without remainders (`SlotIs`, `DistanceIs`): the integers modulo the number of
buffers come down to one case split each.

The last three rest on `CountingInv`. What a frame counts as lost can only be
compared with what its buffer holds if no packet stored is stored again; so
`Counts` keeps that every position in the head's buffer lies below the one due
(`Positions`, `Missed`), that nothing is stored or lost before the
first packet (`Untried`), and that a complete frame was turned over at once. `QueueGood` is
the same equation for the frames in the queue, where no step touches it.
`Sums` relates the total to the losses of all frames, that of the frame in
progress included, since the last reset that was not undone: a reset takes from
both what it took from the total, which may be nothing. The first attempt at this proof failed, and rightly: with
three packets a frame, one that was cut short by time-outs after a loss in its
middle has that loss in the total, which the property did not allow for; the run
had two packets a frame. `history` now says so and the run has three. `FlagInv`
is about the buffers outside the queue: they are unflagged because
`releaseFrame` clears what it gives back, so a flag can only come from a packet
of this frame. It is restricted to behaviours without an overrun, where the
buffer is used again without a release (section 4).

The refinement maps the buffers from the tail to the one before the head to the
queue of `ReceiverRing`, with `framesReceived` and `framesLost` as its counts.
What `RingIsSound` is for shows here: a publishing step makes the queue longer
by one at its end (`PublishedQueue`), a release shorter at its front
(`ReleasedQueue`), work on the head's buffer leaves it alone (`WorksQueue`), and
every end of a frame is one of these with both counts (`EveryEndCounted`,
`EndPublishes`).

`NoLossIsSilent` is about `ReceiverThreadC` and what it can know from words that
carry no position. As long as nothing of the frame is lost, the receiver is in
step with the module (`InSync`: rows, pixels and the buffer at the head are those
of the words sent so far). After a loss the frame either has a loss counted
(`Noticed`) or is in one of three situations (`Unnoticed`): its rows are counted
behind the module's (`Behind`), its end is lost and the next frame begins
(`TailLost`), or the next frame's beginning is lost as well (`Mixed`). `HeadKnown`
says that there is no other; what a word does to it depends on the word's type,
with one lemma for each type, for a receiver in step (`Sync...`) and for one
that is not (`Late...`): at the next end of row or frame the situation is
noticed or goes on. In the last two, the pixels before and after the loss could
fit together to a row; `PacketsCutRows` is what keeps them from it, and
`LostPacket` where it is used, with `Starts` and `LastRow` on where packets
begin. Without a loss the receiver stays in step and the geometry does not
matter: `WholeUnlessLost`.

### The frame builder

`FrameBuilderProofs`, for 2 to 4 receivers (as many as the arrays of
`processFrame` have room for), rings of any depth and any streams of frame
numbers:

| Theorem | Statement |
|---|---|
| `BuilderTypes` | `Spec => []TypeOK` |
| `FramesAligned` | `Spec => []Aligned` |
| `InputWakes` | `Spec => []NoSleepOnInput` |
| `LaggingWakes` | `Spec => []NoSleepOnLagging` |

`Aligned` compares numbers that were read at different times. The invariant
keeps that the frames the builder has looked at are still in hand (`InHand`),
that the numbers of chips outside `chipmask` are those of the frames at their
rings' heads (`NumbersCurrent`), and that what is left to do is some and of chips
inside it (`WorkLeft`). The receivers' steps keep it because they append behind
the head.

### The slow control

`SpidrProofs`, for any number of devices and rows, any registers and bits, any
settings among the commands, and any number of faults and calls, from
`SpidrAssumption`, `CommandAssumption` and `BitsAssumption`:

| Theorem | Statement |
|---|---|
| `RegistersKeepTheirBits` | `Spec => []NoForeignBits` |
| `GetsAreCurrent` | `Spec => ReadsCurrent` |
| `BitWritesAreLocal` | `Spec => BitWriteIsLocal` |
| `SuccessesAreReal` | `Spec => []SuccessIsReal` |

They rest on three invariants, one on the other:

* `Shape` is the type invariant: what is left of an operation is a suffix of the
  requests it began with (`GoodSteps`), a bit is changed only right after its
  register was read, and the request awaited is the one at the front. With
  `NoneForeign`, no request to write a register, no reply that carries one and no
  word about to be modified has a bit that is not the register's. It holds with
  any number of late replies because registers are echoed: the reply to another
  register's request is not accepted.
* `LockStep` is what holds until the first time-out: the request awaited is the
  only one written, then its reply the only one in the socket. `ReadsCurrent` and
  `BitWriteIsLocal` follow from it step by step.
* `Promised` is `SuccessIsReal` made inductive. While an operation goes on, each
  value it promises is either still to be written by a request whose failure
  ends the operation, or in the module and not going to be overwritten (`Due`).
  Where time-outs are excluded this is about what the module stores
  (`KeptStored`), where refusals are, about what is in line for it
  (`KeptInLine`, `SentInLine`): a late reply then only answers for a request that
  the module will not refuse either. With both faults neither holds, which is the
  restriction of `SuccessIsReal`.

Each operation of `Client` is shown to begin with steps of this kind that keep
its promises (`Keeping`), once for each of the builders `Call`, `EachDev`,
`setSpidrReg` and `setSpidrRegBit`.

### The readouts

`ReadoutProofs`, for any number of chips, slots and widths of the counts, from the
assumptions of `FrameSetManager`, `ReadoutAssumption` and `LossesAssumption`:

| Theorem | Statement |
|---|---|
| `ReadoutAssertionsHold` | `ReadoutSpec => []AssertionsHold`, if `StaleReleases = FALSE` |
| `SetsAreWhole` | `ReadoutSpec => []WholeSets`, if there is one frame id |
| `ReadoutsAreCounted` | `ReadoutSpec => []CountsAddUp`, if there is one frame id |
| `ReadoutsNeverMix` | `ReadoutSpec => [](~ guessed => NeverMixed)`, if there is one frame id |

One frame id is the code's case: `onEvent` never assigns the id it hands to
`newChipFrame`, so every frame has what the memory held, zero in fresh pages.
Other ids are the divergence of section 4. A second release of one set would
falsify the assertions and is excluded by the first hypothesis.

`ReadoutCalls` shows every step of `ReadoutNext` to be a step of the
`FrameSetManager` or none, so that its invariants (`RingInv`, `OneOwner`,
`CleanInv`) hold here. The assertions need that the depth of the draft is that
of the readout in progress (`DepthInv`) and that a set is only released while it
is lent (`LentInv`). That sets are whole is a matter of phases: in a pass's first
half the chips outside `through` still have the frame of the pass before at their
spot, or nothing; in its second half those inside it have handed theirs over
(`BeginInv`, `EndInv`); the low pass is complete before the high one begins
(`LowInv`); and in between `putChipFrame` is followed through its lines
(`CallInv`). `CountInv` counts the readouts, modulo the width of the counters.
After a loss this no longer holds of the whole, only of each spot: `SpotInv` says
what a chip's spot can contain, by what the chip is about to do, `LeftInv` the
same of a frame cut short, and `GivenInv` of the frame handed over. One loss
leaves at most one readout's frames next to blank ones; `ReadoutsNeverMix` holds
up to there, and TLC finds two losses to be too many. `ModeInv` says that as long as
no mode was guessed an assembler's mode is that of the pass its frame is of
(`HeaderOmr`, `SettingRead`), so that a frame goes to the spot of its counter. With
a guess it may not; that the set then still holds one readout only is
model-checked and not proved.

### The assembler

`AssemblerProofs`, for every geometry of readout, words and packets and whatever
packets get lost, at most `MAX_BURST` in a row, from `GeometryAssumption`,
`LossAssumption`, `OldCountsAssumption` and `NullAssumption`:

| Theorem | Statement |
|---|---|
| `NoAssertionEverFails` | `Spec => []NoAssertionFails`, if `HEARD_FROM_START` |
| `PixelsInPlace` | `Spec => []RowPlacement`, if `HEARD_FROM_START` |
| `FramesNeverMix` | `Spec => []NoMixing`, if `HEARD_FROM_START` |
| `LossesAreCounted` | `Spec => []LossAccounted`, if `HEARD_FROM_START` |
| `AssemblerImplementsStream` | `Spec => ImplementsStream`, if `HEARD_FROM_START` |

Without `HEARD_FROM_START` the first is false (`assembler_midframe`). Frames may come
from `newChipFrame` with any old pixels and any count (`OldCountsAssumption`).

The invariant `AsmInv` speaks of the word that is due, the next one of the packet
in hand or the first of the next packet (`Due`, `At`), and says what `onEvent`'s
variables must be for it: inside the info header (`HeaderInv`), or at its place
of its row (`RowsInv`, `RowOf`, `PlaceOf`), where the cursor is the place, the row
counter the row, and the pixels of the rows before are stored or counted. This is
where the code relies on packets not being a multiple of the rows: the first
words of two packets of a readout never have the same place in a row
unless they are so far apart that a burst cannot lie between them
(`NoMultipleBetween` and the lemmas on `Division`). Hence every loss is
seen, and the row number of the next packet decides whether it belongs to this
readout or the next. The recovery from a loss then comes down to the five ways in
which a packet can arrive (`ArriveInTime`, `ArriveWithoutHeader`,
`ArriveAtHeader`, `ArriveInSame`, `ArriveInNext`), of which each has a lemma.

For the refinement each way in which `frame` or `delivered` changes is one step
of the stream: `infoEnd` and a recovery without a frame begin one
(`BeginsFrame`), the words of a row and a recovery in the same frame add to it
(`GainsPixels`), `endFrame` and the two recoveries that abandon it hand it over
(`GivesFrame`, `AbandonGives`), the latter with the row in progress counted
twice. `GivesFrame` is where the readout must be the one after the last given.
That the frame never holds more pixels than there are does not follow from
`AsmInv`, which knows only the sum of those stored and lost: `FilledInv` adds
that neither is negative. It is inductive because what a recovery counts as lost
is the distance between the places of two words, and places grow with the words
(`PositionGrows`).

### The programs

`AcquisitionProofs`, for any number of devices, whichever are present and asked
for, and any number of time-outs and refusals, from the assumptions of
`SpidrController`, `AcquisitionAssumption` and `DelayAssumption` (the delays that
`initDetector` sets fit their registers):

| Theorem | Statement |
|---|---|
| `ProgramsKeepInv` | `ASpec => []AInv` |
| `TriggerStaysOff` | `ASpec => []QuietUntilReceiving` |
| `FaultsCostOneSetting` | `ASpec => []OneFaultOneSetting` |
| `TablesNeverErr` | `ASpec => []TablesErrOneWay` |
| `DaqEnablesAsAsked` | `ASpec => []EnabledAsAsked` |

`AInv` is `Shape` and `LockStep` of the controller, which the programs keep
because they only begin operations that `SpidrProofs` knows, where each program
can be (`PlaceInv`), and one part for each property. Every step of the
controller and the module is one of the six of `AStep`, said in terms of what is left of the
operation (`LeftOf`).

* `SettingsInv`: each setting that `initDetector` is to leave is still to be sent,
  or its place will hold it when the module has handled all requests written
  (`WillHold`), or it is lost; and no more are lost than there were faults. A fault drops
  the request it hits and the rest of that operation. The operation is `Simple`,
  that is the rest only modifies and verifies, so no two writes are dropped, and
  no two settings share a place (`WantedUnique`), so no two settings are lost.
  The writes that `initDetector` makes before, of another value, are in its
  first operation, `stopContReadout`, and the right one follows (`LastRight`, `Tidy`).
* `QuietInv`: no request to start the trigger is in an operation or on its way
  before `main` starts it. Without a fault the trigger is off when `main`
  initialises, by the lock-step of requests and replies; with one, either
  the first stop or the one that `initDetector` makes itself arrives. With two
  faults both can be lost, hence the limit.
* `TablesInv`: the reply that `MakeReceiver` looks at may be that of an earlier
  request, but any reply to a request for the firmware version carries what the module
  holds, or zero if it was refused, and zero means old.
* `DaqInv`: without faults each reply is the one to the request, and the loop has
  found just the devices present below `index` (`Found`); what `SpidrDaq` has on
  its way in any case (`DaqWire`) is kept apart from what it then knows (`DaqPlan`).

### The layouts

`LayoutsProofs`, for any register words of 32 bits (`RegisterAssumption`) and a
pixel matrix of any size (`PixelAssumption`), and for any of the two widths of
counters (`WidthsAssumption`):

| Theorem | Statement |
|---|---|
| `TablesAreInverse` | `Spec /\ []WalkMeetsAll => []FixUndoesBug` |
| `FieldsAreKept` | `Spec => []FieldsKept` |
| `PixelsGetWhatWasAsked` | `Spec => []PixelsAsAsked` |

`RegisterInv` gives each bit of a field and of the high part its place in the
register; the places are apart (`FieldsAre`), and `WithBitsIs` is what `setBits`
does to a place. `PixelInv` relates a pixel's word to what was asked for it
(`Agree`), which a call for other pixels leaves alone; `ReceivedIs` says that
the planes of a row carry its words, since a plane and a column make
one position only (`PlacesApart`).

That the tables undo each other needs that the shift register meets every code.
`NextCode` is injective (`NextInjective`: the bit that leaves is found again in
the parity), so a walk that has not come back to code 0 has met no code twice
(`LutInv`); after `2^width` steps it has met them all by counting (`AllMet`),
and each entry of a table is the inverse of the other's (`InverseFixes`). What
remains is that the walk comes back late enough, `WalkMeetsAll`.

### Only model-checked

* `WalkMeetsAll` is the value of a computation, 64 and 4096 turns of the loop
  that fills the look-up tables; TLC does it for both widths, the only two there
  are. It is the hypothesis of `TablesAreInverse`.
* `NeverMixed` after a guessed mode, that is when the beginning of a pass is lost at
  24 bit (`readout`).
* Liveness under fairness is out of the prover's reach: `EverySetReturns`,
  `Settles`, `CutFrameEnds`, `StopReturns` and `Gathers`.

## 6. Plan

1. *Done*: the ring, its refinement and its theorems; the assembler; the
   controller and the programs over it; the Qt receivers and frame builder; the
   layouts; theorems about each.
2. Assembler and manager composed: lost packets seen through to the sets the
   client gets.

## 7. Not modelled

* `UdpReceiver::run`'s polling, a `recv` that fails after a poll, thread
  priorities and affinity. The busy count of `SpidrController`, which only the
  unused receivers call.
* The sequential readout (`configs.h` sets the continuous one), the constructors
  of `SpidrDaq` without a controller, which cannot work, and its getters, which
  read a `FrameSet`.
* Reading operations that change no state: `copyTo32`, `pixelsLost`,
  `infoHeaderDefects`, `ChipFrame::getRow`.
* Pixel values, DAC names and limits, error texts, logging; counts of pixels
  received, time stamps and copied SPIDR headers of the Qt receivers; the decoding
  in the frame builder, which runs on a thread pool and is one step, and its
  headers for files that are not written.
* `libs/`: spdlog with fmt, and the Disruptor. They are vendored and are four
  fifths of the repository's lines, so the modelled share of all lines stays low
  while that of the program's own files is close to half.
