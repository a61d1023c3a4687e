SPECIFICATION Spec
CONSTANTS
    NR_OF_FRAMEBUFS = 3
    FrameSize = 5
    Payloads = {2, 5}
    Shutters <- MCShutters
    MaxPackets = 3
    MaxBeforeStop = 1
    MPX_PIXEL_ROWS = 4
    MPX_PIXEL_COLUMNS = 7
    PixPerWord = 2
    PacketWords = 6
    MaxFrames = 4
    MaxLosses = 2
INVARIANTS LostFrameIsMissing TotalsAddUp FlaggedIsCounterH NoSilentLoss
PROPERTIES ImplementsRing CutFrameEnds StopReturns
