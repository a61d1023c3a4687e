SPECIFICATION Spec
CONSTANTS
    N = 3
    Depth = 2
    Half = 4
    Streams <- MCStreams
    MaxCalls = 1
INVARIANTS NoSleepOnInput NoSleepOnLagging Aligned
PROPERTY Gathers
CHECK_DEADLOCK FALSE
