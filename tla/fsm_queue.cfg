CONSTANTS
    Chips = {c1}
    FSM_SIZE = 4
    UINT_RANGE = 4
    Objects = {o1, o2, o3, o4, o5}
    FrameIds = {1, 2}
    OMRs <- Only12Bit
    Payloads = {pixels}
    Clear = Clear
    Garbage = Garbage
    Free = Free
    NULL = NULL
    StaleReleases = FALSE
SPECIFICATION FairSpec
PROPERTIES ImplementsQueue EverySetReturns
