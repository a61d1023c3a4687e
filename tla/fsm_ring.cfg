CONSTANTS
    Chips = {c1, c2}
    FSM_SIZE = 2
    UINT_RANGE = 4
    Objects = {o1, o2, o3, o4, o5, o6}
    FrameIds = {1, 2}
    OMRs <- Only12Bit
    Payloads = {pixels}
    Clear = Clear
    Garbage = Garbage
    Free = Free
    NULL = NULL
    StaleReleases = TRUE
SYMMETRY InterchangeableChips
SPECIFICATION Spec
INVARIANTS TypeOK RingBounded OneOwner ReaderHoldsPublished
CHECK_DEADLOCK FALSE
