CONSTANTS
    Chips = {c1, c2}
    FSM_SIZE = 2
    UINT_RANGE = 4
    Objects = {1, 2, 3, 4, 5, 6, 7, 8, 9, 10}
    FrameIds = {0}
    OMRs <- Depths
    Payloads <- PassesRead
    Clear = Clear
    Garbage = Garbage
    Free = Free
    NULL = NULL
    MAX_LOSSES = 1
    StaleReleases = FALSE
SPECIFICATION ReadoutSpec
INVARIANTS WholeSets NeverMixed CountsAddUp AssertionsHold CleanRecycle
SYMMETRY ChipSymmetry
