CONSTANTS
    ROWS = 5
    COLUMNS = 9
    PIXELS_PER_WORD = 2
    HEADER_WORDS = 4
    PACKET_WORDS = 11
    READOUTS = 4
    MAX_BURST = 2
    OLD_COUNTS = {0, 100}
    HEARD_FROM_START = FALSE
    NULL = NULL
SPECIFICATION Spec
INVARIANT NoAssertionFails
CHECK_DEADLOCK FALSE
