CONSTANTS
    ROWS = 6
    COLUMNS = 7
    PIXELS_PER_WORD = 2
    HEADER_WORDS = 3
    PACKET_WORDS = 9
    READOUTS = 4
    MAX_BURST = 2
    OLD_COUNTS = {0, 100}
    HEARD_FROM_START = TRUE
    NULL = NULL
SPECIFICATION Spec
INVARIANTS NoAssertionFails RowPlacement NoMixing LossAccounted
PROPERTY ImplementsStream
