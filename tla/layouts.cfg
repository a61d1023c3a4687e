SPECIFICATION Spec
CONSTANTS
    Widths = {6, 12}
    Words <- MCWords
    MaxSettings = 4
    Size = 2
    Thresholds = {0, 21, 31, 32}
    MaxConfigs = 2
INVARIANTS WalkMeetsAll FixUndoesBug FieldsKept PixelsAsAsked
CHECK_DEADLOCK FALSE
