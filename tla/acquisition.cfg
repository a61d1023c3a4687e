SPECIFICATION ASpec
CONSTANTS
    NumDevs = 4
    NumRows = 1
    Registers = {}
    BitsOf <- MCBitsOf
    Settings = {}
    Monitors = {}
    PixelValues = {}
    MaxFaults = 1
    MaxCalls = 20
    Masks <- MCMasks
    Present <- MCPresent
INVARIANTS QuietUntilReceiving OneFaultOneSetting TablesErrOneWay EnabledAsAsked
PROPERTIES Settles
CHECK_DEADLOCK FALSE
