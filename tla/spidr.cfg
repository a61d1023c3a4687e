SPECIFICATION Spec
CONSTANTS
    NumDevs = 1
    NumRows = 2
    Registers <- MCRegisters
    BitsOf <- MCBitsOf
    Settings = {"POLARITY"}
    Monitors = {"SPIDR_ADC"}
    PixelValues <- MCPixelValues
    MaxFaults = 2
    MaxCalls = 3
INVARIANTS SuccessIsReal NoForeignBits
PROPERTIES ReadsCurrent BitWriteIsLocal
CHECK_DEADLOCK FALSE
