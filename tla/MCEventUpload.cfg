SPECIFICATION Spec
CONSTANTS
    DDR_Q_SIZE = 1
    NULL = NULL
    NumOutFiles = 2
    MaxFileBlocks = 3
    WriteSplit = TRUE
    PreBlocks = 2
    PostBlocks = 2
    UpdateBlocks = 2
    Modulus = 16
    MaxFed = 10
INVARIANTS TypeOK PlaceKnown WindowsFit WindowsWritten RightData WaitsInTime
PROPERTY CallbackReturns
CHECK_DEADLOCK FALSE
