SPECIFICATION SafeSpec
CONSTANTS
    DDR_Q_SIZE = 1
    NULL = NULL
    NumOutFiles = 1
    MaxFileBlocks = 3
    WriteSplit = TRUE
    PreBlocks = 2
    PostBlocks = 2
    UpdateBlocks = 2
    Modulus = 16
    MaxFed = 10
INVARIANT BeforeData
CHECK_DEADLOCK FALSE
