SPECIFICATION Spec
CONSTANTS
    DDR_Q_SIZE = 2
    NULL = NULL
    MaxBlocks = 3
    NumOutFiles = 2
    MaxFileBlocks = 1
    WriteSplit = FALSE
    DrainLevel = 2
INVARIANT BlocksConserved
PROPERTY StopReturns
