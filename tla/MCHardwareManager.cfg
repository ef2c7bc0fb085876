SPECIFICATION SafeSpec
CONSTANTS
    DDR_Q_SIZE = 3
    NULL = NULL
    MaxBlocks = 5
    NumOutFiles = 2
    MaxFileBlocks = 2
    WriteSplit = TRUE
    DrainLevel = 2
INVARIANTS RingInv QueuedIntact DmaTargetFree LossesCounted FilesAligned BlocksConserved RecordedInOrder ChannelsAlike StoppedIsClean StopNeverStuck
PROPERTY ImplementsRecorder
