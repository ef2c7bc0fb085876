SPECIFICATION Spec
CONSTANTS
    PoolSize = 2
    UploadSize = 1
    BufferSize = 2
    MaxTasks = 3
INVARIANTS TypeOK OneOwner NullPerThread AcceptedAreRun PoolNeverStuck
PROPERTIES UploadsFinish PoolStops ImplementsService
CHECK_DEADLOCK FALSE
