SPECIFICATION Spec
CONSTANTS
    PoolSize = 2
    UploadSize = 1
    BufferSize = 2
    MaxTasks = 3
PROPERTY NoOutstanding
CHECK_DEADLOCK FALSE
