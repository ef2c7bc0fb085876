SPECIFICATION Spec
CONSTANTS
    MaxErrors = 2
    MaxRecords = 2
    MaxUploads = 2
    NumWords = 3
    NumRegs = 3
    MonReg = 1
    NumAgc = 2
    Comment = Comment
    NoFile = NoFile
    ConfFiles <- MCConfFiles
    StackWords <- MCStackWords
INVARIANT MapsReleased
CHECK_DEADLOCK FALSE
