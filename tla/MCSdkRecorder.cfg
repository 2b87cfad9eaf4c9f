\* Two recordings of one assembly, either of which may fail to start, over a
\* disk that may fail.  Four messages of two shapes and a queue for two: enough
\* for a full queue, a drop, and two batches in one recording.
SPECIFICATION SdkSpec
CONSTANTS
    Record <- MCRecord
    HeaderLine = HeaderLine
    Capacity = 2
    MaxRecords = 4
    MaxRuns = 2
    DiskMayFail = TRUE
INVARIANTS
    Accounted
    AcceptedInOrder
    FileIsPrefix
    CallbacksFindRecorder
    StopKeepsReceived
    RowsFitHeader
PROPERTIES
    CallsReturn
    ImplementsHandOff
    ImplementsAssembly
