\* One run over a disk that may fail.  Four records through a queue for two:
\* drops, two batches, batches of two; a publisher of three frames that may
\* restart once and lose any of them.
SPECIFICATION Spec
CONSTANTS
    Record <- MCRecord
    Size <- MCSize
    Capacity = 2
    MaxRecords = 4
    MaxRuns = 1
    MaxSeq = 3
    MaxRestarts = 1
    DiskMayFail = TRUE
\* the owner may have closed its last run
CHECK_DEADLOCK FALSE
INVARIANTS
    IndexMapsBlob
    FlushedSurvives
    CloseKeepsReceived
    GapsComplete
    GapsExplained
PROPERTIES
    WrittenIsThere
