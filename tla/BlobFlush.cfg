\* One run over a disk that may fail.
SPECIFICATION Spec
CONSTANTS
    Record <- MCRecord
    Size <- MCSize
    Capacity = 2
    MaxRecords = 3
    MaxRuns = 1
    MaxSeq = 3
    MaxRestarts = 0
    DiskMayFail = TRUE
CHECK_DEADLOCK FALSE
INVARIANTS
    LosslessWhenZero
