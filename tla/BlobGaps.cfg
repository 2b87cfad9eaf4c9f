\* One run with a queue for one frame over a disk that works.
SPECIFICATION Spec
CONSTANTS
    Record <- MCRecord
    Size <- MCSize
    Capacity = 1
    MaxRecords = 3
    MaxRuns = 1
    MaxSeq = 3
    MaxRestarts = 0
    DiskMayFail = FALSE
CHECK_DEADLOCK FALSE
INVARIANTS
    GapsAreWireLoss
