\* Two runs, in the same second or not, of the streams each configuration
\* turns on, with up to two records each.
SPECIFICATION Spec
CONSTANTS
    Roots <- MCRoots
    Stream <- MCStream
    MaxRecords = 2
    MaxRuns = 2
    MaxClock = 1
    Wrap = 16
    NoDir = NoDir
\* the last run may be over
CHECK_DEADLOCK FALSE
INVARIANTS
    SummaryIsFinal
    VectorReportsFit
PROPERTIES
    ImplementsRecording
    UsesAssemblies
