\* Two directories, each with any of the two streams, so up to four workers.
SPECIFICATION ToolSpec
CONSTANTS
    Directories = {"a", "b"}
\* main() returns
CHECK_DEADLOCK FALSE
INVARIANTS
    ToolTypeOK
    VerdictIsHonest
