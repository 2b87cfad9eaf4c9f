\* Three signals and two keys, at any moment.
SPECIFICATION Spec
CONSTANTS
    MaxSignals = 3
    MaxKeys = 2
\* the process ends
CHECK_DEADLOCK FALSE
INVARIANTS
    TerminalRestored
    NeverCutShort
PROPERTIES
    SignalsEnd
