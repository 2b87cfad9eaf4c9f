\* Two signals and no key: the first stops the recording.
SPECIFICATION Spec
CONSTANTS
    MaxSignals = 2
    MaxKeys = 0
CHECK_DEADLOCK FALSE
PROPERTIES
    TermNeverWaits
