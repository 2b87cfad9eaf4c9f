\* Two starts, the second of which may fail at every step; two samples of one
\* stream and one of the other, and then more without end; readers that hold
\* one, so that a reliable writer waits and a best-effort reader throws the
\* older one away.
SPECIFICATION CameraSpec
CONSTANTS
    Stream = {"color", "depth"}
    CacheLimit = 1
    MaxSamples = 2
    MaxStarts = 2
    MaxTotal = 3
INVARIANTS
    CameraTypeOK
    DeliveredInOrder
    StopLosesNothingLanded
    FramesReachOpenRecorder
    StartedOrClean
PROPERTIES
    StopReturns
    ImplementsAssembly
