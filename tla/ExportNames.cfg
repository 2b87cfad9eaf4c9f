\* Two rows whose sequence numbers may be the same.
SPECIFICATION Spec
CONSTANTS
    Seq0 = {0, 1}
    Arrival = {0, 5, 100}
    MaxRows = 2
    MaxRuns = 1
INVARIANTS
    EverySliceLands
