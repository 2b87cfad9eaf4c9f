\* Up to three rows, with every order of arrivals, two of which fall into one
\* tick of the track, and of keyframes; a blob that holds all of them or not;
\* two runs.
SPECIFICATION Spec
CONSTANTS
    Seq0 = {0}
    Arrival = {0, 5, 100}
    MaxRows = 3
    MaxRuns = 2
INVARIANTS
    SucceededMeansWhole
    StampsIncrease
    ReadsWhatWasWritten
PROPERTIES
    ImplementsJob
