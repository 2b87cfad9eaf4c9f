\* Two records and room for two of them: an empty, a partly filled and a full
\* queue, and an order to get wrong.
SPECIFICATION Spec
CONSTANTS
    Record = {r1, r2}
    Capacity = 2
INVARIANTS
    TypeOK
    NoLostWakeup
    ThreadMatchesOwner
PROPERTIES
    ImplementsHandOff
