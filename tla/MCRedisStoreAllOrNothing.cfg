\* The documented promise, against what the store does.
SPECIFICATION Spec
CONSTANTS
    NTotals = 2
    NRanks = 1
    NCounters = 2
    Depth = 3
    MaxBatches = 1
INVARIANT
    AllOrNothing
