\* Two totals, the mark, one board, two counters over a pipeline of depth 3: the
\* pipeline drains in mid-batch both ahead of the mark and behind it.
SPECIFICATION Spec
CONSTANTS
    NTotals = 2
    NRanks = 1
    NCounters = 2
    Depth = 3
    MaxBatches = 2
INVARIANTS
    TypeOK
    Aligned
    AtMostOnce
    ProgressIsBacked
    SuccessIsLanded
PROPERTY
    ImplementsPromise
