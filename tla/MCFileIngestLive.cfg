\* One reader, a pool of two and three files: the pool fills up and the feeder blocks on it.
\* The store may land a batch without its mark, and the kernel may drop events.
SPECIFICATION FairSpec
CONSTANTS
    p1 = p1
    p2 = p2
    f1 = f1
    f2 = f2
    f3 = f3
    r1 = r1
    r2 = r2
    NoFile = NoFile
    Procs = {p1}
    Readers = {r1}
    Files = {f1, f2, f3}
    Bad = {f3}
    NBatches = 2
    MaxStarts = 2
    MaxLate = 0
    Faults = {"unmarked", "overflow"}
INVARIANTS
    NothingForgotten
    NoneHalfProcessed
PROPERTIES
    Settles
    StopReturns
