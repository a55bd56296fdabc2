\* One file of two batches, one kill or stop, over a store that may apply a
\* transaction after the worker that sent it has given it up.
SPECIFICATION Spec
CONSTANTS
    p1 = p1
    p2 = p2
    f1 = f1
    f2 = f2
    f3 = f3
    r1 = r1
    r2 = r2
    NoFile = NoFile
    Procs = {p1}
    Readers = {r1}
    Files = {f1}
    Bad = {}
    NBatches = 2
    MaxStarts = 2
    MaxLate = 1
    Faults = {"late"}
INVARIANTS
    CountedAtMostOnce
