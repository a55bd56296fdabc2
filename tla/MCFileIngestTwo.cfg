\* Two processes over the same directories.
SPECIFICATION Spec
CONSTANTS
    p1 = p1
    p2 = p2
    f1 = f1
    f2 = f2
    f3 = f3
    r1 = r1
    r2 = r2
    NoFile = NoFile
    Procs = {p1, p2}
    Readers = {r1}
    Files = {f1}
    Bad = {}
    NBatches = 1
    MaxStarts = 1
    MaxLate = 0
    Faults = {}
INVARIANTS
    OneReader
