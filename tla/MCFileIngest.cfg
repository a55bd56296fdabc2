\* One process killed or stopped twice at any step, two readers, a file of two
\* batches and one that is unreadable; the store may lose a batch, land it
\* without its mark or late, or be out of reach for resume_at, and scans,
\* renames and the watcher may fail.
SPECIFICATION Spec
CONSTANTS
    p1 = p1
    p2 = p2
    f1 = f1
    f2 = f2
    f3 = f3
    r1 = r1
    r2 = r2
    NoFile = NoFile
    Procs = {p1}
    Readers = {r1, r2}
    Files = {f1, f2}
    Bad = {f2}
    NBatches = 2
    MaxStarts = 3
    MaxLate = 1
    Faults = {"lost", "unmarked", "late", "resume", "scan", "rename", "claim", "watcher"}
SYMMETRY AnyReader
INVARIANTS
    TypeOK
    RecountsAreExcused
    NothingSkipped
