\* Two threads submit four tasks to two workers over a queue of two; a
\* running task submits one of them.
SPECIFICATION FairSpec
CONSTANTS
    p1 = p1
    p2 = p2
    w1 = w1
    w2 = w2
    t1 = t1
    t2 = t2
    t3 = t3
    t4 = t4
    NoTask = NoTask
    Producers = {p1, p2}
    Workers = {w1, w2}
    Tasks = {t1, t2, t3, t4}
    Child <- OneChild
    Capacity = 2
INVARIANTS
    TypeOK
    WorkersWake
    SubmittersWake
    DrainedWhenClosed
PROPERTIES
    CallsReturn
    KeepsPromise
