\* One consumer and four messages, one of them refused, in batches of two: a slot
\* of the window of four is left to the others.  One connection is lost or the
\* process killed once, and it is stopped once with a start behind it.
SPECIFICATION FairSpec
CONSTANTS
    c1 = c1
    c2 = c2
    m1 = m1
    m2 = m2
    m3 = m3
    m4 = m4
    Consumers = {c1}
    Messages = {m1, m2, m3, m4}
    Rejected = {m4}
    BatchSize = 2
    MaxDrops = 1
    MaxStarts = 2
    StoreFails = FALSE
INVARIANTS
    TypeOK
    AckedIsCounted
    OncePerDrop
PROPERTIES
    Settles
    StopReturns
