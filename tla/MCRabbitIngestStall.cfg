\* As many refused messages as the window holds.
SPECIFICATION FairSpec
CONSTANTS
    c1 = c1
    c2 = c2
    m1 = m1
    m2 = m2
    m3 = m3
    m4 = m4
    Consumers = {c1}
    Messages = {m1, m2, m3}
    Rejected = {m2, m3}
    BatchSize = 1
    MaxDrops = 0
    MaxStarts = 1
    StoreFails = FALSE
PROPERTIES
    Settles
