\* Every graph of six subscribers, one link more during the search.
SPECIFICATION Spec
CONSTANTS
    s1 = s1
    s2 = s2
    s3 = s3
    s4 = s4
    s5 = s5
    s6 = s6
    Subscribers = {s1, s2, s3, s4, s5, s6}
    MaxHops = 3
    MaxVisited = 4
    MaxGrow = 1
SYMMETRY AnySubscriber
CHECK_DEADLOCK FALSE
INVARIANTS
    TypeOK
    PathIsPath
    NoneMeansNone
    NoDetour
    FullBudget
