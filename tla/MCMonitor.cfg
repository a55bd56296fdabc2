\* Two threads of the gateway; one fault at any time.
SPECIFICATION Spec
CONSTANTS
    t1 = t1
    t2 = t2
    Threads = {t1, t2}
    MinDelay = 1
    MaxDelay = 2
    Interval = 1
    Retention = 3
    SweepInterval = 2
    RateLag = 2
    Windows = {1, 3}
    MaxTime = 10
    MaxFaults = 1
SYMMETRY AnyThread
CHECK_DEADLOCK FALSE
INVARIANTS
    TypeOK
    OneLateFailure
    RecoversInTime
PROPERTIES
    SweptOnTime
    BaselineIsNearest
