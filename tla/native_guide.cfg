SPECIFICATION MCSpec
CONSTANTS
    Servers = {2, 3}
    Steady = {3}
    MaxAge = 0
    Delays = {1}
    Window = 1
    Lag = 1
    MaxRun = 1
    MaxFaults = 1
    l1 = l1
    l2 = l2
    v1 = v1
    v2 = v2
    Absent = Absent
    NoJob = NoJob
INVARIANT NativeInv
PROPERTIES ProvidersSpared Recovers PublisherResolves
CHECK_DEADLOCK FALSE
