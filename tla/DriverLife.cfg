SPECIFICATION FairSpec
CONSTANTS
    r1 = r1
    r2 = r2
    r3 = r3
    Requests = {r1, r2, r3}
    Protocol <- Mixed
    MaxFaults = 2
CHECK_DEADLOCK FALSE
INVARIANTS
    DriverInv
    Drained
    MetricsOptional
PROPERTIES
    SignalEnds
    PortsConverge
