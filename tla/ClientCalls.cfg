SPECIFICATION FairSpec
CONSTANTS
    Callers = {c1, c2}
    Unbounded = {c2}
    Loops = {l1}
    Main = main
    None = none
    MaxSockets = 1
    MaxCalls = 2
    Stops = TRUE
    MaxConcurrentCalls = 1
    MaxReconnectAttempts = 0
CHECK_DEADLOCK FALSE
INVARIANTS
    TypeOK
    PermitsConserved
    PendingOwned
    OwnAnswer
PROPERTIES
    CallsReturn
    DeadPeerNoticed
    LoopsStopAfterClose
