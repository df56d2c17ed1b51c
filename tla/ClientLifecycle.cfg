SPECIFICATION Spec
CONSTANTS
    Callers = {c1}
    Unbounded = {}
    Loops = {l1, l2}
    Main = main
    None = none
    MaxSockets = 2
    MaxCalls = 1
    Stops = TRUE
    MaxConcurrentCalls = 1
    MaxReconnectAttempts = 1
SYMMETRY Symmetry
CHECK_DEADLOCK FALSE
INVARIANTS
    ConnDoneClosedOnce
    OneReconnector
    ConnectionWatched
    NoSocketLeak
PROPERTIES
    DialReplacesNothing
