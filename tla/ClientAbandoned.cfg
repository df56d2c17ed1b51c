SPECIFICATION Spec
CONSTANTS
    Callers = {c1}
    Unbounded = {}
    Loops = {l1, l2}
    Main = main
    None = none
    MaxSockets = 2
    MaxCalls = 0
    Stops = FALSE
    MaxConcurrentCalls = 1
    MaxReconnectAttempts = 0
CHECK_DEADLOCK FALSE
INVARIANTS
    AutomaticReconnection
