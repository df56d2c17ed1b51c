SPECIFICATION Spec
CONSTANTS
    v1 = v1
    c1 = c1
    c2 = c2
    s1 = s1
    None = none
    Origins = {v1}
    Copies = {c1}
    Snaps = {s1}
    Detachable = {c1, s1}
    Protected = TRUE
    MaxFaults = 1
CHECK_DEADLOCK FALSE
INVARIANTS
    WaitsForCompletion
