SPECIFICATION Spec
CONSTANTS
    v1 = v1
    c1 = c1
    c2 = c2
    s1 = s1
    None = none
    Origins = {v1}
    Copies = {c1, c2}
    Snaps = {s1}
    Detachable = {c1, c2, s1}
    Protected = TRUE
    MaxFaults = 1
SYMMETRY Symmetry
CHECK_DEADLOCK FALSE
INVARIANTS
    AcknowledgedKept
    WholeWhenTold
    NoTempLeft
