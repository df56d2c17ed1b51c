SPECIFICATION FairSpec
CONSTANTS
    v1 = v1
    v2 = v2
    Volumes = {v1, v2}
    Class <- MixedClass
    Scheduled = {v1}
    Cloned = {v2}
    SourceSize = 1
    Sizes = {1, 2}
    Grown = {3}
    MaxFaults = 1
CHECK_DEADLOCK FALSE
INVARIANTS
    AcknowledgedKept
    LargeEnough
PROPERTIES
    RetriesConverge
    DeletesConverge
