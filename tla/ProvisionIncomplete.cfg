SPECIFICATION Spec
CONSTANTS
    v1 = v1
    v2 = v2
    Volumes = {v1}
    Class <- NVMeClass
    Scheduled = {}
    Cloned = {}
    SourceSize = 1
    Sizes = {1}
    Grown = {}
    MaxFaults = 1
CHECK_DEADLOCK FALSE
INVARIANTS
    ChainComplete
