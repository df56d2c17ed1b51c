SPECIFICATION Spec
CONSTANTS
    v1 = v1
    v2 = v2
    Volumes = {v1, v2}
    Class <- HostClass
    Scheduled = {v1}
    Cloned = {v2}
    SourceSize = 1
    Sizes = {2}
    Grown = {3}
    MaxFaults = 2
CHECK_DEADLOCK FALSE
INVARIANTS
    PublishUsable
    NothingLeft
    ProvisioningInv
