SPECIFICATION FairSpec
CONSTANTS
    Protocols = {"nfs"}
    Workers = {w1}
    Targets = {t1}
    None = none
    MaxSize = 1
    MaxFaults = 1
CHECK_DEADLOCK FALSE
PROPERTIES
    PublishedUnderLock
