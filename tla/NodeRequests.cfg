SPECIFICATION FairSpec
CONSTANTS
    Protocols = {"nfs", "iscsi", "nvmeof"}
    Workers = {w1, w2}
    Targets = {t1}
    None = none
    MaxSize = 2
    MaxFaults = 2
CHECK_DEADLOCK FALSE
INVARIANTS
    StagedKept
    CleanAfterUnstage
    ExpandedFull
    NodeInv
PROPERTIES
    LayersInOrder
    RawNotFormatted
    UnstageConverges
    RequestsReturn
