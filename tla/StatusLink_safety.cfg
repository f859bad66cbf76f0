SPECIFICATION FairSpec
CONSTANTS
    MaxBoots = 2
    MaxFaults = 3
INVARIANTS
    TypeOK
    LinkInv
    StatusIsRetained
    RetainedFollowsNode
PROPERTIES
    BootOrder
    ImplementsBoard
    EventuallyOnline
    EventuallyOffline
CHECK_DEADLOCK FALSE
