CONSTANTS
    MMAP_THRESHOLD = 512
    SizeClassLimits <- MCSizeClassLimits
    SIZE_MAX = 2000
    Requests <- MCRequests
    Breaks <- MCBreaks
SPECIFICATION Spec
INVARIANTS
    BlocksDisjoint
    Coalesced
    TightFit
    WellSized
PROPERTIES
    ImplementsMemSpec
CHECK_DEADLOCK FALSE
