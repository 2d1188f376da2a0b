\* Other code calls sbrk once, by an amount that is not aligned.
CONSTANTS
    x1 = x1
    x2 = x2
    x3 = x3
    t1 = t1
    t2 = t2
    NULL = NULL
    Threads = {t1}
    Handles = {x1}
    MMAP_THRESHOLD = 512
    SizeClassLimits <- MCSizeClassLimits
    SIZE_MAX = 2000
    Requests = {3}
    CallocArgs = {}
    BrkLimit = 184
    BrkFails = FALSE
    MmapBases = {}
    HostGrowth = {8}
    MaxHost = 1
    SIZE_MOD = 1
SPECIFICATION Spec
SYMMETRY Symmetry
INVARIANTS
    DestroyKeepsHostMemory
