\* One thread, three pointers, blocks of 80 and 160 bytes.
CONSTANTS
    x1 = x1
    x2 = x2
    x3 = x3
    t1 = t1
    t2 = t2
    NULL = NULL
    Threads = {t1}
    Handles = {x1, x2, x3}
    MMAP_THRESHOLD = 512
    SizeClassLimits <- MCSizeClassLimits
    SIZE_MAX = 2000
    Requests = {4, 92}
    CallocArgs = {}
    BrkLimit = 320
    BrkFails = FALSE
    MmapBases = {}
    HostGrowth = {}
    MaxHost = 0
    SIZE_MOD = 3
SPECIFICATION Spec
SYMMETRY Symmetry
INVARIANTS
    IntegrityVerified
    StatsBalance
    HeapConserved
PROPERTIES
    ImplementsBlockHeap
