\* Two threads, two pointers, blocks of irregular sizes.
CONSTANTS
    x1 = x1
    x2 = x2
    x3 = x3
    t1 = t1
    t2 = t2
    NULL = NULL
    Threads = {t1, t2}
    Handles = {x1, x2}
    MMAP_THRESHOLD = 512
    SizeClassLimits <- MCSizeClassLimits
    SIZE_MAX = 2000
    Requests = {1, 32, 100}
    CallocArgs = {}
    BrkLimit = 240
    BrkFails = FALSE
    MmapBases = {}
    HostGrowth = {}
    MaxHost = 0
    SIZE_MOD = 1
SPECIFICATION SpecCopies
SYMMETRY Symmetry
INVARIANTS
    NoSpuriousAbort
    OnlyLiveAccepted
    DataKept
