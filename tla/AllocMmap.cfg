\* Two threads, two pointers, heap blocks and mappings, my_calloc; the counters wrap.
CONSTANTS
    x1 = x1
    x2 = x2
    x3 = x3
    t1 = t1
    t2 = t2
    NULL = NULL
    Threads = {t1, t2}
    Handles = {x1, x2}
    MMAP_THRESHOLD = 160
    SizeClassLimits <- MCSizeClassLimits
    SIZE_MAX = 2000
    Requests = {0, 3, 91, 120}
    CallocArgs <- MCCallocArgs
    BrkLimit = 80
    BrkFails = TRUE
    MmapBases = {1024, 2048}
    HostGrowth = {}
    MaxHost = 0
    SIZE_MOD = 2
SPECIFICATION Spec
SYMMETRY Symmetry
INVARIANTS
    DataKept
    StatsBalance
