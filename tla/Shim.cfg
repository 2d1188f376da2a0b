\* Two threads, two pointers, a buffer that runs out.
CONSTANTS
    t1 = t1
    t2 = t2
    h1 = h1
    h2 = h2
    NULL = NULL
    Threads = {t1, t2}
    Handles = {h1, h2}
    BOOTSTRAP_BUF_SIZE = 144
    HeapBases = {1024, 1552}
    Sizes = {0, 8, 40}
    Alignments = {3, 32}
    PAGE = 32
    SIZE_MAX = 4096
    MaxOffset = 160
SPECIFICATION Spec
SYMMETRY Symmetry
INVARIANTS
    RegionsDisjoint
    NeverRejected
    BlocksOwned
    SizesKnown
    NoRecursion
PROPERTIES
    DataKept
