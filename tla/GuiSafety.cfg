\* Three connections, two workers; any client may stop reading.
CONSTANTS
    c1 = c1
    c2 = c2
    c3 = c3
    NULL = NULL
    Conns = {c1, c2, c3}
    Polite = {}
    MAX_CLIENT_WORKERS = 2
SPECIFICATION Spec
SYMMETRY Symmetry
INVARIANTS
    TypeOK
    NoUseAfterDestroy
    WorkersCounted
    MetricsConsistent
    SocketsClosed
CHECK_DEADLOCK FALSE
