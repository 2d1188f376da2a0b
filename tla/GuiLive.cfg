\* Two connections, two workers; every client is polite.
CONSTANTS
    c1 = c1
    c2 = c2
    c3 = c3
    NULL = NULL
    Conns = {c1, c2}
    Polite = {c1, c2}
    MAX_CLIENT_WORKERS = 2
SPECIFICATION Spec
PROPERTIES
    StopCompletes
    ConnectionsEnd
CHECK_DEADLOCK FALSE
