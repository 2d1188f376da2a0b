\* Two processes, one of them process 1, on a terminal of one line, of one
\* where a message covers the row, and of room for one row and for two.
CONSTANTS
    Pids = {1, 2}
    Usage = {0, 1}
    TermRows = {1, 8, 9, 10}
    StatusTime = 1
    PromptTime = 1
    NULL = NULL
SPECIFICATION Spec
INVARIANTS
    SelectionShown
    SignalledAsShown
PROPERTIES
    SessionEnds
