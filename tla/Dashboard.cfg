\* One signal request, two polls, process numbers of one and of two digits.
CONSTANTS
    Requests = {r1}
    Polls = {p1, p2}
    Pids = {5, 23}
    Buttons = {"SIGKILL"}
    Others <- MCOthers
    PID_MAX = 60
    MaxVersion = 1
    NULL = NULL
SPECIFICATION Spec
INVARIANTS
    SignalledAsAsked
    SuccessTrue
PROPERTIES
    EventuallyCurrent
