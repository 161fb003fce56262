SPECIFICATION OpsSpec
CONSTANTS
    Clients = {c1, c2, c3}
    Ops = {"shared", "change", "setlk"}
    MaxThreads = 2
    MaxRequests = 2
INVARIANT ChangesAlone
PROPERTY RequestsComplete
CHECK_DEADLOCK FALSE
