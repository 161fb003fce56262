SPECIFICATION OpsSpec
CONSTANTS
    Clients = {c1, c2, c3}
    Ops = {"change", "setlkw"}
    MaxThreads = 3
    MaxRequests = 1
PROPERTY SetlkWaitEnds
CHECK_DEADLOCK FALSE
