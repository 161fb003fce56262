\* One worker, and a directory listing whose reply cannot be sent.
SPECIFICATION Spec
CONSTANTS
    w1 = w1  w2 = w2
    Workers = {w1}
    Requests = {"readdirplus"}
    MaxServed = 2
    MaxPage = 1
INVARIANT InFlightWhenUsed
CHECK_DEADLOCK FALSE
