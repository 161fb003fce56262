\* A pool of two that serves any three requests after INIT.
SPECIFICATION Spec
CONSTANTS
    w1 = w1  w2 = w2
    Workers = {w1, w2}
    Requests <- AllRequests
    MaxServed = 4
    MaxPage = 2
INVARIANTS AnsweredOnce RuntimeOutlivesUse NothingLeft
PROPERTY ShutsDown
CHECK_DEADLOCK FALSE
