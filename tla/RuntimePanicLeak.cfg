\* A listing callback panics after an entry was accepted.
SPECIFICATION MCSpec
CONSTANTS
    t1 = t1  t2 = t2  n1 = n1  n2 = n2
    Profiles = {"listing"}
    Threads = {t1}
    Names = {n1}
    Ops = {"mknod", "unlink", "forget", "open", "readdirplus", "release"}
    KernelDirLock = TRUE
    Panics = TRUE
    RepliesFail = FALSE
    MaxRecords = 2
    MaxFh = 1
    MaxRefs = 2
    MaxPage = 1
INVARIANT
    LookupsIssued
CHECK_DEADLOCK FALSE
