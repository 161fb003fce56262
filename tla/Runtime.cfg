\* Two threads, four profiles of requests.
SPECIFICATION MCSpec
CONSTANTS
    t1 = t1  t2 = t2  n1 = n1  n2 = n2
    Profiles = {"nodes", "races", "handles", "listing"}
    Threads = {t1, t2}
    Names = {n1, n2}
    Ops = {"lookup", "mknod", "create", "link", "unlink", "rename", "forget", "nodeop", "open",
           "fileop", "getattr", "release", "readdir", "readdirplus"}
    KernelDirLock = FALSE
    Panics = TRUE
    RepliesFail = TRUE
    MaxRecords = 4
    MaxFh = 2
    MaxRefs = 2
    MaxPage = 2
SYMMETRY Symmetry
INVARIANTS
    NumbersAccountedFor IdentityUnique LeaseProtects LinksExact LeasesExact KernelHoldsExact
    HandleNeverStranded EntryIsTheOneMeantUnderLock
PROPERTIES ForgetToldAtZero HandlesKeepPromise
CHECK_DEADLOCK FALSE
