SPECIFICATION MCSpec
CONSTANTS
    Threads = {t1, t2}
    Names = {1}
    Ops = {"lookup", "readdir"}
    ParallelDirops = TRUE
    InitialTrees <- MCFile
    MaxObjects = 2
    MaxRecords = 3
    MaxRefs = 1
INVARIANT OneIdentityPerName
SYMMETRY Symmetry
CHECK_DEADLOCK FALSE
