\* Two threads, two names, and the requests MCPathAdapter leaves to each start.
SPECIFICATION MCSpec
CONSTANTS
    Threads = {t1, t2}
    Names = {1, 2}
    Ops = {"lookup", "revalidate", "readdir", "make", "link", "remove", "rename", "forget",
           "open", "getattr"}
    ParallelDirops = FALSE
    InitialTrees <- MCTrees
    MaxObjects = 3
    MaxRecords = 3
    MaxRefs = 1
INVARIANTS NamespaceConsistent LinksAreNames  
           LentOnlyWhenUnnamed
SYMMETRY Symmetry
CHECK_DEADLOCK FALSE
