\* Three nodes besides the root and two names: nested directories, files with
\* two names, names replaced, nodes that are open when they lose their name.
SPECIFICATION Spec
CONSTANTS
    n1 = n1  n2 = n2
    Names = {n1, n2}
    MaxRecords = 4
    MaxRefs = 1
SYMMETRY Symmetry
INVARIANTS EntriesLinked NlinkReported ParentHolds
PROPERTIES OnlyTakenNamesGo ImplementsTree
CHECK_DEADLOCK FALSE
