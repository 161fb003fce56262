------------------------------- MODULE FileTree -------------------------------
(***************************************************************************)
(* What a hierarchical filesystem promises of its names, as POSIX has it:   *)
(* objects are created, linked, removed and renamed, each in one step, and  *)
(* nothing else ever happens to a name. memory_fs.rs carries out a request  *)
(* in several critical sections and leaves the lifetime of its objects to   *)
(* the runtime; MemoryFs shows that its tree still changes in these steps   *)
(* only.                                                                    *)
(***************************************************************************)
EXTENDS Integers, FiniteSets

CONSTANTS Names, Objects

VARIABLES
    tree,   \* tree[o][n]: the object that object o has under name n, or 0
    dirs,   \* the objects that are directories
    made    \* how many objects have been made; the root is object 1

treevars == <<tree, dirs, made>>

Nothing == [n \in Names |-> 0]

TreeInit ==
    /\ tree = [o \in Objects |-> Nothing]
    /\ dirs = {1}
    /\ made = 1

Named(o) == o = 1 \/ \E d \in dirs, n \in Names : tree[d][n] = o

\* The directories from which o can be reached, o itself included: as many
\* steps up as there are objects.
Above(o) ==
    LET up[k \in 0 .. Cardinality(Objects)] ==
            IF k = 0 THEN {o}
            ELSE LET low == up[k - 1]
                 IN  low \cup {d \in dirs : \E n \in Names : tree[d][n] \in low}
    IN  up[Cardinality(Objects)]

------------------------------------------------------------------------------
Make(d, n, isDir) ==
    /\ Named(d) /\ tree[d][n] = 0
    /\ made' = made + 1
    /\ tree' = [tree EXCEPT ![d][n] = made']
    /\ dirs' = IF isDir THEN dirs \cup {made'} ELSE dirs

Link(o, d, n) ==
    /\ Named(d) /\ tree[d][n] = 0
    /\ o \notin dirs /\ Named(o)
    /\ tree' = [tree EXCEPT ![d][n] = o]
    /\ UNCHANGED <<dirs, made>>

Remove(d, n) ==
    /\ tree[d][n] # 0
    /\ tree[tree[d][n]] = Nothing
    /\ tree' = [tree EXCEPT ![d][n] = 0]
    /\ UNCHANGED <<dirs, made>>

\* A directory replaces only an empty directory, and anything else only
\* something that is no directory.
Rename(d, n, e, m) ==
    LET o == tree[d][n]
        old == tree[e][m]
    IN  /\ o # 0 /\ o # old
        /\ Named(e) /\ o \notin Above(e)
        /\ old # 0 => /\ (o \in dirs) = (old \in dirs)
                      /\ tree[old] = Nothing
        /\ tree' = [tree EXCEPT ![d][n] = 0, ![e][m] = o]
        /\ UNCHANGED <<dirs, made>>

\* Each of them changes a name (said first, it spares TLC the search for one
\* when the tree stays as it is).
TreeNext ==
    /\ tree' # tree
    /\ \E d \in dirs, n \in Names :
           \/ \E isDir \in BOOLEAN : Make(d, n, isDir)
           \/ \E o \in Objects : Link(o, d, n)
           \/ Remove(d, n)
           \/ \E e \in dirs, m \in Names : Rename(d, n, e, m)

TreeSpec == TreeInit /\ [][TreeNext]_treevars

==============================================================================
