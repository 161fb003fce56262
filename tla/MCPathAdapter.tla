---------------------------- MODULE MCPathAdapter ----------------------------
(***************************************************************************)
(* Instances of PathAdapter for TLC. All requests at once are too many; a   *)
(* behaviour leaves some out, chosen at the start.                          *)
(***************************************************************************)
EXTENDS PathAdapter, TLC

VARIABLE left       \* the requests a behaviour leaves out

\* A filesystem whose object o holds under name n the object t[o][n].
Holding(t, d, k) ==
    [tree |-> [o \in Objects |-> IF o \in DOMAIN t THEN t[o] ELSE [n \in Names |-> 0]],
     dirs |-> d, made |-> k]

\* Two names: a file; a file with two names; a directory with a file in it.
MCTrees ==
    {Holding(<<<<2, 0>>>>, {1}, 2),
     Holding(<<<<2, 2>>>>, {1}, 2),
     Holding(<<<<2, 0>>, <<3, 0>>>>, {1, 2}, 3)}

\* One name: a file in the root.
MCFile == {Holding(<<<<2>>>>, {1}, 2)}

\* One file, and a second name free for a link.
MCTwoNames == {Holding(<<<<2, 0>>>>, {1}, 2)}

\* From one file: either no listing, or neither open files nor links. From the
\* other trees: no open files.
MCInit ==
    /\ Init
    /\ left \in IF [tree |-> tree, dirs |-> dirs, made |-> made] \in MCTwoNames
                THEN {{"readdir", "revalidate"}, {"open", "getattr", "link"}}
                ELSE {{"open", "getattr"}}

MCNext ==
    /\ Next /\ UNCHANGED left
    /\ \A t \in Threads : th'[t].op \notin left
    /\ "open" \in left => \A i \in DOMAIN table'.map : table'.map[i].count["opens"] = 0

MCSpec == MCInit /\ [][MCNext]_<<vars, left>>

Symmetry == Permutations(Threads)
==============================================================================
