------------------------------ MODULE MCRuntime ------------------------------
(***************************************************************************)
(* Instances of Runtime for TLC. All requests at once are too many; a       *)
(* behaviour has a profile, chosen at the start, that says which requests   *)
(* the kernel sends and how far the bounds of the configuration are used.   *)
(***************************************************************************)
EXTENDS Runtime, TLC

CONSTANTS t1, t2, n1, n2,
    Profiles    \* the profiles of this configuration

VARIABLE profile

\* nodes: names and numbers come and go. races: the same on fewer nodes, and no
\* kernel that locks the directory. handles: opened, used and released while
\* their nodes are unlinked and reclaimed. listing: readdirplus with roll back,
\* panics and lost replies.
Profile ==
    LET tree == {"lookup", "mknod", "link", "rename", "forget", "nodeop"}
    IN  [nodes   |-> [ops |-> tree, records |-> 4, names |-> 2, handles |-> 0,
                      faults |-> FALSE, locks |-> TRUE],
         races   |-> [ops |-> tree, records |-> 3, names |-> 2, handles |-> 0,
                      faults |-> FALSE, locks |-> FALSE],
         handles |-> [ops |-> {"create", "forget", "open", "fileop", "getattr", "release"},
                      records |-> 3, names |-> 1, handles |-> 2,
                      faults |-> FALSE, locks |-> FALSE],
         listing |-> [ops |-> {"mknod", "lookup", "forget", "open", "readdir", "readdirplus",
                               "release"},
                      records |-> 3, names |-> 2, handles |-> 1,
                      faults |-> TRUE, locks |-> TRUE]]

P == Profile[profile]

Used(dir) == {n \in Names : dir[n] # 0}

\* The requests that change the directory, but for unlink and rename, which are
\* one step, and those that read it.
Changing == {"mknod", "create", "link"}
Reading == {"lookup", "readdir", "readdirplus"}

\* The step is one of the profile's.
InProfile ==
    /\ \A t \in Threads : th'[t].op \in P.ops \cup {"none"}
    /\ "rename" \notin P.ops /\ th' = th => Used(names') \subseteq Used(names)
    /\ Len(born') <= P.records /\ Cardinality(Used(names')) <= P.names
    /\ Len(hrec') + Cardinality({t \in Threads : th'[t].op \in {"open", "create"}
                                                 /\ th'[t].fh = 0}) <= P.handles
    /\ ~P.faults => leaked' = leaked
    /\ P.locks => /\ names' # names => Serving(Changing \cup Reading) = {}
                  /\ \A t \in Threads : Idle(t) /\ th'[t].op \in Reading => Serving(Changing) = {}

MCInit == Init /\ profile \in Profiles

MCNext == Next /\ InProfile /\ UNCHANGED profile

MCSpec == MCInit /\ [][MCNext]_<<vars, profile>>

\* Where the kernel locks the directory, an entry reply is about the node its
\* callback found or made: between the two, when nothing holds the inode number
\* (Runtime::lookup, entry_for), it is not reclaimed and reused.
EntryIsTheOneMeantUnderLock == P.locks => EntryIsTheOneMeant

\* Threads are interchangeable, and so are names.
Symmetry == Permutations(Threads) \cup Permutations(Names)

=============================================================================
