------------------------------- MODULE MemoryFs -------------------------------
(***************************************************************************)
(* typed-fuse/examples/memory_fs.rs: a filesystem that keeps its tree in    *)
(* the runtime's nodes. Every directory holds entries that name nodes by    *)
(* number; whether a number is still a node is up to the runtime's table,   *)
(* which is told of each name by insert, add_link and remove_link. The      *)
(* counts the kernel sees (nlink) and the `..' of a listing (the parent of  *)
(* a slot) are kept by hand, next to the entries.                           *)
(*                                                                         *)
(* A request that changes names runs through several critical sections of   *)
(* node locks and of the table, one action each here; changes of nlink that *)
(* follow one another are one action, for only getattr reads nlink.         *)
(* Lookups and forgets come between any two of them. What                   *)
(* the callbacks do to times, modes and owners is left out, and every node  *)
(* that is no directory is a file.                                          *)
(*                                                                         *)
(* External, the kernel (its VFS): it holds the locks of the directories    *)
(* and of the inodes a changing request is about, so two such requests on   *)
(* one of them exclude each other, and here they follow one another; it     *)
(* names only inodes it has a reference to, and keeps the reference while   *)
(* the request runs; it makes no name in a removed directory, no second     *)
(* name for a file that has lost its last, and moves no directory below     *)
(* itself. Flags of rename are ignored by the code and left out.            *)
(***************************************************************************)
EXTENDS NodeTable, FiniteSets

CONSTANTS
    Names,          \* names an entry may have
    MaxRecords,     \* bound: nodes ever made, the root included
    MaxRefs         \* bound: lookups counted on a node that is looked up or linked again

ASSUME MemoryBounds == MaxRecords \in Nat \ {0} /\ MaxRefs \in Nat

VARIABLES
    table,      \* the runtime's table (NodeTable)
    parent,     \* the parent of each live Slot, 0 for a number without one
    node,       \* node[r]: what Node the r-th record holds
    job         \* the changing request in progress

vars == <<table, parent, node, job>>

Inos == 1 .. MaxRecords

Live == DOMAIN table.map

\* No entry, and a directory without any.
None == [id |-> 0, kind |-> "none"]

Empty == [n \in Names |-> None]

Idle == [op |-> "none", step |-> "none", ids |-> {}]

\* Node::new.
NewNode(kind) == [kind |-> kind, entries |-> Empty, nlink |-> IF kind = "dir" THEN 2 ELSE 1]

\* The record and the payload of a live number: what cx.get gives access to.
Rec(i) == table.map[i].record

At(i) == node[Rec(i)]

IsDir(i) == At(i).kind = "dir"

\* MemoryFs::entry of a live directory.
Entry(d, n) == At(d).entries[n]

\* entries.insert and entries.remove under the write lock of d, and a change of
\* nlink, as functions of the payloads.
Put(nodes, d, n, entry) == [nodes EXCEPT ![Rec(d)].entries[n] = entry]

Nlink(nodes, i, by) == [nodes EXCEPT ![Rec(i)].nlink = IF @ + by > 0 THEN @ + by ELSE 0]

Links(i) == table.map[i].count["links"]

\* A new value of the table; a slot that goes takes its parent with it.
Table(t) ==
    /\ table' = t
    /\ parent' = [i \in Inos |-> IF Contains(t, i) THEN parent[i] ELSE 0]

Init ==
    /\ table = NewTable
    /\ parent = [i \in Inos |-> IF i = ROOT THEN ROOT ELSE 0]
    /\ node = <<NewNode("dir")>>
    /\ job = Idle

------------------------------------------------------------------------------
\* The kernel.
Known(i) == i = ROOT \/ (i \in Live /\ table.map[i].count["lookups"] > 0)

HeldIn(d, i) == \E n \in Names : Entry(d, n).id = i

Named(i) == i = ROOT \/ \E d \in Live : HeldIn(d, i)

\* The directories the kernel may send a request about a name of: not those
\* that were removed. One that is being moved is without a name for a moment.
Directories ==
    {d \in Live : Known(d) /\ IsDir(d) /\ (Named(d) \/ (job.step = "insert" /\ job.id = d))}

\* d and the directories it lies below.
Above(d) ==
    LET up[k \in 0 .. MaxRecords] ==
            IF k = 0 THEN {d}
            ELSE LET low == up[k - 1]
                 IN  low \cup {e \in Live : \E i \in low : HeldIn(e, i)}
    IN  up[MaxRecords]

------------------------------------------------------------------------------
\* lookup, and Runtime::entry_for. It may come while a change is in progress:
\* the kernel revalidates a name without locking its directory.
Lookup(d, n) ==
    /\ LET i == Entry(d, n).id
       IN  /\ i \in Live /\ table.map[i].count["lookups"] < MaxRefs
           /\ Table(RetainLookup(table, i))
    /\ UNCHANGED <<node, job>>

\* Runtime::forget of all the references the kernel has, which is what it does
\* with an inode it evicts; the callback is the trait's empty default. The
\* kernel keeps what a running request is about.
Forget(i) ==
    /\ i \in Live \ (job.ids \cup {ROOT}) /\ Known(i)
    /\ Table(DropRef(ForgetLookups(table, i, table.map[i].count["lookups"]), i, Rec(i)))
    /\ UNCHANGED <<node, job>>

------------------------------------------------------------------------------
\* mknod, mkdir, symlink and create, which all end in create_child:
\* check_new_entry and cx.insert ...
Make(d, n, kind) ==
    /\ job = Idle
    /\ Entry(d, n) = None
    /\ Len(node) < MaxRecords
    /\ LET i == Alloc(table).ino
       IN  /\ table' = Insert(table, Len(node) + 1)
           /\ parent' = [parent EXCEPT ![i] = d]
           /\ node' = Append(node, NewNode(kind))
           /\ job' = [op |-> "make", step |-> "link_into", ids |-> {d, i},
                      id |-> i, d |-> d, n |-> n]

\* Mutated forms, here and below: a definition as a bug would have it. Nothing
\* uses them but the experiments that show the properties notice such a bug.
LinkInto_NoParentCount(d, n, i) == node' = Put(node, d, n, [id |-> i, kind |-> At(i).kind])

\* link_into, for a node just made and for one that link gives a new name: the
\* entry, and one more nlink for the parent of a directory.
LinkInto(d, n, i) ==
    node' = Nlink(Put(node, d, n, [id |-> i, kind |-> At(i).kind]), d, IF IsDir(i) THEN 1 ELSE 0)

MakeLinked ==
    /\ job.op = "make" /\ job.step = "link_into"
    /\ LinkInto(job.d, job.n, job.id)
    /\ job' = [job EXCEPT !.step = "entry_for"]
    /\ UNCHANGED <<table, parent>>

\* Runtime::entry_for at the end of a request that replies with an entry.
EntryFor ==
    /\ job.step = "entry_for"
    /\ Table(RetainLookup(table, job.id))
    /\ job' = Idle
    /\ UNCHANGED node

------------------------------------------------------------------------------
\* link: check_new_entry and link_into, then cx.add_link, then nlink.
Link(i, d, n) ==
    /\ job = Idle
    /\ i \in Live /\ Known(i) /\ Named(i)
    /\ ~IsDir(i)
    /\ Entry(d, n) = None
    /\ table.map[i].count["lookups"] <= MaxRefs
    /\ LinkInto(d, n, i)
    /\ job' = [op |-> "link", step |-> "add_link", ids |-> {i, d}, id |-> i]
    /\ UNCHANGED <<table, parent>>

AddedLink_Forgotten ==
    /\ job.step = "add_link"
    /\ node' = Nlink(node, job.id, 1)
    /\ job' = [job EXCEPT !.step = "entry_for"]
    /\ UNCHANGED <<table, parent>>

AddedLink ==
    /\ job.step = "add_link"
    /\ Table(AddLink(table, job.id))
    /\ node' = Nlink(node, job.id, 1)
    /\ job' = [job EXCEPT !.step = "entry_for"]

------------------------------------------------------------------------------
\* unlink refuses nothing the kernel sends it; rmdir a directory with entries.
Emptied(i) == At(i).entries = Empty

Removable_EvenFull(i) == TRUE

Removable(i) == IsDir(i) => Emptied(i)

\* unlink and rmdir: the checks, and entries.remove (with the parent's nlink
\* for a directory) ...
Remove(d, n) ==
    LET i == Entry(d, n).id
    IN  /\ job = Idle
        /\ i # 0 /\ Known(i)
        /\ Removable(i)
        /\ node' = Nlink(Put(node, d, n, None), d, IF IsDir(i) THEN -1 ELSE 0)
        /\ job' = [op |-> "remove", step |-> "nlink", ids |-> {d, i}, id |-> i,
                   all |-> IsDir(i)]
        /\ UNCHANGED <<table, parent>>

\* ... then the nlink of what lost its name, ...
LoseNlink ==
    /\ job.step = "nlink"
    /\ node' = [node EXCEPT ![Rec(job.id)].nlink = IF job.all \/ @ = 0 THEN 0 ELSE @ - 1]
    /\ job' = [job EXCEPT !.step = "remove_link"]
    /\ UNCHANGED <<table, parent>>

\* ... then cx.remove_link.
Unlinked ==
    /\ job.step = "remove_link"
    /\ Table(RemoveLink(table, job.id))
    /\ job' = Idle
    /\ UNCHANGED node

------------------------------------------------------------------------------
\* rename: a directory replaces an empty directory, anything else something
\* that is none; a name of the same node is left as it is.
MayReplace(i, old) ==
    /\ i # old
    /\ IsDir(i) = IsDir(old)
    /\ Emptied(old)

\* The checks, and the entry's removal from its old place.
Vacate_BothPlaces(d, n, e, m) == Put(Put(node, d, n, None), e, m, None)

Vacate(d, n, e, m) == Put(node, d, n, None)

Rename(d, n, e, m) ==
    LET i == Entry(d, n).id
        old == Entry(e, m).id
    IN  /\ job = Idle
        /\ i # 0 /\ Known(i) /\ i \notin Above(e)
        /\ old # 0 => Known(old) /\ MayReplace(i, old)
        /\ node' = Vacate(d, n, e, m)
        /\ job' = [op |-> "rename", step |-> "insert", ids |-> {d, e, i, old} \ {0},
                   id |-> i, d |-> d, n |-> n, e |-> e, m |-> m]
        /\ UNCHANGED <<table, parent>>

\* entries.insert at the new place, which returns the entry it replaced.
RenameInserted ==
    /\ job.step = "insert"
    /\ node' = Put(node, job.e, job.m, [id |-> job.id, kind |-> At(job.id).kind])
    /\ job' = [op |-> "rename", step |-> "reparent", ids |-> job.ids, id |-> job.id,
               d |-> job.d, e |-> job.e, replaced |-> Entry(job.e, job.m)]
    /\ UNCHANGED <<table, parent>>

\* Cx::reparent.
Reparent_Ignored(i, d) == parent

Reparent(i, d) == [parent EXCEPT ![i] = d]

\* A directory that moved to another one: cx.reparent, and the nlink of both
\* parents. The nlink of the parent of a replaced directory.
Moved == IsDir(job.id) /\ job.d # job.e

Reparented ==
    /\ job.step = "reparent"
    /\ parent' = IF Moved THEN Reparent(job.id, job.e) ELSE parent
    /\ LET moved == IF Moved THEN Nlink(Nlink(node, job.d, -1), job.e, 1) ELSE node
       IN  node' = IF job.replaced.kind = "dir" THEN Nlink(moved, job.e, -1) ELSE moved
    /\ job' = IF job.replaced = None THEN Idle
              ELSE [op |-> "rename", step |-> "nlink", ids |-> job.ids, id |-> job.replaced.id,
                    all |-> job.replaced.kind = "dir"]
    /\ UNCHANGED table

------------------------------------------------------------------------------
Next ==
    \/ \E d \in Directories, n \in Names :
           \/ Lookup(d, n)
           \/ \E kind \in {"dir", "file"} : Make(d, n, kind)
           \/ \E i \in Live : Link(i, d, n)
           \/ Remove(d, n)
           \/ \E e \in Directories, m \in Names : Rename(d, n, e, m)
    \/ MakeLinked \/ AddedLink \/ EntryFor
    \/ LoseNlink \/ Unlinked
    \/ RenameInserted \/ Reparented
    \/ \E i \in Live : Forget(i)

Spec == Init /\ [][Next]_vars

------------------------------------------------------------------------------
\* How often the live directories name i.
NamesOf(i) == Cardinality({x \in Live \X Names : Entry(x[1], x[2]).id = i})

\* Entries and runtime agree: an entry names a live node, of the kind the entry
\* says, whatever is half done, and between requests a node has as many links
\* as there are entries for it (add_link, remove_link), so that the number of
\* an entry is never given to another node.
EntriesLinked ==
    /\ \A d \in Live, n \in Names :
           Entry(d, n) # None => /\ Entry(d, n).id \in Live
                                 /\ Entry(d, n).kind = At(Entry(d, n).id).kind
    /\ job = Idle => \A i \in Live \ {ROOT} : Links(i) = NamesOf(i)

\* Between requests the kernel is told the right link count: the names of a
\* file; two and one for each subdirectory of a directory that has a name,
\* and none for one that was removed (link_into, unlink, rmdir, rename).
NlinkReported ==
    job = Idle =>
        \A i \in Live :
            At(i).nlink =
                IF ~IsDir(i) THEN NamesOf(i)
                ELSE IF Named(i) THEN 2 + Cardinality({n \in Names : Entry(i, n).kind = "dir"})
                ELSE 0

\* Between requests the directories form one tree that `..' climbs: a directory
\* with a name has one, held by the parent its slot reports, and lies below the
\* root (insert's parent, reparent).
ParentHolds ==
    job = Idle =>
        \A i \in Live \ {ROOT} :
            IsDir(i) /\ Named(i) => /\ NamesOf(i) = 1
                                    /\ parent[i] \in Live /\ HeldIn(parent[i], i)
                                    /\ ROOT \in Above(i)

\* A name that is replaced resolves throughout: only the name a request takes
\* away is ever without an entry after it had one (rename inserts over the old
\* entry and never removes it first).
OnlyTakenNamesGo ==
    [][ \A d \in Live \cap DOMAIN table'.map, n \in Names :
            Entry(d, n) # None /\ Entry(d, n)' = None
                => \/ job'.op = "remove"
                   \/ job'.op = "rename" /\ d = job'.d /\ n = job'.n ]_vars

------------------------------------------------------------------------------
\* The tree as FileTree has it. Objects are records; the object rename carries
\* still has its old name until the new entry is in.
Object(e) == IF e = None THEN 0 ELSE Rec(e.id)

TreeOf(r) ==
    IF r \notin 1 .. Len(node) THEN [n \in Names |-> 0]
    ELSE [n \in Names |-> IF job.step = "insert" /\ r = Rec(job.d) /\ n = job.n THEN Rec(job.id)
                          ELSE Object(node[r].entries[n])]

Pending == IF job.step = "link_into" THEN {Len(node)} ELSE {}

FT == INSTANCE FileTree WITH
        Objects <- Inos,
        tree <- [r \in Inos |-> TreeOf(r)],
        dirs <- {r \in 1 .. Len(node) : node[r].kind = "dir"} \ Pending,
        made <- Len(node) - Cardinality(Pending)

\* However its steps interleave with lookups and forgets, the filesystem's tree
\* changes only as a tree of names may: by whole creations, links, removals and
\* renames, never losing, doubling or swapping an object.
ImplementsTree == FT!TreeSpec

==============================================================================
