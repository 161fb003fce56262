----------------------------- MODULE PathAdapter -----------------------------
(***************************************************************************)
(* PathNodeFs of typed-fuse-core/src/path_fs.rs on top of the runtime's     *)
(* node table: how names, nodes and the filesystem's own tree stay in step. *)
(*                                                                         *)
(* The `operations' lock: a callback that changes names holds it            *)
(* exclusively and is one action here; a lookup or a directory read holds   *)
(* it shared, and its critical sections of the namespace mutex and of the   *)
(* node table are actions of their own. What the runtime does around a      *)
(* callback is modelled in module Runtime; here a forget, an open and a     *)
(* release are one action each, and an entry reply is counted and sent in   *)
(* one.                                                                     *)
(*                                                                         *)
(* External parts, modelled from how the adapter uses them:                 *)
(*   - the PathFilesystem: a tree of objects that changes only through the  *)
(*     adapter. A path is represented by the object it leads to;            *)
(*   - the kernel: it holds a directory's lock shared around lookup and     *)
(*     readdir and exclusively around a change, one request at a time       *)
(*     unless parallel directory operations are enabled, and no lock around *)
(*     a lookup that revalidates a name it holds; it changes only names it  *)
(*     has been told of, sends no request on a node it does not know, and   *)
(*     forgets no node that is open, in use or the parent of a name it      *)
(*     holds.                                                               *)
(***************************************************************************)
EXTENDS PathNamespace, FiniteSets

CONSTANTS
    Threads,            \* worker threads
    Names,              \* names of directory entries, numbers
    Ops,                \* the kinds of request the kernel sends
    ParallelDirops,     \* are parallel directory operations enabled?
    InitialTrees,       \* what the filesystem holds at mount
    MaxObjects,         \* bound: objects the filesystem ever holds
    MaxRecords,         \* bound: nodes ever inserted
    MaxRefs             \* bound: references the kernel holds on one node

ASSUME AdapterAssumption ==
    /\ IsFiniteSet(Threads) /\ IsFiniteSet(Names) /\ Names \subseteq Nat
    /\ ParallelDirops \in BOOLEAN
    /\ MaxObjects \in Nat \ {0} /\ MaxRecords \in Nat \ {0} /\ MaxRefs \in Nat \ {0}
    /\ InitialTrees \subseteq [tree : [1..MaxObjects -> [Names -> 0..MaxObjects]],
                                dirs : SUBSET (1..MaxObjects), made : 1..MaxObjects]

VARIABLES
    tree,       \* the filesystem: the object under each name of each object, 0 if none
    dirs,       \* its directories; object 1 is the root
    made,       \* objects made so far
    table,      \* the runtime's node table
    ns,         \* PathNodeFs::namespace
    node,       \* node[r]: the PathNode of record r, its state and its entry_attr
    krefs,      \* krefs[r]: references the kernel holds
    told,       \* names the kernel has been told of, with the record it was given
    th          \* the request each thread is serving

vars == <<tree, dirs, made, table, ns, node, krefs, told, th>>

Objects == 1..MaxObjects

\* PathNode: the object its NodeState stands for; whether entry_attr holds
\* attributes, and the link requests these attributes are older than.
NewNode(obj) == [obj |-> obj, some |-> FALSE, stale |-> {}]

\* d, obj and inserted: the dentry, the object found under it and whether this
\* request put it into the namespace. handle: a getattr was lent an open
\* handle. fresh: the attributes it replies are not older than the request.
IdleThread ==
    [pc |-> "idle", op |-> "none", d |-> Dentry(0, 0), obj |-> 0, id |-> 0, record |-> 0,
     inserted |-> FALSE, handle |-> FALSE, fresh |-> TRUE]

Init ==
    /\ \E fs \in InitialTrees : tree = fs.tree /\ dirs = fs.dirs /\ made = fs.made
    /\ table = NewTable
    /\ ns = NewNamespace
    /\ node = <<NewNode(1)>>
    /\ krefs = [r \in 1..MaxRecords |-> 0]
    /\ told = {}
    /\ th = [t \in Threads |-> IdleThread]

Idle(t) == th[t].pc = "idle"

Start(t, o) == o \in Ops /\ Idle(t)

Begin(t, rec) == th' = [th EXCEPT ![t] = rec]

Finish(t) == Begin(t, IdleThread)

InFlight == {t \in Threads : ~Idle(t)}

\* No lookup or directory read is inside its callback.
Exclusive == \A t \in Threads : th[t].pc \notin {"insert", "setattr", "offered"}

\* The kernel's lock on directory p.
Busy(p, ops) == \E t \in InFlight : th[t].op \in ops /\ th[t].d.parent = p

DirShared(p) ==
    /\ ~Busy(p, {"make", "link"})
    /\ ParallelDirops \/ ~Busy(p, {"lookup", "readdir"})

DirExclusive(p) == ~Busy(p, {"make", "link", "lookup", "readdir"})

\* The kernel holds the name n of directory p.
KernelKnows(p, n) == \E x \in told : x.d = Dentry(p, n)

\* The kernel knows the node numbered i.
Known(i) == Contains(table, i) /\ (i = ROOT \/ krefs[table.map[i].record] > 0)

\* path_for, followed by the filesystem's resolution of that path: the object,
\* or 0 if the node or one of its ancestors has no name.
PathOf(i) ==
    LET at[k \in 0..MaxObjects, j \in Nat] ==
            IF j = ROOT THEN 1
            ELSE IF k = 0 \/ Aliases(ns, j) = {} THEN 0
            ELSE LET d   == Canonical(ns, j)
                     dir == at[k - 1, d.parent]
                 IN  IF dir = 0 THEN 0 ELSE tree[dir][d.name]
    IN  at[MaxObjects, i]

\* Does path_for give the node a path at all?
HasPath(i) ==
    LET up[k \in 0..MaxObjects, j \in Nat] ==
            \/ j = ROOT
            \/ k # 0 /\ Aliases(ns, j) # {} /\ up[k - 1, Canonical(ns, j).parent]
    IN  up[MaxObjects, i]

------------------------------------------------------------------------------
(* Lookup, and the entry reply that ends it and every request that makes a   *)
(* name.                                                                     *)

\* lookup: the filesystem finds the name (otherwise nothing happens).
LookupName(t, o, p, n) ==
    LET dir == PathOf(p)
    IN  /\ Start(t, o) /\ Known(p)
        /\ dir \in dirs /\ tree[dir][n] # 0
        /\ Begin(t, [IdleThread EXCEPT !.pc = "insert", !.op = o,
                                       !.d = Dentry(p, n), !.obj = tree[dir][n]])
        /\ UNCHANGED <<tree, dirs, made, table, ns, node, krefs, told>>

Lookup(t, p, n) == DirShared(p) /\ LookupName(t, "lookup", p, n)

Revalidate(t, p, n) == KernelKnows(p, n) /\ LookupName(t, "revalidate", p, n)

\* set_entry_attr on node r.
WithAttr(nodes, r) == [nodes EXCEPT ![r].some = TRUE, ![r].stale = {}]

\* Namespace::insert under the namespace mutex: the node the dentry already
\* names, or a new one with the object's state. request goes on with its
\* number; if attr, set_entry_attr follows under the same exclusive lock.
InsertDentry(t, request, obj, attr) ==
    LET found == Knows(ns, request.d)
        i     == IF found THEN ns.by_name[request.d] ELSE Alloc(table).ino
        r     == IF found THEN table.map[i].record ELSE Len(node) + 1
        nodes == IF found THEN node ELSE Append(node, NewNode(obj))
    IN  /\ r <= MaxRecords
        /\ table' = IF found THEN table ELSE Insert(table, r)
        /\ ns' = IF found THEN ns ELSE insert(ns, i, request.d)
        /\ node' = IF attr THEN WithAttr(nodes, r) ELSE nodes
        /\ Begin(t, [request EXCEPT !.id = i, !.inserted = ~found])

LookupInsert(t) ==
    /\ th[t].pc = "insert"
    /\ InsertDentry(t, [th[t] EXCEPT !.pc = "setattr"], th[t].obj, FALSE)
    /\ UNCHANGED <<tree, dirs, made, krefs, told>>

\* The rest of add_node: the attributes found are left for entry_attr, unless
\* the node is gone (ENOENT). The callback returns.
SetEntryAttr(t) ==
    LET i == th[t].id
    IN  /\ th[t].pc = "setattr"
        /\ IF Contains(table, i)
           THEN /\ node' = WithAttr(node, table.map[i].record)
                /\ Begin(t, [th[t] EXCEPT !.pc = "entry"])
           ELSE Finish(t) /\ UNCHANGED node
        /\ UNCHANGED <<tree, dirs, made, table, ns, krefs, told>>

\* entry_for: the node is leased, or ENOENT.
EntryGet(t) ==
    LET i == th[t].id
    IN  /\ th[t].pc = "entry"
        /\ IF Contains(table, i)
           THEN /\ table' = Get(table, i)
                /\ Begin(t, [th[t] EXCEPT !.pc = "attr", !.record = table.map[i].record])
           ELSE Finish(t) /\ UNCHANGED table
        /\ UNCHANGED <<tree, dirs, made, ns, node, krefs, told>>

\* PathNodeFs::entry_attr: the attributes left for it, taken out, or those the
\* filesystem gives now, or an error of the filesystem.
EntryAttr(t) ==
    LET r == th[t].record
    IN  /\ th[t].pc = "attr"
        /\ IF node[r].some
           THEN /\ node' = [node EXCEPT ![r].some = FALSE, ![r].stale = {}]
                /\ Begin(t, [th[t] EXCEPT !.pc = "count", !.fresh = t \notin node[r].stale])
           ELSE /\ \E step \in {"count", "drop"} : Begin(t, [th[t] EXCEPT !.pc = step])
                /\ UNCHANGED node
        /\ UNCHANGED <<tree, dirs, made, table, ns, krefs, told>>

\* entry_for counts the lookup and drops its lease; the session replies, and
\* the kernel holds a name it did not hold before unless it revalidated one.
EntryReply(t) ==
    LET i == th[t].id
        r == th[t].record
    IN  /\ th[t].pc = "count" /\ krefs[r] < MaxRefs
        /\ table' = DropRef(RetainLookup(table, i), i, r)
        /\ krefs' = [krefs EXCEPT ![r] = @ + 1]
        /\ told' = IF th[t].op = "revalidate" THEN told
                   ELSE told \cup {[d |-> th[t].d, record |-> r]}
        /\ Finish(t)
        /\ UNCHANGED <<tree, dirs, made, ns, node>>

\* entry_attr failed.
EntryFails(t) ==
    /\ th[t].pc = "drop"
    /\ table' = DropRef(table, th[t].id, th[t].record)
    /\ Finish(t)
    /\ UNCHANGED <<tree, dirs, made, ns, node, krefs, told>>

------------------------------------------------------------------------------
(* Changes, under the exclusive lock. The filesystem is asked first; when it *)
(* refuses, nothing changes.                                                 *)

\* mknod, mkdir, symlink and create: the filesystem makes the object, and
\* add_node its node.
Make(t, p, n, isDir) ==
    LET dir == PathOf(p)
        request == [IdleThread EXCEPT !.pc = "entry", !.op = "make", !.d = Dentry(p, n)]
    IN  /\ Start(t, "make") /\ Known(p) /\ DirExclusive(p) /\ Exclusive
        /\ dir \in dirs /\ tree[dir][n] = 0 /\ made < MaxObjects
        /\ made' = made + 1
        /\ tree' = [tree EXCEPT ![dir][n] = made + 1]
        /\ dirs' = IF isDir THEN dirs \cup {made + 1} ELSE dirs
        /\ InsertDentry(t, request, made + 1, TRUE)
        /\ UNCHANGED <<krefs, told>>

LinkSource_ByState(i) == node[table.map[i].record].obj

\* What link asks the filesystem to give another name: the object at the
\* source's path; 0, and so ENOENT, if it has none.
LinkSource(i) == PathOf(i)

Link(t, i, p, n) ==
    LET dir == PathOf(p)
        obj == LinkSource(i)
        d   == Dentry(p, n)
        r   == table.map[i].record
    IN  /\ Start(t, "link") /\ Known(p) /\ Known(i) /\ DirExclusive(p) /\ Exclusive
        /\ dir \in dirs /\ tree[dir][n] = 0 /\ obj \in Objects \ dirs
        /\ tree' = [tree EXCEPT ![dir][n] = obj]
        /\ ns' = add_alias(ns, i, d)
        /\ table' = AddLink(table, i)
        /\ node' = [node EXCEPT ![r].stale = IF node[r].some THEN @ \cup {t} ELSE {}]
        /\ Begin(t, [IdleThread EXCEPT !.pc = "entry", !.op = "link", !.d = d, !.id = i])
        /\ UNCHANGED <<dirs, made, krefs, told>>

\* The names the kernel still holds when d is unlinked or renamed away.
Untold(ds) == {x \in told : x.d \notin ds}

Empty(obj) == obj \in dirs => \A n \in Names : tree[obj][n] = 0

Drop_KeepsName(space, tab, d) == [ns |-> space, table |-> tab]

\* The name leaves the namespace, and its node loses a link.
Drop(space, tab, d) ==
    IF Knows(space, d) THEN [ns |-> remove(space, d), table |-> RemoveLink(tab, space.by_name[d])]
                       ELSE [ns |-> space, table |-> tab]

\* remove_entry: unlink and rmdir.
RemoveEntry(p, n) ==
    LET dir  == PathOf(p)
        gone == Drop(ns, table, Dentry(p, n))
    IN  /\ "remove" \in Ops /\ Known(p) /\ KernelKnows(p, n) /\ DirExclusive(p) /\ Exclusive
        /\ dir \in dirs /\ tree[dir][n] # 0 /\ Empty(tree[dir][n])
        /\ tree' = [tree EXCEPT ![dir][n] = 0]
        /\ ns' = gone.ns
        /\ table' = gone.table
        /\ told' = Untold({Dentry(p, n)})
        /\ UNCHANGED <<dirs, made, node, krefs, th>>

\* Is object o the directory itself, or above it?
Above(o, dir) ==
    LET above[k \in 0..MaxObjects, x \in Objects] ==
            x = o \/ (k # 0 /\ \E y \in dirs, n \in Names : tree[y][n] = x /\ above[k - 1, y])
    IN  above[MaxObjects, dir]

Renamed_KeepsReplaced(old, new) ==
    [ns |-> add_alias(remove(ns, old), ns.by_name[old], new), table |-> table]

Renamed(old, new) ==
    LET gone == Drop(ns, table, new)
    IN  IF ~Knows(ns, old) \/ (Knows(ns, new) /\ ns.by_name[new] = ns.by_name[old])
        THEN [ns |-> ns, table |-> table]
        ELSE [ns |-> add_alias(remove(gone.ns, old), ns.by_name[old], new),
              table |-> gone.table]

\* rename without flags: within one filesystem, onto nothing, onto a file by a
\* file, onto an empty directory by a directory.
Rename(p, n, q, m) ==
    LET from == PathOf(p)
        to   == PathOf(q)
        obj  == tree[from][n]
        over == tree[to][m]
        old  == Dentry(p, n)
        new  == Dentry(q, m)
    IN  /\ "rename" \in Ops /\ Known(p) /\ Known(q) /\ KernelKnows(p, n)
        /\ DirExclusive(p) /\ DirExclusive(q) /\ Exclusive
        /\ from \in dirs /\ to \in dirs /\ old # new
        /\ obj # 0 /\ (obj \in dirs => ~Above(obj, to))
        /\ over # 0 => (obj \in dirs <=> over \in dirs) /\ Empty(over) /\ KernelKnows(q, m)
        \* POSIX: two names of one file are both left alone.
        /\ tree' = IF over = obj THEN tree
                   ELSE [o \in Objects |-> [x \in Names |->
                            IF o = to /\ x = m THEN obj
                            ELSE IF o = from /\ x = n THEN 0 ELSE tree[o][x]]]
        /\ ns' = Renamed(old, new).ns
        /\ table' = Renamed(old, new).table
        /\ told' = Untold({old, new})
                   \cup {[d |-> new, record |-> x.record] : x \in {y \in told : y.d = old}}
        /\ UNCHANGED <<dirs, made, node, krefs, th>>

------------------------------------------------------------------------------
(* One entry of a readdir or readdirplus.                                    *)

\* add_listed_entry: the child is found in the namespace or inserted.
ListEntry(t, p, n) ==
    LET dir == PathOf(p)
    IN  /\ Start(t, "readdir") /\ Known(p) /\ DirShared(p)
        /\ dir \in dirs /\ tree[dir][n] # 0
        /\ InsertDentry(t, [IdleThread EXCEPT !.pc = "offered", !.op = "readdir",
                                              !.d = Dentry(p, n)], tree[dir][n], FALSE)
        /\ UNCHANGED <<tree, dirs, made, krefs, told>>

\* The buffer takes the entry. A readdirplus also counts a lookup and tells
\* the kernel; it cannot take a node that is gone.
EntryAccepted(t, plus) ==
    LET i == th[t].id
        r == table.map[i].record
    IN  /\ th[t].pc = "offered"
        /\ IF plus THEN /\ Contains(table, i) /\ krefs[r] < MaxRefs
                        /\ table' = RetainLookup(table, i)
                        /\ krefs' = [krefs EXCEPT ![r] = @ + 1]
                        /\ told' = told \cup {[d |-> th[t].d, record |-> r]}
                   ELSE UNCHANGED <<table, krefs, told>>
        /\ Finish(t)
        /\ UNCHANGED <<tree, dirs, made, ns, node>>

RolledBack_AlwaysRollsBack(request) == Drop(ns, table, request.d)

\* rollback_dentry, if this request inserted the entry.
RolledBack(request) ==
    IF request.inserted THEN Drop(ns, table, request.d) ELSE [ns |-> ns, table |-> table]

\* The buffer does not take it.
EntryRejected(t) ==
    LET rest == RolledBack(th[t])
    IN  /\ th[t].pc = "offered"
        /\ ns' = rest.ns
        /\ table' = rest.table
        /\ Finish(t)
        /\ UNCHANGED <<tree, dirs, made, node, krefs, told>>

------------------------------------------------------------------------------
(* Requests on a node.                                                       *)

\* forget of all the references the kernel holds.
Forget(i) ==
    LET r == table.map[i].record
    IN  /\ "forget" \in Ops /\ i # ROOT /\ Known(i)
        /\ table.map[i].count["opens"] = 0
        /\ \A x \in told : x.d.parent # i
        /\ \A t \in InFlight : th[t].d.parent # i /\ (th[t].op \in {"link", "getattr"} => th[t].id # i)
        /\ table' = DropRef(ForgetLookups(table, i, krefs[r]), i, r)
        /\ krefs' = [krefs EXCEPT ![r] = 0]
        /\ told' = {x \in told : x.record # r}
        /\ UNCHANGED <<tree, dirs, made, ns, node, th>>

\* open of a file that has a path (bound: one handle open on a node), and the
\* release of the handle when no request borrows it.
Open(i) ==
    /\ "open" \in Ops /\ Known(i) /\ table.map[i].count["opens"] = 0
    /\ HasPath(i) /\ node[table.map[i].record].obj \notin dirs
    /\ table' = AddOpen(table, i)
    /\ UNCHANGED <<tree, dirs, made, ns, node, krefs, told, th>>

Release(i) ==
    /\ table.map[i].count["opens"] > 0
    /\ \A t \in InFlight : th[t].handle => th[t].id # i
    /\ table' = RemoveOpen(table, i)
    /\ UNCHANGED <<tree, dirs, made, ns, node, krefs, told, th>>

\* getattr or setattr without a handle: Runtime::optional_file lends the open
\* handle if the node has no path.
GetattrStart(t, i) ==
    /\ Start(t, "getattr") /\ Known(i)
    /\ table' = Get(table, i)
    /\ Begin(t, [IdleThread EXCEPT !.pc = "getattr", !.op = "getattr", !.id = i,
                                   !.record = table.map[i].record,
                                   !.handle = table.map[i].count["opens"] > 0 /\ ~HasPath(i)])
    /\ UNCHANGED <<tree, dirs, made, ns, node, krefs, told>>

\* PathNodeFs::getattr, and the return of the leases.
GetattrCall(t) ==
    /\ th[t].pc = "getattr"
    /\ table' = DropRef(table, th[t].id, th[t].record)
    /\ Finish(t)
    /\ UNCHANGED <<tree, dirs, made, ns, node, krefs, told>>

------------------------------------------------------------------------------
Live == DOMAIN table.map

\* The requests of the kernel.
Request(t) ==
    \/ \E p \in Live, n \in Names : Lookup(t, p, n) \/ Revalidate(t, p, n) \/ ListEntry(t, p, n)
    \/ \E p \in Live, n \in Names, isDir \in BOOLEAN : Make(t, p, n, isDir)
    \/ \E i, p \in Live, n \in Names : Link(t, i, p, n)
    \/ \E i \in Live : GetattrStart(t, i)

\* What a thread does on its own once it has a request.
Continue(t) ==
    \/ LookupInsert(t) \/ SetEntryAttr(t)
    \/ EntryGet(t) \/ EntryAttr(t) \/ EntryReply(t) \/ EntryFails(t)
    \/ \E plus \in BOOLEAN : EntryAccepted(t, plus)
    \/ EntryRejected(t) \/ GetattrCall(t)

Next ==
    \/ \E t \in Threads : Request(t) \/ Continue(t)
    \/ \E i \in Live : Forget(i) \/ Open(i) \/ Release(i)
    \/ \E p \in Live, n \in Names : RemoveEntry(p, n)
    \/ \E p, q \in Live, n, m \in Names : Rename(p, n, q, m)

Spec == Init /\ [][Next]_vars

------------------------------------------------------------------------------
\* The two maps of the namespace are inverse to each other, so a node's path
\* ends in a name that leads back to it (path_for, remove, add_alias).
NamespaceConsistent ==
    /\ \A d \in DOMAIN ns.by_name : <<ns.by_name[d], d>> \in ns.aliases
    /\ \A a \in ns.aliases : Knows(ns, a[2]) /\ ns.by_name[a[2]] = a[1]

\* The runtime's link count of every node is the number of names the adapter
\* knows for it: names never keep a dead node, and no node with a name is
\* reclaimed (remove_entry, rename, link and rollback_dentry pair every change
\* of the namespace with one of the count).
LinksAreNames ==
    /\ \A d \in DOMAIN ns.by_name : ns.by_name[d] \in Live
    /\ \A i \in Live \ {ROOT} :
           table.map[i].count["links"] = Cardinality({d \in DOMAIN ns.by_name : ns.by_name[d] = i})

\* The node a name leads to carries the state of the object the filesystem has
\* under that name, and the directory the name is in still has a path to that
\* object: rename, replacement and removal never leave the namespace behind.
NamesAgree ==
    \A d \in DOMAIN ns.by_name :
        LET dir == PathOf(d.parent)
        IN  dir \in dirs /\ tree[dir][d.name] = node[table.map[ns.by_name[d]].record].obj

\* A name the kernel was given, and has not since unlinked, renamed or
\* forgotten, still leads to the node it was given (so an open through it does
\* not fail with ENOENT): the rollback of a listed entry that did not fit
\* (rollback_dentry) takes away no name that another request has passed on.
ToldNamesKept ==
    \A x \in told : Knows(ns, x.d) /\ ns.by_name[x.d] \in Live
                    /\ table.map[ns.by_name[x.d]].record = x.record

\* All the replies that gave the kernel one name gave it one node
\* (Namespace::insert reuses the node of a dentry it knows).
OneIdentityPerName == \A x, y \in told : x.d = y.d => x.record = y.record

\* The getattr of an open node without a path is lent an open handle
\* (wants_fallback_handle, optional_file).
FallbackHeld ==
    \A t \in Threads :
        th[t].pc = "getattr" /\ ~HasPath(th[t].id) /\ table.map[th[t].id].count["opens"] > 0
            => th[t].handle

\* No node whose name is known is lent the fallback handle, even when the call
\* comes long after the choice: a node that has lost its last name never gets
\* another (link, rename and Namespace::insert name no such node).
LentOnlyWhenUnnamed == \A t \in Threads : th[t].handle => ~HasPath(th[t].id)

\* An entry reply carries attributes read after its request began: the slot
\* entry_attr takes them from holds none from before a link was made.
EntryAttrFresh == \A t \in Threads : th[t].pc = "count" => th[t].fresh

==============================================================================
