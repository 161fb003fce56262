------------------------------- MODULE Runtime -------------------------------
(***************************************************************************)
(* Runtime<F> of typed-fuse-core/src/runtime.rs: worker threads serve        *)
(* kernel requests against one node table and one handle table. Each        *)
(* critical section of the code is one action; between two of them any      *)
(* other thread may run. A filesystem callback happens between two actions  *)
(* of its thread, or is the action itself when it changes the namespace.    *)
(*                                                                         *)
(* External parts, modelled from how the runtime uses them:                 *)
(*   - the NodeFs: one directory (the root) whose entries are names; every  *)
(*     structural callback is atomic and mirrors its change in Cx, and a    *)
(*     directory is not changed while a listing of it is being emitted (the *)
(*     NodeFs contract "only emit live NodeIds");                           *)
(*   - the kernel: it may send a request on any live inode or any handle    *)
(*     number ever issued, forgets at most the references it was given, and *)
(*     releases handles at any time.                                        *)
(*                                                                         *)
(* `born', `krefs', `leaked' and the `meant' and `record' parts of the       *)
(* thread state are history: no guard of the code reads them, except        *)
(* through NodeRef's Arc::ptr_eq.                                           *)
(***************************************************************************)
EXTENDS NodeTable, FiniteSets

CONSTANTS
    Threads,        \* worker threads of the libfuse loop
    Names,          \* names a directory entry may have
    Ops,            \* the kinds of request the kernel sends
    KernelDirLock,  \* does the kernel lock a directory around its requests?
    Panics,         \* may a listing callback panic (caught by the session)?
    RepliesFail,    \* may the session fail to send an entry or open reply?
    MaxRecords,     \* bound: nodes ever created, the root included
    MaxFh,          \* bound: handles ever opened
    MaxRefs,        \* bound: lookup count at which no new lookup starts
    MaxPage         \* bound: entries of one readdirplus reply

AllOps == {"lookup", "mknod", "create", "link", "unlink", "rename", "forget",
           "nodeop", "open", "fileop", "getattr", "release", "readdir", "readdirplus"}

ASSUME RuntimeAssumption ==
    /\ IsFiniteSet(Threads) /\ Threads # {} /\ IsFiniteSet(Names)
    /\ Ops \subseteq AllOps
    /\ KernelDirLock \in BOOLEAN
    /\ Panics \in BOOLEAN /\ RepliesFail \in BOOLEAN
    /\ MaxRecords \in Nat \ {0} /\ MaxFh \in Nat /\ MaxRefs \in Nat /\ MaxPage \in Nat

VARIABLES
    table,   \* Shared::table
    born,    \* born[r]: the inode number and generation record r was inserted under
    names,   \* the filesystem's directory: the inode under each name, 0 if none
    krefs,   \* krefs[r]: references to record r the kernel holds
    leaked,  \* leaked[r]: lookups of r counted for entries the kernel never saw
    open,    \* handle numbers in HandleTable::files and ::dirs
    hrec,    \* hrec[fh]: the HandleRecord numbered fh
    th       \* the request each thread is serving

vars == <<table, born, names, krefs, leaked, open, hrec, th>>

Records == 1..MaxRecords

\* A NodeRef or an entry: an inode number and the record it stood for.
Ref == [ino : Nat, record : Nat]
NoRef == [ino |-> 0, record |-> 0]

HandleRecord == [node : Nat, active : Nat, closing : BOOLEAN, taken : BOOLEAN]

\* Where a request is between two critical sections.
Steps == {"idle", "entry", "attr", "leased", "addopen", "addhandle", "acquire",
          "scan", "using", "unlease", "reply",
          "relnode", "relopen", "closing", "waiting", "taken",
          "forgotten", "sweep", "listing", "retain", "rollback"}

Thread == [pc : Steps, op : AllOps \cup {"none"}, id : Nat, meant : Nat, fh : Nat,
           lease : Ref, flease : Ref, got : Ref, accepted : Seq(Ref)]

IdleThread == [pc |-> "idle", op |-> "none", id |-> 0, meant |-> 0, fh |-> 0,
               lease |-> NoRef, flease |-> NoRef, got |-> NoRef, accepted |-> <<>>]

Init ==
    /\ table = NewTable
    /\ born = <<[ino |-> ROOT, generation |-> 0]>>
    /\ names = [n \in Names |-> 0]
    /\ krefs = [r \in Records |-> 0]
    /\ leaked = [r \in Records |-> 0]
    /\ open = {}
    /\ hrec = <<>>
    /\ th = [t \in Threads |-> IdleThread]

Goto(t, step) == th' = [th EXCEPT ![t].pc = step]

Finish(t) == th' = [th EXCEPT ![t] = IdleThread]

Idle(t) == th[t].pc = "idle"

Start(t, o) == o \in Ops /\ Idle(t)

\* HandleRecord::new, HandleTable::add_file and add_dir.
NewHandle(node) == [node |-> node, active |-> 0, closing |-> FALSE, taken |-> FALSE]

------------------------------------------------------------------------------
(* The filesystem's directory and the kernel's directory lock.             *)

Serving(ops) == {t \in Threads : ~Idle(t) /\ th[t].op \in ops}

\* A callback that emits entries keeps the directory from changing.
NotListed == \A t \in Threads : th[t].pc \notin {"listing", "retain"}

\* Linux holds the directory's lock shared around lookup and readdir, and
\* exclusively around a request that changes it.
SharedAllowed == KernelDirLock => Serving({"mknod", "create", "link"}) = {}

ExclusiveAllowed ==
    /\ NotListed
    /\ KernelDirLock =>
          Serving({"mknod", "create", "link", "lookup", "readdir", "readdirplus"}) = {}

\* The bounds hold requests back, never a request that has started.
RefsBound == \A i \in DOMAIN table.map : table.map[i].count["lookups"] < MaxRefs

FhBound == Len(hrec) + Cardinality(Serving({"open", "create"})) < MaxFh

------------------------------------------------------------------------------
(* Requests that answer with an entry: lookup, mknod/mkdir/symlink, create   *)
(* and link. The callback returns an inode number; entry_for then leases it, *)
(* reads its attributes and counts the lookup.                               *)

EntryCallback(t, o, ino, record) ==
    th' = [th EXCEPT ![t] = [IdleThread EXCEPT !.pc = "entry", !.op = o,
                                               !.id = ino, !.meant = record]]

Lookup(t, n) ==
    /\ Start(t, "lookup") /\ SharedAllowed
    /\ names[n] # 0 /\ RefsBound
    /\ EntryCallback(t, "lookup", names[n], table.map[names[n]].record)
    /\ UNCHANGED <<table, born, names, krefs, leaked, open, hrec>>

MakeNode(t, o, n) ==
    /\ Start(t, o) /\ ExclusiveAllowed
    /\ names[n] = 0 /\ Len(born) < MaxRecords /\ (o = "create" => FhBound)
    /\ table' = Insert(table, Len(born) + 1)
    /\ born' = Append(born, Alloc(table))
    /\ names' = [names EXCEPT ![n] = Alloc(table).ino]
    /\ EntryCallback(t, o, Alloc(table).ino, Len(born) + 1)
    /\ UNCHANGED <<krefs, leaked, open, hrec>>

Link(t, i, n) ==
    /\ Start(t, "link") /\ ExclusiveAllowed
    /\ names[n] = 0 /\ i # ROOT /\ RefsBound
    /\ table' = AddLink(table, i)
    /\ names' = [names EXCEPT ![n] = i]
    /\ EntryCallback(t, "link", i, table.map[i].record)
    /\ UNCHANGED <<born, krefs, leaked, open, hrec>>

\* entry_for: cx.get(id), or ENOENT.
EntryGet(t) ==
    LET i == th[t].id
    IN  /\ th[t].pc = "entry"
        /\ IF Contains(table, i)
           THEN /\ table' = Get(table, i)
                /\ th' = [th EXCEPT ![t].pc = "attr",
                                    ![t].lease = [ino |-> i, record |-> table.map[i].record]]
           ELSE Finish(t) /\ UNCHANGED table
        /\ UNCHANGED <<born, names, krefs, leaked, open, hrec>>

\* entry_for: fs.entry_attr succeeds and the lookup is counted.
EntryCount(t) ==
    LET i == th[t].id
    IN  /\ th[t].pc = "attr"
        /\ IF Contains(table, i)
           THEN /\ table' = RetainLookup(table, i)
                /\ th' = [th EXCEPT ![t].pc = "unlease",
                                    ![t].got = [ino |-> i, record |-> table.map[i].record]]
           ELSE Goto(t, "unlease") /\ UNCHANGED table
        /\ UNCHANGED <<born, names, krefs, leaked, open, hrec>>

\* entry_for: fs.entry_attr fails.
EntryFails(t) ==
    /\ th[t].pc = "attr"
    /\ Goto(t, "unlease")
    /\ UNCHANGED <<table, born, names, krefs, leaked, open, hrec>>

------------------------------------------------------------------------------
(* Callbacks that only change the directory: unlink/rmdir and rename.        *)

Unlink(n) ==
    /\ "unlink" \in Ops /\ ExclusiveAllowed
    /\ names[n] # 0
    /\ table' = RemoveLink(table, names[n])
    /\ names' = [names EXCEPT ![n] = 0]
    /\ UNCHANGED <<born, krefs, leaked, open, hrec, th>>

Rename_KeepsReplaced(n, m) ==
    /\ "rename" \in Ops /\ ExclusiveAllowed
    /\ names[n] # 0 /\ names[n] # names[m]
    /\ names' = [names EXCEPT ![n] = 0, ![m] = names[n]]
    /\ UNCHANGED <<table, born, krefs, leaked, open, hrec, th>>

Rename(n, m) ==
    /\ "rename" \in Ops /\ ExclusiveAllowed
    /\ names[n] # 0 /\ names[n] # names[m]
    /\ table' = IF names[m] = 0 THEN table ELSE RemoveLink(table, names[m])
    /\ names' = [names EXCEPT ![n] = 0, ![m] = names[n]]
    /\ UNCHANGED <<born, krefs, leaked, open, hrec, th>>

------------------------------------------------------------------------------
(* Forget.                                                                   *)

\* The first critical section of forget(ino, k): a missing inode returns at
\* once; a positive count that reaches zero is leased for the callback.
ForgetSection(t, ino, k, rest) ==
    IF ~Contains(table, ino) THEN th' = rest /\ UNCHANGED table
    ELSE /\ table' = ForgetLookups(table, ino, k)
         /\ IF ForgetsLast(table, ino, k)
            THEN th' = [rest EXCEPT ![t].pc = "forgotten",
                                    ![t].flease = [ino |-> ino, record |-> table.map[ino].record]]
            ELSE th' = [rest EXCEPT ![t].pc = "sweep",
                                    ![t].flease = [ino |-> ino, record |-> 0]]

Forget(t, r, k) ==
    /\ Start(t, "forget")
    /\ k <= krefs[r]
    /\ krefs' = [krefs EXCEPT ![r] = @ - k]
    /\ ForgetSection(t, born[r].ino, k, th)
    /\ UNCHANGED <<born, names, leaked, open, hrec>>

\* A forget ends a request of its own, or is one of a readdirplus rollback.
AfterForget(t) ==
    th' = [th EXCEPT ![t].pc = IF th[t].op = "readdirplus" THEN "rollback" ELSE "idle",
                     ![t].flease = NoRef]

\* fs.forget returns (or panics) and its NodeRef is dropped.
ForgetNotified(t) ==
    /\ th[t].pc = "forgotten"
    /\ table' = DropRef(table, th[t].flease.ino, th[t].flease.record)
    /\ AfterForget(t)
    /\ UNCHANGED <<born, names, krefs, leaked, open, hrec>>

\* No callback: the slot is examined in a second critical section.
ForgetSweep(t) ==
    /\ th[t].pc = "sweep"
    /\ table' = MaybeDrop(table, th[t].flease.ino)
    /\ AfterForget(t)
    /\ UNCHANGED <<born, names, krefs, leaked, open, hrec>>

------------------------------------------------------------------------------
(* Requests on a node: node(ino) leases it before anything else.             *)

LeaseNode(t, o, i, fh) ==
    /\ Start(t, o) /\ Contains(table, i)
    /\ table' = Get(table, i)
    /\ th' = [th EXCEPT ![t] = [IdleThread EXCEPT
                  !.pc = "leased", !.op = o, !.id = i, !.fh = fh,
                  !.lease = [ino |-> i, record |-> table.map[i].record]]]
    /\ UNCHANGED <<born, names, krefs, leaked, open, hrec>>

\* readlink, access and the extended attributes: one callback on the node.
NodeOp(t, i) == LeaseNode(t, "nodeop", i, 0)

\* getattr and setattr, with or without a handle number (0 stands for none).
Getattr(t, i, f) == LeaseNode(t, "getattr", i, f)

\* A handle on the root is a directory handle, any other is a file handle.
OpenNode(t, i) == FhBound /\ LeaseNode(t, "open", i, 0)

\* read, write, flush, fsync, fallocate, lseek, getlk, setlk and flock.
FileOp(t, i, f) == i # ROOT /\ LeaseNode(t, "fileop", i, f)

\* readdir and fsyncdir: a directory handle is borrowed and no lookup counted.
Readdir(t, f) == SharedAllowed /\ LeaseNode(t, "readdir", ROOT, f)

Readdirplus(t, f) == SharedAllowed /\ RefsBound /\ LeaseNode(t, "readdirplus", ROOT, f)

\* The callback of a request without a handle returns; fs.open may fail.
NodeCallback(t) ==
    /\ th[t].pc = "leased" /\ th[t].op \in {"nodeop", "open"}
    /\ Goto(t, "unlease")
    /\ UNCHANGED <<table, born, names, krefs, leaked, open, hrec>>

\* open and opendir: the callback has returned a payload; opens is counted,
\* then the handle gets its number. create does the same after entry_for.
CountOpen(t) ==
    LET i == th[t].id
    IN  /\ \/ th[t].pc = "leased" /\ th[t].op = "open"
           \/ th[t].pc = "addopen"
        /\ IF Contains(table, i)
           THEN table' = AddOpen(table, i) /\ Goto(t, "addhandle")
           ELSE /\ Goto(t, IF th[t].op = "create" THEN "reply" ELSE "unlease")
                /\ UNCHANGED table
        /\ UNCHANGED <<born, names, krefs, leaked, open, hrec>>

AddHandle(t) ==
    /\ th[t].pc = "addhandle"
    /\ hrec' = Append(hrec, NewHandle(th[t].id))
    /\ open' = open \cup {Len(hrec) + 1}
    /\ th' = [th EXCEPT ![t].pc = IF th[t].op = "create" THEN "reply" ELSE "unlease",
                        ![t].fh = Len(hrec) + 1]
    /\ UNCHANGED <<table, born, names, krefs, leaked>>

\* file(ino, fh) and dir(ino, fh): the record is cloned out of the table ...
FetchHandle(t) ==
    /\ th[t].pc = "leased"
    /\ th[t].op \in {"fileop", "readdir", "readdirplus"} \/ (th[t].op = "getattr" /\ th[t].fh # 0)
    /\ Goto(t, IF th[t].fh \in open /\ hrec[th[t].fh].node = th[t].id
               THEN "acquire" ELSE "unlease")
    /\ UNCHANGED <<table, born, names, krefs, leaked, open, hrec>>

\* ... and leased unless it is closing (HandleRecord::acquire).
Acquire(t) ==
    LET f == th[t].fh
    IN  /\ th[t].pc = "acquire"
        /\ IF hrec[f].closing
           THEN Goto(t, "unlease") /\ UNCHANGED hrec
           ELSE /\ hrec' = [hrec EXCEPT ![f].active = @ + 1]
                /\ Goto(t, IF th[t].op = "readdirplus" THEN "listing" ELSE "using")
        /\ UNCHANGED <<table, born, names, krefs, leaked, open>>

\* optional_file without a handle number: is the node open at all, and does
\* the filesystem want a handle?
CheckOpens(t) ==
    /\ th[t].pc = "leased" /\ th[t].op = "getattr" /\ th[t].fh = 0
    /\ \/ /\ Contains(table, th[t].id) /\ table.map[th[t].id].count["opens"] > 0
          /\ Goto(t, "scan")
       \/ Goto(t, "unlease")
    /\ UNCHANGED <<table, born, names, krefs, leaked, open, hrec>>

\* optional_file: the newest open file handle on the node that can be leased.
ScanHandles(t) ==
    LET usable == {f \in open : /\ th[t].id # ROOT
                                /\ hrec[f].node = th[t].id /\ ~hrec[f].closing}
    IN  /\ th[t].pc = "scan"
        /\ IF usable = {}
           THEN Goto(t, "unlease") /\ UNCHANGED hrec
           ELSE \E f \in usable : /\ \A g \in usable : g <= f
                                   /\ hrec' = [hrec EXCEPT ![f].active = @ + 1]
                                   /\ th' = [th EXCEPT ![t].pc = "using", ![t].fh = f]
        /\ UNCHANGED <<table, born, names, krefs, leaked, open>>

\* The callback that borrows the handle returns; Drop for HandleLease.
EndUse(t) ==
    /\ th[t].pc = "using"
    /\ hrec' = [hrec EXCEPT ![th[t].fh].active = IF @ > 0 THEN @ - 1 ELSE 0]
    /\ Goto(t, "unlease")
    /\ UNCHANGED <<table, born, names, krefs, leaked, open>>

\* Drop for the request's NodeRef, at the end of the handler or of entry_for.
Unlease(t) ==
    /\ th[t].pc = "unlease"
    /\ table' = DropRef(table, th[t].lease.ino, th[t].lease.record)
    /\ th' = [th EXCEPT ![t].lease = NoRef,
                        ![t].pc = IF th[t].op = "create" /\ th[t].got # NoRef
                                  THEN "addopen" ELSE "reply"]
    /\ UNCHANGED <<born, names, krefs, leaked, open, hrec>>

\* The entries for record r that thread t's request has counted.
Counted(t, r) ==
    Cardinality({k \in DOMAIN th[t].accepted : th[t].accepted[k].record = r})
    + (IF th[t].got.record = r THEN 1 ELSE 0)

\* The session's reply: the kernel learns of the entries it carries.
Reply(t) ==
    /\ th[t].pc = "reply"
    /\ krefs' = [r \in Records |-> krefs[r] + Counted(t, r)]
    /\ Finish(t)
    /\ UNCHANGED <<table, born, names, leaked, open, hrec>>

\* The entry and open replies of the session: a failure to send is ignored.
ReplyLost(t) ==
    /\ RepliesFail
    /\ th[t].pc = "reply" /\ th[t].op # "readdirplus"
    /\ leaked' = [r \in Records |-> leaked[r] + Counted(t, r)]
    /\ Finish(t)
    /\ UNCHANGED <<table, born, names, krefs, open, hrec>>

------------------------------------------------------------------------------
(* release and releasedir.                                                   *)

\* The record leaves the table (a number that is not there is EBADF).
Release(t, f) ==
    /\ Start(t, "release")
    /\ f \in open
    /\ open' = open \ {f}
    /\ th' = [th EXCEPT ![t] = [IdleThread EXCEPT !.pc = "relnode", !.op = "release",
                                                  !.id = hrec[f].node, !.fh = f]]
    /\ UNCHANGED <<table, born, names, krefs, leaked, hrec>>

ReleaseNode(t) ==
    LET i == th[t].id
    IN  /\ th[t].pc = "relnode"
        /\ IF Contains(table, i)
           THEN /\ table' = Get(table, i)
                /\ th' = [th EXCEPT ![t].pc = "relopen",
                                    ![t].lease = [ino |-> i, record |-> table.map[i].record]]
           ELSE Finish(t) /\ UNCHANGED table
        /\ UNCHANGED <<born, names, krefs, leaked, open, hrec>>

ReleaseOpen(t) ==
    /\ th[t].pc = "relopen"
    /\ table' = RemoveOpen(table, th[t].id)
    /\ Goto(t, "closing")
    /\ UNCHANGED <<born, names, krefs, leaked, open, hrec>>

\* close_and_take: no more leases from here on ...
CloseHandle(t) ==
    /\ th[t].pc = "closing"
    /\ hrec' = [hrec EXCEPT ![th[t].fh].closing = TRUE]
    /\ Goto(t, "waiting")
    /\ UNCHANGED <<table, born, names, krefs, leaked, open>>

TakeHandle_NoDrain(t) ==
    /\ th[t].pc = "waiting"
    /\ hrec' = [hrec EXCEPT ![th[t].fh].taken = TRUE]
    /\ Goto(t, "taken")
    /\ UNCHANGED <<table, born, names, krefs, leaked, open>>

\* ... and the payload is moved out once the leases have drained.
TakeHandle(t) ==
    /\ th[t].pc = "waiting"
    /\ hrec[th[t].fh].active = 0
    /\ hrec' = [hrec EXCEPT ![th[t].fh].taken = TRUE]
    /\ Goto(t, "taken")
    /\ UNCHANGED <<table, born, names, krefs, leaked, open>>

\* fs.release consumes the payload; the node lease is dropped next.
Released(t) ==
    /\ th[t].pc = "taken"
    /\ Goto(t, "unlease")
    /\ UNCHANGED <<table, born, names, krefs, leaked, open, hrec>>

------------------------------------------------------------------------------
(* readdirplus of the root.                                                  *)

\* Accounting::add: plus_entry finds the node and the buffer takes the entry.
PlusEntry(t, n) ==
    LET i == names[n]
    IN  /\ th[t].pc = "listing" /\ Len(th[t].accepted) < MaxPage
        /\ i # 0 /\ Contains(table, i)
        /\ th' = [th EXCEPT ![t].pc = "retain",
                            ![t].got = [ino |-> i, record |-> table.map[i].record]]
        /\ UNCHANGED <<table, born, names, krefs, leaked, open, hrec>>

\* Accounting::add: retain_lookup. It finds the node: it was listed, so it is
\* live, and nothing changes the directory before the callback returns.
PlusRetain(t) ==
    LET i == th[t].got.ino
    IN  /\ th[t].pc = "retain"
        /\ IF Contains(table, i)
           THEN /\ table' = RetainLookup(table, i)
                /\ th' = [th EXCEPT ![t].pc = "listing", ![t].got = NoRef,
                                    ![t].accepted = Append(@, th[t].got)]
           ELSE /\ th' = [th EXCEPT ![t].pc = "listing", ![t].got = NoRef]
                /\ UNCHANGED table
        /\ UNCHANGED <<born, names, krefs, leaked, open, hrec>>

PlusEnd_NoRollback(t) ==
    /\ th[t].pc = "listing"
    /\ \/ Goto(t, "using")
       \/ th' = [th EXCEPT ![t].pc = "using", ![t].accepted = <<>>]
    /\ UNCHANGED <<table, born, names, krefs, leaked, open, hrec>>

\* fs.readdirplus returns Ok (end of the directory, or the buffer is full) or
\* returns an error, and the accepted entries are rolled back ...
PlusEnd(t) ==
    /\ th[t].pc = "listing"
    /\ Goto(t, "using") \/ Goto(t, "rollback")
    /\ UNCHANGED <<table, born, names, krefs, leaked, open, hrec>>

\* ... or it panics through the runtime, past the rollback.
PlusPanics(t) ==
    /\ Panics
    /\ th[t].pc = "listing"
    /\ leaked' = [r \in Records |-> leaked[r] + Counted(t, r)]
    /\ th' = [th EXCEPT ![t].pc = "using", ![t].accepted = <<>>]
    /\ UNCHANGED <<table, born, names, krefs, open, hrec>>

\* The session could not send the listing.
PlusReplyFails(t) ==
    /\ th[t].pc = "reply" /\ th[t].op = "readdirplus"
    /\ Goto(t, "rollback")
    /\ UNCHANGED <<table, born, names, krefs, leaked, open, hrec>>

\* forget(id, 1) for every accepted entry, in order.
PlusRollback(t) ==
    /\ th[t].pc = "rollback" /\ th[t].accepted # <<>>
    /\ ForgetSection(t, Head(th[t].accepted).ino, 1, [th EXCEPT ![t].accepted = Tail(@)])
    /\ UNCHANGED <<born, names, krefs, leaked, open, hrec>>

RollbackDone(t) ==
    /\ th[t].pc = "rollback" /\ th[t].accepted = <<>>
    /\ IF th[t].lease = NoRef THEN Finish(t) ELSE Goto(t, "using")
    /\ UNCHANGED <<table, born, names, krefs, leaked, open, hrec>>

------------------------------------------------------------------------------
\* What a thread does on its own once it has a request.
Continue(t) ==
    \/ EntryGet(t) \/ EntryCount(t) \/ EntryFails(t)
    \/ ForgetNotified(t) \/ ForgetSweep(t)
    \/ NodeCallback(t) \/ CountOpen(t) \/ AddHandle(t)
    \/ FetchHandle(t) \/ Acquire(t) \/ CheckOpens(t) \/ ScanHandles(t) \/ EndUse(t)
    \/ Unlease(t) \/ Reply(t) \/ ReplyLost(t)
    \/ ReleaseNode(t) \/ ReleaseOpen(t) \/ CloseHandle(t) \/ TakeHandle(t) \/ Released(t)
    \/ \E n \in Names : PlusEntry(t, n)
    \/ PlusRetain(t) \/ PlusEnd(t) \/ PlusPanics(t)
    \/ PlusReplyFails(t) \/ PlusRollback(t) \/ RollbackDone(t)

\* The requests the kernel may hand to an idle thread.
Request(t) ==
    \/ \E n \in Names : Lookup(t, n)
    \/ \E n \in Names, o \in {"mknod", "create"} : MakeNode(t, o, n)
    \/ \E i \in DOMAIN table.map, n \in Names : Link(t, i, n)
    \/ \E r \in DOMAIN born, k \in 1..MaxRefs : Forget(t, r, k)
    \/ \E i \in DOMAIN table.map : NodeOp(t, i) \/ OpenNode(t, i)
    \/ \E i \in DOMAIN table.map, f \in DOMAIN hrec : FileOp(t, i, f)
    \/ \E i \in DOMAIN table.map, f \in DOMAIN hrec \cup {0} : Getattr(t, i, f)
    \/ \E f \in DOMAIN hrec : Readdir(t, f) \/ Readdirplus(t, f)
    \/ \E f \in DOMAIN hrec : Release(t, f)

Next ==
    \/ \E t \in Threads : Request(t) \/ Continue(t)
    \/ \E n \in Names : Unlink(n)
    \/ \E n, m \in Names : Rename(n, m)

Spec == Init /\ [][Next]_vars

------------------------------------------------------------------------------
(* Properties.                                                               *)

\* Every component of the state has its type.
TypeOK ==
    /\ table.next_ino \in Nat /\ table.free \in Seq(FreeEntry)
    /\ \A i \in DOMAIN table.map : i \in Nat /\ table.map[i] \in Slot
    /\ born \in Seq(FreeEntry)
    /\ names \in [Names -> Nat]
    /\ krefs \in [Records -> Nat] /\ leaked \in [Records -> Nat]
    /\ hrec \in Seq(HandleRecord) /\ open \subseteq DOMAIN hrec
    /\ th \in [Threads -> Thread]

\* An inode number is either live, with a nonzero retention count, or on the
\* free list exactly once, under a generation it never had: maybe_drop runs
\* whenever the last of links, lookups, opens and leases goes away, and only
\* then ("an inode enters the free list only when all four retention counts
\* are zero, with its next generation incremented").
NumbersAccountedFor ==
    LET freed == {table.free[k].ino : k \in DOMAIN table.free}
    IN  /\ \A i \in DOMAIN table.map : ~Droppable(table.map[i])
        /\ Cardinality(freed) = Len(table.free)
        /\ freed \cap DOMAIN table.map = {}
        /\ freed \cup DOMAIN table.map = 1..(table.next_ino - 1)
        /\ \A k \in DOMAIN table.free, r \in DOMAIN born :
              born[r].ino = table.free[k].ino => born[r].generation < table.free[k].generation

\* No two nodes are ever known to the kernel by the same inode number and
\* generation, and a slot keeps the pair its record was inserted under.
IdentityUnique ==
    /\ \A r, q \in DOMAIN born : born[r] = born[q] => r = q
    /\ \A i \in DOMAIN table.map :
          born[table.map[i].record] = [ino |-> i, generation |-> table.map[i].generation]

\* The NodeRefs on inode number i: those of requests and those of forgets.
Holders(i) ==
    {p \in Threads \X {"request", "forget"} :
        LET ref == IF p[2] = "request" THEN th[p[1]].lease ELSE th[p[1]].flease
        IN  ref.ino = i /\ ref.record # 0}

\* The lease count of a node is the number of NodeRefs alive on it: no path
\* through a handler, its errors and panics included, drops one twice or
\* leaves one behind.
LeasesExact ==
    \A i \in DOMAIN table.map : table.map[i].count["leases"] = Cardinality(Holders(i))

\* While a NodeRef is alive its inode number is neither reclaimed nor given
\* to another node (runtime.rs: "Keeping this value alive prevents the inode
\* from being reclaimed or reused").
LeaseProtects ==
    \A t \in Threads : \A ref \in {th[t].lease, th[t].flease} :
        ref.record # 0 =>
            Contains(table, ref.ino) /\ table.map[ref.ino].record = ref.record

\* The link count of a node is the number of names it has (one more for the
\* root), so a name always leads to a live node.
LinksExact ==
    /\ \A n \in Names : names[n] # 0 => Contains(table, names[n])
    /\ \A i \in DOMAIN table.map :
          table.map[i].count["links"] =
              Cardinality({n \in Names : names[n] = i}) + (IF i = ROOT THEN 1 ELSE 0)

\* The open count of a node is the number of its handles in the handle table,
\* those an open is about to add and those a release has just taken out.
OpensExact ==
    \A i \in DOMAIN table.map :
        table.map[i].count["opens"] =
            Cardinality({f \in open : hrec[f].node = i})
            + Cardinality({t \in Threads :
                  th[t].id = i /\ th[t].pc \in {"addhandle", "relnode", "relopen"}})

\* Entries for inode number i that have been counted and not yet answered.
Unsent(i) ==
    Cardinality({t \in Threads : th[t].got.ino = i /\ th[t].pc # "retain"})
    + Cardinality({p \in Threads \X (1..MaxPage) :
          p[2] \in DOMAIN th[p[1]].accepted /\ th[p[1]].accepted[p[2]].ino = i})

\* A node the kernel holds references to is live and still the one it was
\* told of, and the lookup count of a node is exactly the references the
\* kernel holds, those on their way to it in replies, and those counted for
\* entries it never saw: a node the kernel forgets is reclaimed, and forgets,
\* rollbacks and concurrent replies never take a reference that is in use.
LookupsExact ==
    /\ \A r \in DOMAIN born : krefs[r] > 0 =>
          Contains(table, born[r].ino) /\ table.map[born[r].ino].record = r
    /\ \A i \in DOMAIN table.map :
          LET r == table.map[i].record
          IN  table.map[i].count["lookups"] = krefs[r] + Unsent(i) + leaked[r]

\* What the kernel has of a node, the references it was given and the handles
\* it opened, is counted, each once, until it is given back: every count that
\* keeps a node for the kernel's sake is exact at every step of every handler.
KernelHoldsExact == LookupsExact /\ OpensExact

\* Nothing is counted for an entry the kernel never saw (ARCHITECTURE.md:
\* lookups are the "references issued to the kernel in entry replies";
\* "readdirplus retains only entries accepted by the output buffer and rolls
\* back on error"). A panic in a listing callback breaks it.
LookupsIssued ==
    \A i \in DOMAIN table.map :
        table.map[i].count["lookups"] = krefs[table.map[i].record] + Unsent(i)

\* The threads that borrow the payload of handle f through a HandleLease.
Borrowers(f) ==
    {t \in Threads :
        /\ th[t].fh = f
        /\ \/ th[t].pc \in {"using", "listing", "retain"}
           \/ /\ th[t].op = "readdirplus" /\ th[t].lease # NoRef
              /\ th[t].pc \in {"rollback", "forgotten", "sweep"}}

\* Handle f as HandleOwnership sees it; a number not yet issued is untouched.
HandlePhase(f) ==
    IF f \notin DOMAIN hrec THEN "open"
    ELSE IF hrec[f].taken THEN "consumed"
    ELSE IF hrec[f].closing THEN "closing" ELSE "open"

Handle(f) == INSTANCE HandleOwnership
                 WITH Users <- Threads, phase <- HandlePhase(f), borrowers <- Borrowers(f)

\* Through every handler that uses or releases a handle, each handle number
\* keeps the promise of HandleOwnership: borrowed only before it closes, moved
\* out once, and only when no request borrows it ("close removes the handle
\* before waiting for active callbacks and consumes it once").
HandlesKeepPromise ==
    /\ \A f \in 1..MaxFh : Handle(f)!Init
    /\ [][\A f \in 1..MaxFh : [Handle(f)!Next]_(Handle(f)!vars)]_vars

\* Neither of the two `?' that could strand a handle ever fires: release finds
\* the node of the handle it has already taken out of the table, and create
\* finds the very node its entry reply names when it counts the open.
HandleNeverStranded ==
    \A t \in Threads :
        /\ th[t].pc = "relnode" => Contains(table, th[t].id)
        /\ th[t].pc = "addopen" =>
              Contains(table, th[t].id) /\ table.map[th[t].id].record = th[t].got.record

\* Between the callback that found or made a node and the lease entry_for
\* takes on it nothing holds the inode number; the kernel's directory lock
\* keeps it from being reclaimed and reused in between.
EntryIsTheOneMeant ==
    \A t \in Threads :
        th[t].pc \in {"entry", "attr"} =>
            Contains(table, th[t].id) /\ table.map[th[t].id].record = th[t].meant

\* A count only reaches the kernel's references by a reply and only leaves
\* them by a forget; fs.forget is told of a node exactly when its lookup
\* count goes from positive to zero, and while the node is still leased.
ForgetToldAtZero ==
    [][\A i \in DOMAIN table.map :
          LET told == \E t \in Threads : /\ th[t].pc # "forgotten" /\ th'[t].pc = "forgotten"
                                         /\ th'[t].flease.ino = i
          IN  told <=> /\ table.map[i].count["lookups"] > 0
                       /\ i \notin DOMAIN table'.map \/ table'.map[i].count["lookups"] = 0
      ]_vars

=============================================================================
