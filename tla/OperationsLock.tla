---------------------------- MODULE OperationsLock ----------------------------
(***************************************************************************)
(* PathNodeFs::operations of typed-fuse-core/src/path_fs.rs: the lock each  *)
(* callback of the path adapter holds while it calls the filesystem, shared *)
(* or, for the callbacks that change names, exclusively; with the record    *)
(* lock that a setlk callback may wait for inside it, and the worker        *)
(* threads of the session's pool.                                           *)
(*                                                                         *)
(* A client is a process with at most one request outstanding. External     *)
(* parts, modelled from how the adapter uses them: std's RwLock, whose      *)
(* readers give way to a waiting writer on Linux; one exclusive record lock *)
(* of the filesystem; clients, which send at most MaxRequests requests and  *)
(* an unlock for every lock they are granted.                               *)
(***************************************************************************)
EXTENDS Naturals, FiniteSets

CONSTANTS
    Clients,
    Ops,            \* requests they send, of "shared", "change", "setlk", "setlkw"
    MaxThreads,     \* ThreadPoolConfig::max_threads
    MaxRequests     \* bound: requests of one client

ASSUME LockAssumption ==
    /\ IsFiniteSet(Clients)
    /\ Ops \subseteq {"shared", "change", "setlk", "setlkw"}
    /\ MaxThreads \in Nat \ {0} /\ MaxRequests \in Nat

VARIABLES
    pc,         \* idle, queued (no thread yet), enter (wants the lock), inside (has it)
    op,         \* the request a client has sent
    readers,    \* clients whose callback holds the operations lock shared
    writer,     \* and the set of those that hold it exclusively
    owner,      \* the set of clients that hold the record lock
    sent        \* requests sent so far

opsVars == <<pc, op, readers, writer, owner, sent>>

OpsInit ==
    /\ pc = [c \in Clients |-> "idle"]
    /\ op = [c \in Clients |-> "none"]
    /\ readers = {} /\ writer = {} /\ owner = {}
    /\ sent = [c \in Clients |-> 0]

Goto(c, step) == pc' = [pc EXCEPT ![c] = step]

\* A client sends a request: any, or the unlock of what it holds.
Send(c, o) ==
    /\ pc[c] = "idle" /\ sent[c] < MaxRequests
    /\ o \in {"setlk", "setlkw"} => c \notin owner
    /\ Goto(c, "queued")
    /\ op' = [op EXCEPT ![c] = o]
    /\ sent' = [sent EXCEPT ![c] = @ + 1]
    /\ UNCHANGED <<readers, writer, owner>>

SendUnlock(c) ==
    /\ pc[c] = "idle" /\ c \in owner
    /\ Goto(c, "queued")
    /\ op' = [op EXCEPT ![c] = "unlock"]
    /\ UNCHANGED <<readers, writer, owner, sent>>

\* A worker thread takes the request.
Dispatch(c) ==
    /\ pc[c] = "queued"
    /\ Cardinality({d \in Clients : pc[d] \in {"enter", "inside"}}) < MaxThreads
    /\ Goto(c, "enter")
    /\ UNCHANGED <<op, readers, writer, owner, sent>>

Exclusively_Never(c) == FALSE

\* mknod, mkdir, symlink, create, unlink, rmdir, rename and link call
\* write_lock, every other callback read_lock.
Exclusively(c) == op[c] = "change"

WriterWaits == \E c \in Clients : pc[c] = "enter" /\ Exclusively(c)

ReadLock(c) ==
    /\ pc[c] = "enter" /\ ~Exclusively(c)
    /\ writer = {} /\ ~WriterWaits
    /\ readers' = readers \cup {c}
    /\ Goto(c, "inside")
    /\ UNCHANGED <<op, writer, owner, sent>>

WriteLock(c) ==
    /\ pc[c] = "enter" /\ Exclusively(c)
    /\ writer = {} /\ readers = {}
    /\ writer' = {c}
    /\ Goto(c, "inside")
    /\ UNCHANGED <<op, readers, owner, sent>>

Unguarded_NotShared(c) == readers' = readers /\ writer' = writer \ {c}

\* The guard of the operations lock is dropped.
Unguarded(c) == readers' = readers \ {c} /\ writer' = writer \ {c}

\* The callback returns and the session replies.
Return(c) ==
    /\ Unguarded(c)
    /\ Goto(c, "idle")
    /\ op' = [op EXCEPT ![c] = "none"]
    /\ UNCHANGED sent

\* A callback that takes no record lock.
Done(c) ==
    /\ pc[c] = "inside" /\ op[c] \in {"shared", "change"}
    /\ Return(c)
    /\ UNCHANGED owner

\* setlk: granted, or refused if it must not wait; with sleep it stays in the
\* callback until the record lock is free.
SetlkGranted(c) ==
    /\ pc[c] = "inside" /\ op[c] \in {"setlk", "setlkw"} /\ owner = {}
    /\ owner' = {c}
    /\ Return(c)

SetlkRefused(c) ==
    /\ pc[c] = "inside" /\ op[c] = "setlk" /\ owner # {}
    /\ Return(c)
    /\ UNCHANGED owner

Unlocked(c) ==
    /\ pc[c] = "inside" /\ op[c] = "unlock"
    /\ owner' = owner \ {c}
    /\ Return(c)

Serve(c) ==
    \/ Dispatch(c) \/ ReadLock(c) \/ WriteLock(c)
    \/ Done(c) \/ SetlkGranted(c) \/ SetlkRefused(c) \/ Unlocked(c)

OpsNext == \E c \in Clients : Serve(c) \/ SendUnlock(c) \/ \E o \in Ops : Send(c, o)

\* A thread that can go on does, and a client releases what it has locked.
Fairness == \A c \in Clients : WF_opsVars(Serve(c)) /\ WF_opsVars(SendUnlock(c))

OpsSpec == OpsInit /\ [][OpsNext]_opsVars /\ Fairness

------------------------------------------------------------------------------
\* While a callback that changes names runs, no other callback does: the
\* filesystem sees every rename or unlink alone.
ChangesAlone ==
    \A c, d \in Clients :
        c # d /\ op[c] = "change" /\ pc[c] = "inside" => pc[d] # "inside"

\* Every request is answered: the operations lock, the record locks and the
\* pool never leave a client waiting for ever.
RequestsComplete == \A c \in Clients : pc[c] # "idle" ~> pc[c] = "idle"

\* A blocking setlk returns once the lock is available, which it is when the
\* owner has asked for its unlock.
SetlkWaitEnds ==
    \A c \in Clients : (pc[c] = "inside" /\ op[c] = "setlkw") ~> op[c] # "setlkw"
===============================================================================
