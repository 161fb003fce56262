------------------------------- MODULE Session -------------------------------
(***************************************************************************)
(* typed-fuse/src/session.rs: the thread that owns a Session makes it,      *)
(* mounts it, runs libfuse's loop and drops it, in the way mount_and_run    *)
(* and mount_blocking do; the worker threads of the loop carry requests     *)
(* through the trampolines (the *_shim functions) into the Runtime behind   *)
(* the session's userdata pointer, and reply. Every call that can fail may  *)
(* fail, a filesystem callback may return, refuse or panic, and a reply may *)
(* fail to be sent.                                                         *)
(*                                                                         *)
(* External, libfuse: its loop hands a worker one request at a time, the    *)
(* INIT request before any other, and takes none once the session has been  *)
(* asked to exit; it returns when its workers are idle. A reply of any kind *)
(* ends a request and releases it, sent or not. fuse_session_destroy calls  *)
(* destroy if INIT was served and no DESTROY request was.                   *)
(*                                                                         *)
(* What a request does to nodes and handles is in Runtime; here a callback  *)
(* is the time between two steps of its worker. Destructors of handles and  *)
(* nodes do not panic.                                                      *)
(***************************************************************************)
EXTENDS Integers, TLC

CONSTANTS
    Workers,    \* threads of the pool
    Requests,   \* the requests the kernel sends, by the name of their shim
    MaxServed,  \* bound: requests received in a session's life
    MaxPage     \* bound: entries of a readdirplus reply

VARIABLES
    owner,      \* where the thread that owns the session is
    multi,      \* ThreadingMode::MultiThreaded
    lib,        \* what libfuse and the kernel hold for the session
    runtime,    \* the boxed Runtime: "none", "live" or "freed"
    exited,     \* has the session been asked to exit?
    work,       \* what each worker is doing
    served,     \* requests received so far
    told        \* how often the filesystem was told init and destroy

vars == <<owner, multi, lib, runtime, exited, work, served, told>>

------------------------------------------------------------------------------
\* What each trampoline sends when the runtime's answer is good; the name of a
\* reply is that of its fuse_reply_ function, with the entry that a lookup did
\* not find apart. All of them send an error otherwise.
LookupShim == [lookup |-> {"entry", "negative"}]

ForgetShims == [forget |-> {"none"}, forget_multi |-> {"none"}]

AttrShims == [getattr |-> {"attr"}, setattr |-> {"attr"}]

\* A link target with a NUL byte in it cannot be sent.
ReadlinkShim == [readlink |-> {"readlink", "err"}]

NameShims ==
    [mknod |-> {"entry"}, mkdir |-> {"entry"}, unlink |-> {"ok"}, rmdir |-> {"ok"},
     symlink |-> {"entry"}, rename |-> {"ok"}, link |-> {"entry"}]

OpenShim == [open |-> {"open"}]

FileShims ==
    [write |-> {"write"}, flush |-> {"ok"}, release |-> {"ok"}, fsync |-> {"ok"},
     opendir |-> {"open"}]

DirShims == [releasedir |-> {"ok"}, fsyncdir |-> {"ok"}, statfs |-> {"statfs"}]

\* reply_xattr: the size, the data, or ERANGE or EIO.
XattrShims ==
    [setxattr |-> {"ok"}, getxattr |-> {"xattr", "buf", "err"},
     listxattr |-> {"xattr", "buf", "err"}, removexattr |-> {"ok"}, access |-> {"ok"}]

CreateShim == [create |-> {"create"}]

RangeShims == [fallocate |-> {"ok"}, lseek |-> {"lseek"}]

\* The lock that getlk found may not convert back.
LockShims == [getlk |-> {"lock", "err"}, setlk |-> {"ok"}, flock |-> {"ok"}]

CopyShim == [copy_file_range |-> {"write"}]

ListShims == [readdir |-> {"buf"}, readdirplus |-> {"buf"}]

ReadShim == [read |-> {"buf"}]

GoodReplies ==
    LookupShim @@ ForgetShims @@ AttrShims @@ ReadlinkShim @@ NameShims @@ OpenShim
    @@ FileShims @@ DirShims @@ XattrShims @@ CreateShim @@ RangeShims @@ LockShims
    @@ CopyShim @@ ListShims @@ ReadShim

\* The trampolines that may send an error before they call the runtime: a
\* negative offset, a lock that cannot be decoded.
RefusesArguments(s) == s \in {"readdir", "readdirplus", "getlk", "setlk"}

ASSUME RequestsServed == Requests \subseteq DOMAIN GoodReplies

ASSUME BoundsAreNumbers == MaxServed \in Nat /\ MaxPage \in Nat

------------------------------------------------------------------------------
Idle == [pc |-> "idle", shim |-> "none", reply |-> "none", replies |-> 0,
         retained |-> 0, stale |-> FALSE]

Nothing == [session |-> FALSE, mounted |-> FALSE, handlers |-> FALSE, config |-> FALSE,
            init |-> FALSE, destroy |-> FALSE]

Init ==
    /\ owner = "new"
    /\ multi \in BOOLEAN
    /\ lib = Nothing
    /\ runtime = "none"
    /\ exited = FALSE
    /\ work = [w \in Workers |-> Idle]
    /\ served = 0
    /\ told = [init |-> 0, destroy |-> 0]

\* A panic that leaves a trampoline ends the process.
Aborted == owner = "aborted"

IdleWorkers == \A w \in Workers : work[w] = Idle

------------------------------------------------------------------------------
(* The owner. *)

\* Session::new_with_config: the pool is refused; or Runtime::new, and
\* fuse_session_new gives no session; or it does.
NewRefused ==
    /\ owner = "new" /\ multi
    /\ owner' = "over"
    /\ UNCHANGED <<multi, lib, runtime, exited, work, served, told>>

NewFails ==
    /\ owner = "new"
    /\ runtime' = "freed"
    /\ owner' = "over"
    /\ UNCHANGED <<multi, lib, exited, work, served, told>>

New ==
    /\ owner = "new"
    /\ runtime' = "live"
    /\ lib' = [lib EXCEPT !.session = TRUE]
    /\ owner' = "mount"
    /\ UNCHANGED <<multi, exited, work, served, told>>

\* Session::mount: a bad mountpoint or a failed mount, or not. An error makes
\* mount_and_run return, and that drops the session.
Mount ==
    /\ owner = "mount"
    /\ \/ owner' = "unmount" /\ UNCHANGED lib
       \/ owner' = "run" /\ lib' = [lib EXCEPT !.mounted = TRUE]
    /\ UNCHANGED <<multi, runtime, exited, work, served, told>>

\* Session::run: the signal handlers, ...
SetHandlers ==
    /\ owner = "run"
    /\ \/ owner' = "unmount" /\ UNCHANGED lib
       \/ /\ owner' = IF multi THEN "config" ELSE "loop"
          /\ lib' = [lib EXCEPT !.handlers = TRUE]
    /\ UNCHANGED <<multi, runtime, exited, work, served, told>>

\* Mutated forms, here and below: a definition as a bug would have it. Nothing
\* uses them but the experiments that show the properties notice such a bug.
ConfigFails_KeepsHandlers == lib

\* ... the handlers off again when there is no loop configuration, ...
ConfigFails == [lib EXCEPT !.handlers = FALSE]

\* ... LoopConfig::new, ...
MakeConfig ==
    /\ owner = "config"
    /\ \/ owner' = "unmount" /\ lib' = ConfigFails
       \/ owner' = "loop" /\ lib' = [lib EXCEPT !.config = TRUE]
    /\ UNCHANGED <<multi, runtime, exited, work, served, told>>

\* ... the loop, which ends with any code once it was told to exit and its
\* workers are idle, or when it cannot read from the device; the configuration
\* is dropped with it ...
LoopEnds ==
    /\ owner = "loop" /\ IdleWorkers
    /\ owner' = "remove"
    /\ exited' = TRUE
    /\ lib' = [lib EXCEPT !.config = FALSE]
    /\ UNCHANGED <<multi, runtime, work, served, told>>

\* ... and the handlers off.
RemoveHandlers ==
    /\ owner = "remove"
    /\ lib' = [lib EXCEPT !.handlers = FALSE]
    /\ owner' = "unmount"
    /\ UNCHANGED <<multi, runtime, exited, work, served, told>>

Unmount_FreesFirst ==
    /\ owner = "unmount"
    /\ lib' = [lib EXCEPT !.mounted = FALSE]
    /\ runtime' = "freed"
    /\ owner' = "destroy"
    /\ UNCHANGED <<multi, exited, work, served, told>>

\* Drop for Session: unmount what was mounted, destroy the session, and only
\* then free the runtime that its userdata points to.
Unmount ==
    /\ owner = "unmount"
    /\ lib' = [lib EXCEPT !.mounted = FALSE]
    /\ owner' = "destroy"
    /\ UNCHANGED <<multi, runtime, exited, work, served, told>>

\* fuse_session_destroy; destroy_shim catches a panic.
Destroy ==
    /\ owner = "destroy"
    /\ LET calls == lib.init /\ ~lib.destroy
       IN  told' = [told EXCEPT !.destroy = IF calls THEN @ + 1 ELSE @]
    /\ lib' = [lib EXCEPT !.session = FALSE]
    /\ owner' = "free"
    /\ UNCHANGED <<multi, runtime, exited, work, served>>

Free ==
    /\ owner = "free"
    /\ runtime' = "freed"
    /\ owner' = "over"
    /\ UNCHANGED <<multi, lib, exited, work, served, told>>

\* A signal, or an unmount from outside.
AskToExit ==
    /\ owner = "loop" /\ ~exited
    /\ exited' = TRUE
    /\ UNCHANGED <<owner, multi, lib, runtime, work, served, told>>

OwnerStep ==
    \/ NewRefused \/ NewFails \/ New \/ Mount \/ SetHandlers \/ MakeConfig
    \/ RemoveHandlers \/ Unmount \/ Destroy \/ Free

------------------------------------------------------------------------------
(* The workers. *)

Goes(w, r) == work' = [work EXCEPT ![w] = r]

\* libfuse's loop reads a request. fuse_session_loop has one thread.
Takes(w) ==
    /\ owner = "loop" /\ ~exited
    /\ work[w] = Idle
    /\ multi \/ IdleWorkers
    /\ served < MaxServed
    /\ served' = served + 1

ReceiveInit(w) ==
    /\ Takes(w) /\ ~lib.init
    /\ lib' = [lib EXCEPT !.init = TRUE]
    /\ Goes(w, [Idle EXCEPT !.pc = "init"])
    /\ UNCHANGED <<owner, multi, runtime, exited, told>>

\* init_shim; a panic is caught, and libfuse replies.
InitShim(w) ==
    /\ work[w].pc = "init"
    /\ told' = [told EXCEPT !.init = @ + 1]
    /\ Goes(w, Idle)
    /\ UNCHANGED <<owner, multi, lib, runtime, exited, served>>

\* A DESTROY request, which some kernels send last.
ReceiveDestroy(w) ==
    /\ Takes(w) /\ lib.init /\ told.init = 1 /\ ~lib.destroy
    /\ lib' = [lib EXCEPT !.destroy = TRUE]
    /\ exited' = TRUE
    /\ Goes(w, [Idle EXCEPT !.pc = "destroy"])
    /\ UNCHANGED <<owner, multi, runtime, told>>

\* destroy_shim; a panic is caught, and libfuse replies.
DestroyShim(w) ==
    /\ work[w].pc = "destroy"
    /\ told' = [told EXCEPT !.destroy = @ + 1]
    /\ Goes(w, Idle)
    /\ UNCHANGED <<owner, multi, lib, runtime, exited, served>>

Receive(w, s) ==
    /\ Takes(w) /\ told.init = 1
    /\ Goes(w, [Idle EXCEPT !.pc = "shim", !.shim = s])
    /\ UNCHANGED <<owner, multi, lib, runtime, exited, told>>

\* reply_err, reply_entry and the others.
Replied(r, reply, pc) == [r EXCEPT !.replies = @ + 1, !.reply = reply, !.pc = pc]

Refused_FallsThrough(w) == Replied(work[w], "err", "call")

\* The early return of a trampoline that refuses its arguments.
Refused(w) == Replied(work[w], "err", "done")

\* The arguments are decoded, and refused or passed on.
Decode(w) ==
    /\ work[w].pc = "shim"
    /\ \/ Goes(w, [work[w] EXCEPT !.pc = "call"])
       \/ RefusesArguments(work[w].shim) /\ Goes(w, Refused(w))
    /\ UNCHANGED <<owner, multi, lib, runtime, exited, served, told>>

\* catch_unwind and catch_unwind_unit: a panic is an error like any other, and
\* one in a forget is swallowed.
Outcome(s, result) ==
    IF s \in DOMAIN ForgetShims THEN {"none"}
    ELSE IF result = "ok" THEN GoodReplies[s]
    ELSE {"err"}

CallEnds_PanicEndsThread(w) ==
    /\ work[w].pc = "call"
    /\ \E result \in {"ok", "err", "panic"} : \E reply \in Outcome(work[w].shim, result) :
           Goes(w, [work[w] EXCEPT !.pc = IF result = "panic" THEN "dead" ELSE "reply",
                                   !.reply = reply])
    /\ UNCHANGED <<owner, multi, lib, runtime, exited, served, told>>

\* The runtime and the filesystem have returned, refused or panicked. read_shim
\* replies in a continuation, before the runtime gives back its leases; only a
\* panic leaves the reply to the trampoline.
CallEnds(w) ==
    /\ work[w].pc = "call"
    /\ \E result \in {"ok", "err", "panic"} : \E reply \in Outcome(work[w].shim, result) :
           IF work[w].shim \in DOMAIN ReadShim /\ result # "panic"
           THEN Goes(w, Replied(work[w], reply, "leave"))
           ELSE \E k \in 0 .. MaxPage :
                    /\ k > 0 => work[w].shim = "readdirplus" /\ reply = "buf"
                    /\ Goes(w, [work[w] EXCEPT !.pc = "reply", !.reply = reply, !.retained = k])
    /\ UNCHANGED <<owner, multi, lib, runtime, exited, served, told>>

\* The reply; a readdirplus whose buffer could not be sent takes back the
\* lookups it retained.
Reply(w) ==
    /\ work[w].pc = "reply"
    /\ \/ Goes(w, Replied(work[w], work[w].reply, "done"))
       \/ /\ work[w].shim = "readdirplus" /\ work[w].reply = "buf"
          /\ Goes(w, Replied(work[w], work[w].reply, "rollback"))
    /\ UNCHANGED <<owner, multi, lib, runtime, exited, served, told>>

\* The runtime is looked up through the request once more, and forgets each
\* entry; a panic of the forget callback is not caught here.
Rollback(w) ==
    /\ work[w].pc = "rollback"
    /\ \/ /\ Goes(w, IF work[w].retained = 0 THEN [work[w] EXCEPT !.pc = "done", !.stale = TRUE]
                     ELSE [work[w] EXCEPT !.retained = @ - 1, !.stale = TRUE])
          /\ UNCHANGED owner
       \/ /\ work[w].retained > 0
          /\ owner' = "aborted"
          /\ UNCHANGED work
    /\ UNCHANGED <<multi, lib, runtime, exited, served, told>>

\* Runtime::read drops its leases and returns.
Leave(w) ==
    /\ work[w].pc = "leave"
    /\ Goes(w, [work[w] EXCEPT !.pc = "done"])
    /\ UNCHANGED <<owner, multi, lib, runtime, exited, served, told>>

\* The trampoline returns to the loop.
Return(w) ==
    /\ work[w].pc = "done"
    /\ Goes(w, Idle)
    /\ UNCHANGED <<owner, multi, lib, runtime, exited, served, told>>

WorkerStep(w) ==
    /\ ~Aborted
    /\ \/ InitShim(w) \/ DestroyShim(w) \/ Decode(w) \/ CallEnds(w) \/ Reply(w)
       \/ Rollback(w) \/ Leave(w) \/ Return(w)

Next ==
    \/ OwnerStep \/ LoopEnds \/ AskToExit
    \/ \E w \in Workers : \/ WorkerStep(w) \/ ReceiveInit(w) \/ ReceiveDestroy(w)
                          \/ \E s \in Requests : Receive(w, s)

\* The owner and the workers run; a filesystem callback returns; a loop that was
\* told to exit, and has nothing left to do, does.
Fairness ==
    /\ WF_vars(OwnerStep)
    /\ WF_vars(LoopEnds /\ exited)
    /\ \A w \in Workers : WF_vars(WorkerStep(w))

Spec == Init /\ [][Next]_vars /\ Fairness

------------------------------------------------------------------------------
\* Every request is answered once: a trampoline never replies twice, and never
\* returns without a reply, whether it refuses, the filesystem fails or panics,
\* or the reply is sent from inside Runtime::read (the *_shim functions).
AnsweredOnce ==
    \A w \in Workers : /\ work[w].replies <= 1
                       /\ work[w].pc = "done" => work[w].replies = 1

\* Whatever calls into the filesystem finds it there: the runtime behind the
\* userdata pointer is alive while a worker is in a trampoline and while
\* fuse_session_destroy may call destroy (the order of Drop for Session).
RuntimeOutlivesUse ==
    ((\E w \in Workers : work[w] # Idle) \/ lib.session) /\ ~Aborted
        => runtime = "live"

\* When the owner is through, by any of the ways out, nothing is left behind:
\* no signal handler, loop configuration, mount, session or runtime; and a
\* filesystem that was told of init has been told of destroy, once.
NothingLeft ==
    owner = "over" =>
        /\ ~lib.handlers /\ ~lib.config /\ ~lib.mounted /\ ~lib.session
        /\ runtime # "live"
        /\ IdleWorkers
        /\ told.init <= 1 /\ told.destroy = told.init

\* A session that is asked to exit does: every request in progress ends, the
\* loop returns and the session is dropped (or the process is gone).
ShutsDown == exited ~> owner \in {"over", "aborted"}

\* A trampoline recovers the runtime only from a request that is still in
\* flight (holder_of).
InFlightWhenUsed == \A w \in Workers : ~work[w].stale

==============================================================================
