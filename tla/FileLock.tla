------------------------------- MODULE FileLock -------------------------------
(***************************************************************************)
(* POSIX record locks on their way through typed-fuse: the conversions of    *)
(* typed-fuse/src/file_lock.rs between libc::flock (a start and a length, 0  *)
(* meaning "to the end of the file") and FileLock (an inclusive range), and  *)
(* the path a lock request takes: session.rs decodes the kernel's flock, a   *)
(* filesystem that passes locks through encodes it again for fcntl, and an   *)
(* F_GETLK answer travels back.                                             *)
(***************************************************************************)
EXTENDS Integers

CONSTANTS
    OFF_MAX,    \* off_t::MAX (2^63 - 1)
    U64_MAX,    \* u64::MAX
    PID_MAX,    \* pid_t::MAX (2^31 - 1)
    U32_MAX,    \* u32::MAX
    Offsets,    \* the offsets and lengths requests come with
    Pids        \* the pids they come with

ASSUME WidthAssumption ==
    /\ OFF_MAX \in Nat /\ U64_MAX \in Nat /\ 2 * OFF_MAX < U64_MAX
    /\ PID_MAX \in Nat /\ U32_MAX \in Nat /\ PID_MAX <= U32_MAX

off_t == (-OFF_MAX - 1)..OFF_MAX
u64 == 0..U64_MAX
pid_t == (-PID_MAX - 1)..PID_MAX

ASSUME RequestAssumption == Offsets \subseteq off_t /\ Pids \subseteq pid_t

LockTypes == {"F_RDLCK", "F_WRLCK", "F_UNLCK"}

flock == [l_type : LockTypes \cup {"unknown"}, l_whence : {"SEEK_SET", "SEEK_END"},
          l_start : off_t, l_len : off_t, l_pid : pid_t]

LockKind == {"Read", "Write", "Unlock"}

FileLock == [kind : LockKind, start : u64, end : u64, pid : 0..U32_MAX]

KindOf(l_type) ==
    CASE l_type = "F_RDLCK" -> "Read" [] l_type = "F_WRLCK" -> "Write" [] OTHER -> "Unlock"

TypeOf(kind) ==
    CASE kind = "Read" -> "F_RDLCK" [] kind = "Write" -> "F_WRLCK" [] OTHER -> "F_UNLCK"

------------------------------------------------------------------------------
\* from_flock fails (EINVAL) on anything else; the sum it checks cannot
\* overflow, two off_t fit a u64.
FromAccepts(raw) ==
    /\ raw.l_whence = "SEEK_SET" /\ raw.l_type \in LockTypes
    /\ raw.l_start >= 0 /\ raw.l_len >= 0
    /\ raw.l_len # 0 => raw.l_start + raw.l_len - 1 <= U64_MAX

from_flock(raw) ==
    [kind  |-> KindOf(raw.l_type),
     start |-> raw.l_start,
     end   |-> IF raw.l_len = 0 THEN U64_MAX ELSE raw.l_start + raw.l_len - 1,
     pid   |-> IF raw.l_pid < 0 THEN 0 ELSE raw.l_pid]

\* to_flock fails on an inverted range (EINVAL), and on a start, a length or a
\* pid its field cannot hold (EOVERFLOW).
ToAccepts(lock) ==
    /\ lock.start <= lock.end /\ lock.start <= OFF_MAX
    /\ lock.end # U64_MAX => lock.end - lock.start + 1 <= OFF_MAX
    /\ lock.pid <= PID_MAX

\* Mutated forms, here and below: a definition as a bug would have it. Nothing
\* uses them but the experiments that show the properties notice such a bug.
to_flock_LengthShort(lock) ==
    [l_type |-> TypeOf(lock.kind), l_whence |-> "SEEK_SET",
     l_start |-> lock.start,
     l_len   |-> IF lock.end = U64_MAX THEN 0 ELSE lock.end - lock.start,
     l_pid   |-> lock.pid]

to_flock(lock) ==
    [l_type |-> TypeOf(lock.kind), l_whence |-> "SEEK_SET",
     l_start |-> lock.start,
     l_len   |-> IF lock.end = U64_MAX THEN 0 ELSE lock.end - lock.start + 1,
     l_pid   |-> lock.pid]

------------------------------------------------------------------------------
VARIABLES
    stage,      \* how far the request has come
    asked,      \* the flock that goes in: the kernel's, then fcntl's answer
    lock,       \* the FileLock of the current direction
    raw         \* the flock that comes out: for fcntl, then for the reply

flockVars == <<stage, asked, lock, raw>>

RawLocks == [l_type : LockTypes \cup {"unknown"}, l_whence : {"SEEK_SET", "SEEK_END"},
             l_start : Offsets, l_len : Offsets, l_pid : Pids]

NoLock ==
    [l_type |-> "F_UNLCK", l_whence |-> "SEEK_SET", l_start |-> 0, l_len |-> 0, l_pid |-> 0]

FlockInit ==
    /\ stage = "idle"
    /\ lock = [kind |-> "Unlock", start |-> 0, end |-> 0, pid |-> 0]
    /\ asked = NoLock /\ raw = NoLock

\* External: the kernel sends FUSE_GETLK, FUSE_SETLK or FUSE_SETLKW.
Ask(l) ==
    /\ stage = "idle"
    /\ stage' = "asked"
    /\ asked' = l
    /\ UNCHANGED <<lock, raw>>

\* lock_from_raw in getlk_shim and setlk_shim: decode, or reply EINVAL.
Decode ==
    /\ stage = "asked"
    /\ IF FromAccepts(asked) THEN stage' = "decoded" /\ lock' = from_flock(asked)
                             ELSE stage' = "refused" /\ UNCHANGED lock
    /\ UNCHANGED <<asked, raw>>

\* file_lock::getlk and setlk: encode for fcntl, or fail.
Encode ==
    /\ stage = "decoded"
    /\ IF ToAccepts(lock) THEN stage' = "fcntl" /\ raw' = to_flock(lock)
                          ELSE stage' = "failed" /\ UNCHANGED raw
    /\ UNCHANGED <<asked, lock>>

\* External: F_GETLK says that nothing conflicts, or describes a lock that
\* does; an open file description lock has l_pid -1.
Answer(l) ==
    /\ stage = "fcntl"
    /\ l.l_whence = "SEEK_SET" /\ l.l_type \in LockTypes /\ l.l_start >= 0 /\ l.l_len >= 0
    /\ stage' = "answered"
    /\ asked' = l
    /\ UNCHANGED <<lock, raw>>

\* getlk decodes the answer, and getlk_shim encodes it for the reply.
Reply ==
    /\ stage = "answered"
    /\ IF FromAccepts(asked) /\ ToAccepts(from_flock(asked))
       THEN stage' = "replied" /\ lock' = from_flock(asked) /\ raw' = to_flock(lock')
       ELSE stage' = "failed" /\ UNCHANGED <<lock, raw>>
    /\ UNCHANGED asked

FlockNext == Decode \/ Encode \/ Reply \/ \E l \in RawLocks : Ask(l) \/ Answer(l)

FlockSpec == FlockInit /\ [][FlockNext]_flockVars

------------------------------------------------------------------------------
\* Whatever the conversions produce fits the fields of its type.
FlockTyped ==
    /\ stage \in {"idle", "asked", "refused", "decoded", "fcntl", "failed", "answered", "replied"}
    /\ asked \in flock /\ raw \in flock /\ lock \in FileLock

\* The bytes a lock covers, up to the last offset a file can have.
Covers(l, byte) == l.l_start <= byte /\ (l.l_len = 0 \/ byte < l.l_start + l.l_len)

\* A lock the kernel can express is never refused: only what from_flock
\* rejects as malformed is, and no conversion of a decoded lock overflows.
NeverFails == stage # "failed"

\* What is decoded covers exactly the bytes of the flock.
RangeMeant ==
    stage \in {"decoded", "fcntl", "replied"} =>
        \A byte \in 0..OFF_MAX : Covers(asked, byte) <=> byte \in lock.start..lock.end

\* What is encoded again is the flock that went in, with 0 for no owner.
RawKept ==
    stage \in {"fcntl", "replied"} =>
        /\ raw.l_type = asked.l_type
        /\ raw.l_start = asked.l_start /\ raw.l_len = asked.l_len
        /\ raw.l_pid = (IF asked.l_pid < 0 THEN 0 ELSE asked.l_pid)

\* A lock that is not malformed passes both conversions, in the request to fcntl
\* and in the reply to the kernel: the filesystem sees an inclusive range of the
\* bytes it covers, and what leaves has its type, range and owner.
LockKept == NeverFails /\ RangeMeant /\ RawKept

==============================================================================
