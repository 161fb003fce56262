------------------------------- MODULE TimeConv -------------------------------
(***************************************************************************)
(* Timestamps in typed-fuse/src/conv.rs: setattr decodes the kernel's        *)
(* (seconds, nanoseconds) into a SystemTime, getattr encodes the stored      *)
(* SystemTime again. Times before 1970 have negative seconds and            *)
(* nanoseconds that still count forward.                                    *)
(*                                                                         *)
(* External: std's SystemTime is a pair [secs, nanos] with 0 <= nanos <      *)
(* NANOS, a Duration is such a pair with secs >= 0.                          *)
(***************************************************************************)
EXTENDS Integers

CONSTANTS
    NANOS,      \* nanoseconds of a second (1_000_000_000)
    I64_MAX     \* i64::MAX, the range of tv_sec

ASSUME TimeAssumption == NANOS \in Nat \ {0, 1} /\ I64_MAX \in Nat

Time == [secs : Int, nanos : 0..(NANOS - 1)]

\* The kernel's timespecs, but for i64::MIN seconds, whose negation overflows.
Timespec == [secs : -I64_MAX..I64_MAX, nanos : 0..(NANOS - 1)]

UNIX_EPOCH == [secs |-> 0, nanos |-> 0]

\* SystemTime + Duration and SystemTime - Duration, with carry and borrow.
Plus(t, d) ==
    IF t.nanos + d.nanos < NANOS
    THEN [secs |-> t.secs + d.secs, nanos |-> t.nanos + d.nanos]
    ELSE [secs |-> t.secs + d.secs + 1, nanos |-> t.nanos + d.nanos - NANOS]

Minus(t, d) ==
    IF t.nanos >= d.nanos
    THEN [secs |-> t.secs - d.secs, nanos |-> t.nanos - d.nanos]
    ELSE [secs |-> t.secs - d.secs - 1, nanos |-> t.nanos - d.nanos + NANOS]

\* How far t is from the epoch, and on which side: SystemTime::duration_since.
Distance(t) == IF t.secs >= 0 THEN Minus(t, UNIX_EPOCH) ELSE Minus(UNIX_EPOCH, t)

------------------------------------------------------------------------------
\* Mutated forms, here and below: a definition as a bug would have it. Nothing
\* uses them but the experiments that show the properties notice such a bug.
system_time_to_secs_nsecs_NoBorrow(t) ==
    LET d == Distance(t)
    IN  IF t.secs >= 0 THEN [secs |-> d.secs, nanos |-> d.nanos]
        ELSE [secs |-> -d.secs, nanos |-> IF d.nanos = 0 THEN 0 ELSE NANOS - d.nanos]

system_time_to_secs_nsecs(t) ==
    LET d == Distance(t)
    IN  IF t.secs >= 0 THEN [secs |-> d.secs, nanos |-> d.nanos]
        ELSE IF d.nanos = 0 THEN [secs |-> -d.secs, nanos |-> 0]
        ELSE [secs |-> -d.secs - 1, nanos |-> NANOS - d.nanos]

secs_nsecs_to_system_time_Backward(secs, nsecs) ==
    IF secs >= 0 THEN Plus(UNIX_EPOCH, [secs |-> secs, nanos |-> nsecs])
    ELSE Minus(UNIX_EPOCH, [secs |-> -secs, nanos |-> nsecs])

secs_nsecs_to_system_time(secs, nsecs) ==
    IF secs >= 0 THEN Plus(UNIX_EPOCH, [secs |-> secs, nanos |-> nsecs])
    ELSE Plus(Minus(UNIX_EPOCH, [secs |-> -secs, nanos |-> 0]), [secs |-> 0, nanos |-> nsecs])

------------------------------------------------------------------------------
VARIABLES
    set,        \* the timespec of the last setattr
    stored,     \* the SystemTime the filesystem keeps
    reported    \* the timespec of the last getattr

timeVars == <<set, stored, reported>>

TimeInit ==
    /\ set = UNIX_EPOCH
    /\ stored = UNIX_EPOCH
    /\ reported = UNIX_EPOCH

\* setattr_from_raw with FUSE_SET_ATTR_MTIME.
SetTime(ts) ==
    /\ set' = ts
    /\ stored' = secs_nsecs_to_system_time(ts.secs, ts.nanos)
    /\ UNCHANGED reported

\* attr_to_stat.
GetTime ==
    /\ reported' = system_time_to_secs_nsecs(stored)
    /\ UNCHANGED <<set, stored>>

TimeNext == GetTime \/ \E ts \in Timespec : SetTime(ts)

TimeSpec == TimeInit /\ [][TimeNext]_timeVars

------------------------------------------------------------------------------
\* What is stored is a normal SystemTime and what stat reports is a timespec
\* the kernel accepts, its nanoseconds within a second.
TimeTypeOK == set \in Timespec /\ stored \in Time /\ reported \in Timespec

\* What the filesystem stores is the instant the kernel named: NANOS units to
\* the second, counted from the epoch, on either side of it.
StoredIsMeant == stored.secs * NANOS + stored.nanos = set.secs * NANOS + set.nanos

\* utimensat followed by stat gives the same pair back, before the epoch too.
ReadsBackWhatWasSet == [][reported' # reported => reported' = set]_timeVars

==============================================================================
