--------------------------- MODULE ComponentProofs ---------------------------
(***************************************************************************)
(* The components that stand on their own, proved for every value of their  *)
(* constants: the conversions of record locks and timestamps, the reading   *)
(* of an extended attribute, the bytes of a memory_fs file, the life of a   *)
(* handle record and the operations lock of the path adapter.               *)
(***************************************************************************)
EXTENDS FileLock, TimeConv, XattrRead, FileData, HandleRecord, OperationsLock,
        FiniteSetTheorems, SequenceTheorems, TLAPS

------------------------------------------------------------------------------
(* Record locks.                                                             *)

\* from_flock yields a FileLock for every flock it accepts.
LEMMA FromTyped ==
    ASSUME NEW l \in flock, FromAccepts(l)
    PROVE  from_flock(l) \in FileLock
BY WidthAssumption
   DEF flock, FileLock, FromAccepts, from_flock, KindOf, LockTypes, LockKind, off_t, pid_t, u64

\* to_flock yields a flock for every FileLock it accepts.
LEMMA ToTyped ==
    ASSUME NEW l \in FileLock, ToAccepts(l)
    PROVE  to_flock(l) \in flock
BY WidthAssumption
   DEF flock, FileLock, ToAccepts, to_flock, TypeOf, LockTypes, LockKind, off_t, pid_t, u64

\* What from_flock accepts, to_flock accepts again: no length overflows off_t.
LEMMA Returns ==
    ASSUME NEW l \in flock, FromAccepts(l)
    PROVE  ToAccepts(from_flock(l))
BY WidthAssumption DEF flock, FromAccepts, ToAccepts, from_flock, off_t, pid_t, LockTypes

\* The round trip keeps the type and the range, and the owner if it has one.
LEMMA RoundTrip ==
    ASSUME NEW l \in flock, FromAccepts(l)
    PROVE  to_flock(from_flock(l)) = [l EXCEPT !.l_pid = IF @ < 0 THEN 0 ELSE @]
<1>1. TypeOf(KindOf(l.l_type)) = l.l_type
  BY DEF TypeOf, KindOf, FromAccepts, LockTypes
<1>2. l.l_len # 0 => l.l_start + l.l_len - 1 # U64_MAX
  BY WidthAssumption DEF flock, off_t, FromAccepts
<1> QED
  BY <1>1, <1>2, WidthAssumption DEF flock, off_t, pid_t, FromAccepts, to_flock, from_flock

\* from_flock's inclusive range holds the bytes the flock covers.
LEMMA FromMeant ==
    ASSUME NEW l \in flock, FromAccepts(l), NEW byte \in 0..OFF_MAX
    PROVE  Covers(l, byte) <=> byte \in from_flock(l).start..from_flock(l).end
BY WidthAssumption DEF flock, FromAccepts, from_flock, Covers, off_t

\* The inductive invariant: the lock on its way is the one that was asked for,
\* and no conversion fails.
LockInv ==
    /\ FlockTyped
    /\ stage \in {"decoded", "fcntl", "replied"} => FromAccepts(asked) /\ lock = from_flock(asked)
    /\ stage = "answered" => FromAccepts(asked)
    /\ stage # "failed"
    /\ RawKept

\* The initial state satisfies the invariant.
LEMMA LockInit == FlockInit => LockInv
BY WidthAssumption
   DEF FlockInit, LockInv, FlockTyped, RawKept, NoLock, flock, LockTypes, off_t, pid_t,
       FileLock, LockKind, u64

\* Every step keeps the invariant.
LEMMA LockStep == LockInv /\ [FlockNext]_flockVars => LockInv'
<1> SUFFICES ASSUME LockInv, [FlockNext]_flockVars PROVE LockInv'
  OBVIOUS
<1>1. CASE Decode
  BY <1>1, FromTyped DEF Decode, LockInv, FlockTyped, RawKept
<1>2. CASE Encode
  <2>1. ToAccepts(lock) /\ raw' = to_flock(lock) /\ stage' = "fcntl" /\ raw' \in flock
    BY <1>2, Returns, ToTyped DEF Encode, LockInv, FlockTyped
  <2>2. RawKept'
    BY <1>2, <2>1, RoundTrip DEF Encode, LockInv, FlockTyped, RawKept, flock
  <2> QED
    BY <1>2, <2>1, <2>2 DEF Encode, LockInv, FlockTyped
<1>3. ASSUME NEW l \in RawLocks, Answer(l) PROVE LockInv'
  <2>1. l \in flock
    BY RequestAssumption DEF RawLocks, flock
  <2>2. FromAccepts(l)
    BY <1>3, <2>1, WidthAssumption DEF Answer, FromAccepts, flock, off_t
  <2> QED
    BY <1>3, <2>1, <2>2 DEF Answer, LockInv, FlockTyped, RawKept
<1>4. ASSUME NEW l \in RawLocks, Ask(l) PROVE LockInv'
  <2>1. l \in flock
    BY RequestAssumption DEF RawLocks, flock
  <2> QED
    BY <1>4, <2>1 DEF Ask, LockInv, FlockTyped, RawKept
<1>5. CASE Reply
  <2>1. FromAccepts(asked) /\ ToAccepts(from_flock(asked)) /\ from_flock(asked) \in FileLock
    BY <1>5, Returns, FromTyped DEF Reply, LockInv, FlockTyped
  <2>2. /\ stage' = "replied" /\ lock' = from_flock(asked) /\ asked' = asked
        /\ raw' = to_flock(from_flock(asked)) /\ raw' \in flock
    BY <1>5, <2>1, ToTyped DEF Reply
  <2>3. RawKept'
    BY <2>1, <2>2, RoundTrip DEF LockInv, FlockTyped, RawKept, flock
  <2> QED
    BY <2>1, <2>2, <2>3 DEF LockInv, FlockTyped
<1>6. CASE UNCHANGED flockVars
  BY <1>6 DEF flockVars, LockInv, FlockTyped, RawKept
<1> QED
  BY <1>1, <1>2, <1>3, <1>4, <1>5, <1>6 DEF FlockNext

\* A lock request reaches fcntl, and a conflicting lock reaches the kernel,
\* with the type, the range and the owner it came with (from_flock, to_flock).
THEOREM LocksKept == FlockSpec => [](FlockTyped /\ LockKept)
<1>1. LockInv => FlockTyped /\ LockKept
  BY FromMeant DEF LockInv, FlockTyped, LockKept, NeverFails, RangeMeant
<1> QED
  BY <1>1, LockInit, LockStep, PTL DEF FlockSpec

------------------------------------------------------------------------------
(* Timestamps.                                                               *)

\* Decoding a timespec gives the SystemTime with the same pair.
LEMMA DecodeKeeps ==
    ASSUME NEW ts \in Timespec
    PROVE  secs_nsecs_to_system_time(ts.secs, ts.nanos) = ts
BY TimeAssumption DEF secs_nsecs_to_system_time, Timespec, Plus, Minus, UNIX_EPOCH

\* Encoding such a SystemTime gives the timespec back: the borrow that
\* duration_since takes before the epoch is undone.
LEMMA EncodeKeeps ==
    ASSUME NEW ts \in Timespec
    PROVE  system_time_to_secs_nsecs(ts) = ts
BY TimeAssumption DEF system_time_to_secs_nsecs, Distance, Timespec, Minus, UNIX_EPOCH

\* What is stored is what was set.
TimeInv == set \in Timespec /\ reported \in Timespec /\ stored = set

\* The invariant that makes the round trip: what is stored is the pair that
\* was set.
LEMMA StoredAsSet == TimeSpec => []TimeInv
<1>1. TimeInit => TimeInv
  BY TimeAssumption DEF TimeInit, TimeInv, UNIX_EPOCH, Timespec
<1>2. TimeInv /\ [TimeNext]_timeVars => TimeInv'
  <2> SUFFICES ASSUME TimeInv, [TimeNext]_timeVars PROVE TimeInv'
    OBVIOUS
  <2>1. CASE GetTime
    BY <2>1, EncodeKeeps DEF GetTime, TimeInv
  <2>2. ASSUME NEW ts \in Timespec, SetTime(ts) PROVE TimeInv'
    BY <2>2, DecodeKeeps DEF SetTime, TimeInv
  <2>3. CASE UNCHANGED timeVars
    BY <2>3 DEF timeVars, TimeInv
  <2> QED
    BY <2>1, <2>2, <2>3 DEF TimeNext
<1> QED
  BY <1>1, <1>2, PTL DEF TimeSpec

\* Every timestamp the filesystem stores is the instant the kernel's setattr
\* named, before and after the epoch (secs_nsecs_to_system_time).
THEOREM StoredInstant == TimeSpec => []StoredIsMeant
<1>1. TimeInv => StoredIsMeant
  BY DEF TimeInv, StoredIsMeant
<1> QED
  BY <1>1, StoredAsSet, PTL

\* A getattr reports the very pair that the last setattr brought
\* (system_time_to_secs_nsecs is the inverse of secs_nsecs_to_system_time).
THEOREM SetIsRead == TimeSpec => ReadsBackWhatWasSet
<1>1. TimeInv /\ [TimeNext]_timeVars => [reported' # reported => reported' = set]_timeVars
  <2> SUFFICES ASSUME TimeInv, TimeNext, reported' # reported PROVE reported' = set
    BY DEF timeVars
  <2>1. CASE GetTime
    BY <2>1, EncodeKeeps DEF GetTime, TimeInv
  <2>2. ASSUME NEW ts \in Timespec, SetTime(ts) PROVE FALSE
    BY <2>2 DEF SetTime
  <2> QED
    BY <2>1, <2>2 DEF TimeNext
<1> QED
  BY <1>1, StoredAsSet, PTL DEF TimeSpec, ReadsBackWhatWasSet

------------------------------------------------------------------------------
(* Extended attributes.                                                      *)

\* What the attribute can be: absent, or one of the values.
XattrStates == {{}} \cup {{v} : v \in XattrValues}

\* While the second system call is due, the first one's length is that of the
\* value the attribute had first, and the last thing held is what it is now.
XattrInv ==
    /\ xattr \in XattrStates
    /\ held \in Seq(XattrStates)
    /\ call.pc \in {"quiet", "probed", "answered"}
    /\ call.pc = "quiet" => call = Quiet
    /\ call.pc = "probed" =>
           /\ call = [Quiet EXCEPT !.pc = "probed", !.size = call.size, !.probed = call.probed]
           /\ call.size \in Nat
           /\ Len(held) > 0 /\ held[Len(held)] = xattr
           /\ \E v \in held[1] : call.probed = Len(v)
    /\ XattrWhole

\* The value of a present attribute is the one it holds.
LEMMA TheValue ==
    ASSUME NEW v, NEW s, s = {v}
    PROVE  (CHOOSE w \in s : TRUE) = v
OBVIOUS

\* The buffer, with room for the value, is cut to the value: no padding is left.
LEMMA FetchWhole ==
    ASSUME NEW v \in Seq(1 .. 255), NEW room \in Nat, Len(v) <= room
    PROVE  Truncated([i \in 1 .. room |-> IF i <= Len(v) THEN v[i] ELSE 0], Len(v)) = v
<1> DEFINE buf == [i \in 1 .. room |-> IF i <= Len(v) THEN v[i] ELSE 0]
<1>1. buf \in Seq(0 .. 255) /\ Len(buf) = room
  <2>1. \A i \in 1 .. room : (IF i <= Len(v) THEN v[i] ELSE 0) \in 0 .. 255
    BY ElementOfSeq
  <2> QED BY <2>1, IsASeq
<1>2. \A i \in 1 .. Len(v) : buf[i] = v[i]
  OBVIOUS
<1> HIDE DEF buf
<1>3. CASE Len(v) = room
  <2>1. buf = v
    BY <1>1, <1>2, <1>3, SeqEqual
  <2> QED BY <1>1, <1>3, <2>1 DEF Truncated
<1>4. CASE Len(v) < room
  <2> DEFINE cut == SubSeq(buf, 1, Len(v))
  <2>1. cut \in Seq(0 .. 255) /\ Len(cut) = Len(v) /\ \A i \in 1 .. Len(v) : cut[i] = buf[i]
    <3>1. Len(v) \in Int /\ \A i \in 1 .. Len(v) : buf[i] \in 0 .. 255
      <4>1. ASSUME NEW i \in 1 .. Len(v) PROVE buf[i] \in 0 .. 255
        <5>1. i \in 1 .. Len(buf)
          BY <1>1, <1>4
        <5> QED BY <1>1, <5>1, ElementOfSeq
      <4> QED BY <4>1
    <3> QED BY <3>1, SubSeqProperties, SMTT(30)
  <2>2. cut = v
    BY <2>1, <1>2, SeqEqual
  <2> QED BY <1>1, <1>4, <2>2 DEF Truncated
<1> QED BY <1>3, <1>4

\* The first system call, and memory_fs's answer, are of the value at that time.
LEMMA GetxattrInv ==
    ASSUME XattrInv, NEW size \in 0 .. MaxSize, Getxattr(size) PROVE XattrInv'
<1>1. size \in Nat
  BY XattrBounds
<1>2. held' = <<xattr>> /\ held' \in Seq(XattrStates) /\ Len(held') = 1 /\ held'[1] = xattr
  BY DEF Getxattr, XattrInv
<1>3. CASE xattr = {}
  <2>1. call' = [Quiet EXCEPT !.pc = "answered", !.size = size, !.answer = Err("ENODATA")]
    BY <1>3 DEF Getxattr, MemoryGetxattr, reply_xattr, Err
  <2>2. XattrWhole'
    BY <1>2, <1>3, <2>1 DEF XattrWhole, Quiet, Err
  <2> QED
    BY <1>2, <2>1, <2>2 DEF XattrInv, Getxattr, Quiet
<1>4. ASSUME NEW v \in XattrValues, xattr = {v} PROVE XattrInv'
  <2>1. (CHOOSE w \in xattr : TRUE) = v /\ v \in Seq(1 .. 255)
    BY <1>4, TheValue, XattrBounds
  <2>2. CASE backend = "memory"
    <3>1. call' = [Quiet EXCEPT !.pc = "answered", !.size = size,
                     !.answer = IF size = 0 THEN Size(Len(v))
                                ELSE IF Len(v) > size THEN Err("ERANGE") ELSE Data(v)]
      BY <1>1, <1>4, <2>1, <2>2 DEF Getxattr, MemoryGetxattr, reply_xattr, Err, Size, Data
    <3>2. XattrWhole'
      BY <1>1, <1>2, <1>4, <2>1, <3>1 DEF XattrWhole, Quiet, Err, Size, Data
    <3> QED
      BY <1>2, <3>1, <3>2 DEF XattrInv, Getxattr, Quiet
  <2>3. CASE backend # "memory"
    <3>1. call' = [Quiet EXCEPT !.pc = "probed", !.size = size, !.probed = Len(v)]
      BY <1>4, <2>1, <2>3 DEF Getxattr
    <3>2. /\ call'.pc = "probed" /\ call'.size = size /\ call'.probed = Len(v)
          /\ call' = [Quiet EXCEPT !.pc = "probed", !.size = call'.size, !.probed = call'.probed]
      BY <3>1 DEF Quiet
    <3>3. \E w \in held'[1] : call'.probed = Len(w)
      BY <1>2, <1>4, <3>2
    <3>4. xattr' \in XattrStates /\ held'[Len(held')] = xattr' /\ Len(held') > 0
      BY <1>2 DEF XattrInv, Getxattr
    <3>5. XattrWhole'
      BY <3>2 DEF XattrWhole
    <3> QED
      BY <1>1, <1>2, <3>2, <3>3, <3>4, <3>5 DEF XattrInv
  <2> QED
    BY <2>2, <2>3
<1> QED
  BY <1>3, <1>4 DEF XattrInv, XattrStates

\* The second system call: a buffer sized for another value is filled with a
\* whole one or refused, and sized and reply_xattr keep it so.
LEMMA FetchInv == ASSUME XattrInv, FetchXattr PROVE XattrInv'
<1>1. /\ call.pc = "probed" /\ held' = held /\ xattr' = xattr
      /\ call.size \in Nat /\ held \in Seq(XattrStates)
      /\ Len(held) \in Nat \ {0} /\ held[Len(held)] = xattr
      /\ call = [Quiet EXCEPT !.pc = "probed", !.size = call.size, !.probed = call.probed]
  BY DEF FetchXattr, XattrInv
<1>2. PICK u \in held[1] : call.probed = Len(u)
  BY <1>1 DEF XattrInv
<1>3. u \in XattrValues /\ u \in Seq(1 .. 255) /\ held[1] = {u}
  BY <1>1, <1>2, XattrBounds DEF XattrStates
<1>4. ASSUME NEW a, call' = [call EXCEPT !.pc = "answered", !.answer = a], XattrWhole'
      PROVE  XattrInv'
  BY <1>1, <1>4 DEF XattrInv, Quiet
<1>5. CASE xattr = {}
  <2>1. call' = [call EXCEPT !.pc = "answered", !.answer = Err("ENODATA")]
    BY <1>5 DEF FetchXattr, Fetched, reply_xattr, Err
  <2>2. XattrWhole'
    BY <1>1, <1>5, <2>1 DEF XattrWhole, Quiet, Err
  <2> QED
    BY <1>4, <2>1, <2>2
<1>6. ASSUME NEW v \in XattrValues, xattr = {v} PROVE XattrInv'
  <2>1. (CHOOSE w \in xattr : TRUE) = v /\ v \in Seq(1 .. 255)
    BY <1>6, TheValue, XattrBounds
  <2>2. CASE Len(u) # 0 /\ Len(v) > Len(u)
    <3>1. Fetched(xattr, call.probed) = Err("ERANGE")
      BY <1>2, <1>6, <2>1, <2>2 DEF Fetched
    <3>2. call' = [call EXCEPT !.pc = "answered", !.answer = Err("ERANGE")]
      BY <3>1 DEF FetchXattr, reply_xattr, Err
    <3>3. 1 < Len(held) /\ u \in held[1] /\ v \in held[Len(held)]
      <4>1. u # v
        BY <2>2, <2>1, <1>3
      <4>2. Len(held) # 1
        BY <4>1, <1>1, <1>3, <1>6
      <4>3. 1 < Len(held)
        <5>1. Len(held) \in Nat \ {0}
          BY <1>1, Zenon
        <5>2. \A n \in Nat \ {0} : n # 1 => 1 < n
          OBVIOUS
        <5> QED BY <4>2, <5>1, <5>2, Zenon
      <4>4. u \in held[1] /\ v \in held[Len(held)]
        BY <1>1, <1>2, <1>6, Zenon
      <4> QED BY <4>3, <4>4
    <3>4. XattrWhole'
      BY <1>1, <1>3, <2>1, <2>2, <3>2, <3>3 DEF XattrWhole, Quiet, Err
    <3> QED
      BY <1>4, <3>2, <3>4
  <2>3. ASSUME NEW w \in Seq(1 .. 255), NEW i \in 1 .. Len(held), w \in held[i],
               Fetched(xattr, call.probed) = Data(w)
        PROVE  XattrInv'
    <3>1. call' = [call EXCEPT !.pc = "answered",
                      !.answer = IF call.size = 0 THEN Size(Len(w))
                                 ELSE IF Len(w) > call.size THEN Err("ERANGE") ELSE Data(w)]
      <4>1. Len(w) \in Nat
        BY <2>3
      <4>2. Data(w).kind = "Data" /\ Data(w).data = w
        BY DEF Data
      <4>3. call' = [call EXCEPT !.pc = "answered",
                        !.answer = reply_xattr(sized(w, call.size), call.size)]
        BY <2>3, <4>2 DEF FetchXattr
      <4> QED
        BY <1>1, <4>1, <4>3 DEF sized, reply_xattr, Err, Size, Data
    <3>2. XattrWhole'
      BY <1>1, <2>3, <3>1 DEF XattrWhole, Quiet, Err, Size, Data
    <3> QED
      BY <1>4, <3>1, <3>2
  <2>4. CASE Len(u) = 0
    <3>1. u = <<>>
      BY <1>3, <2>4
    <3>2. Fetched(xattr, call.probed) = Data(u)
      BY <1>2, <1>6, <2>1, <2>4, <3>1 DEF Fetched, Truncated
    <3> QED
      BY <1>1, <1>2, <1>3, <2>3, <3>2
  <2>5. CASE Len(u) # 0 /\ Len(v) <= Len(u)
    <3>1. Fetched(xattr, call.probed) = Data(v)
      <4>1. Truncated([i \in 1 .. Len(u) |-> IF i <= Len(v) THEN v[i] ELSE 0], Len(v)) = v
        BY <1>3, <2>1, <2>5, FetchWhole
      <4> QED
        BY <1>2, <1>3, <1>6, <2>1, <2>5, <4>1 DEF Fetched
    <3> QED
      BY <1>1, <1>6, <2>1, <2>3, <3>1
  <2> QED
    BY <1>3, <2>1, <2>2, <2>4, <2>5
<1> QED
  BY <1>5, <1>6 DEF XattrInv, XattrStates

\* A change of the attribute is noted while a request is between its calls.
LEMMA ChangeXattrInv == ASSUME XattrInv, ChangeXattr PROVE XattrInv'
<1>1. xattr' \in XattrStates
  BY DEF ChangeXattr, XattrStates
<1>2. CASE call.pc = "probed"
  <2>1. held' = Append(held, xattr') /\ call' = call /\ held \in Seq(XattrStates) /\ Len(held) > 0
    BY <1>2 DEF ChangeXattr, XattrInv
  <2>2. /\ held' \in Seq(XattrStates) /\ Len(held') > 0
        /\ held'[Len(held')] = xattr' /\ held'[1] = held[1]
    BY <1>1, <2>1
  <2> QED
    BY <1>1, <1>2, <2>1, <2>2 DEF XattrInv, XattrWhole
<1>3. CASE call.pc # "probed"
  <2>1. held' = <<>> /\ call' = Quiet
    BY <1>3 DEF ChangeXattr
  <2> QED
    BY <1>1, <2>1 DEF XattrInv, XattrWhole, Quiet
<1> QED
  BY <1>2, <1>3

\* A getxattr never gives a value that is cut, padded or mixed, and no error
\* without cause, whatever is set between the two system calls of
\* getxattr_value_nofollow.
THEOREM XattrReadWhole == XattrInit /\ [][XattrNext]_xattrVars => []XattrWhole
<1>1. XattrInit => XattrInv
  BY DEF XattrInit, XattrInv, XattrWhole, XattrStates, Quiet
<1>2. XattrInv /\ [XattrNext]_xattrVars => XattrInv'
  <2> SUFFICES ASSUME XattrInv, [XattrNext]_xattrVars PROVE XattrInv'
    OBVIOUS
  <2>1. CASE UNCHANGED xattrVars
    BY <2>1 DEF xattrVars, XattrInv, XattrWhole
  <2> QED
    BY <2>1, ChangeXattrInv, FetchInv, GetxattrInv DEF XattrNext
<1>3. XattrInv => XattrWhole
  BY DEF XattrInv
<1> QED
  BY <1>1, <1>2, <1>3, PTL

------------------------------------------------------------------------------
(* The bytes of a file.                                                      *)

\* What a caller did to the file.
Edit == [op : {"write", "size"}, at : Nat, data : Seq(1 .. 255)]

\* The edits ByteAt chooses from, and those EndAfter does.
Wrote(p) ==
    {i \in DOMAIN edits :
        /\ edits[i].op = "write"
        /\ p \in edits[i].at .. (edits[i].at + Len(edits[i].data) - 1)
        /\ \A j \in DOMAIN edits : j > i /\ edits[j].op = "size" => p < edits[j].at}

\* The edits that set the size.
Sizes == {i \in 1 .. Len(edits) : edits[i].op = "size"}

\* Where the edits since edit s end.
EndsSince(s) ==
    {edits[i].at + Len(edits[i].data) : i \in {i \in 1 .. Len(edits) : i >= s /\ i > 0}}

\* The last edit that set the size is s, and s is 0 where none did.
LastSize(s) ==
    /\ s \in 0 .. Len(edits)
    /\ s = 0 => Sizes = {}
    /\ s # 0 => s \in Sizes /\ \A j \in Sizes : j <= s

\* A byte of the content, and of the zeros beyond it.
Byte(p) == IF p < Len(content) THEN content[p + 1] ELSE 0

\* The greatest of S.
IsLast(S, i) == i \in S /\ \A j \in S : j <= i

\* The end is where the history puts it, and so is every byte, without a choice
\* of a last edit.
EndInv ==
    \E s \in 0 .. Len(edits) :
        /\ LastSize(s)
        /\ IF EndsSince(s) = {} THEN Len(content) = 0 ELSE IsLast(EndsSince(s), Len(content))

\* Every byte is what the last edit that wrote it and was not cut off put there.
BytesInv ==
    \A p \in Nat :
        IF Wrote(p) = {} THEN Byte(p) = 0
        ELSE \E i \in Wrote(p) : IsLast(Wrote(p), i) /\ Byte(p) = edits[i].data[p - edits[i].at + 1]

\* The inductive invariant of the content.
DataInv ==
    /\ content \in Seq(0 .. 255)
    /\ edits \in Seq(Edit)
    /\ EndInv /\ BytesInv

\* There is one greatest element.
LEMMA TheLast ==
    ASSUME NEW S \in SUBSET Nat, NEW i \in S, IsLast(S, i)
    PROVE  (CHOOSE k \in S : \A j \in S : j <= k) = i
<1>1. \A k \in S : (\A j \in S : j <= k) => k = i
  BY DEF IsLast
<1>2. \E k \in S : \A j \in S : j <= k
  BY DEF IsLast
<1> QED BY <1>1, <1>2

\* EndAfter chooses the end that the invariant names ...
LEMMA EndIs == DataInv => EndAfter(Len(edits)) = Len(content)
<1> SUFFICES ASSUME DataInv PROVE EndAfter(Len(edits)) = Len(content)
  OBVIOUS
<1>1. PICK s \in 0 .. Len(edits) :
        /\ LastSize(s)
        /\ IF EndsSince(s) = {} THEN Len(content) = 0 ELSE IsLast(EndsSince(s), Len(content))
  BY DEF DataInv, EndInv
<1>2. s = IF Sizes = {} THEN 0 ELSE CHOOSE i \in Sizes : \A j \in Sizes : j <= i
  <2>1. CASE s = 0
    BY <1>1, <2>1 DEF LastSize
  <2>2. CASE s # 0
    <3>1. Sizes \in SUBSET Nat /\ s \in Sizes /\ IsLast(Sizes, s)
      BY <1>1, <2>2 DEF LastSize, IsLast, Sizes
    <3> QED BY <3>1, TheLast
  <2> QED BY <2>1, <2>2
<1>3. EndsSince(s) \in SUBSET Nat
  <2>1. \A i \in 1 .. Len(edits) : edits[i] \in Edit
    BY ElementOfSeq DEF DataInv
  <2>2. \A i \in 1 .. Len(edits) : edits[i].at \in Nat /\ Len(edits[i].data) \in Nat
    BY <2>1 DEF Edit
  <2> QED BY <2>2 DEF EndsSince
<1>4. Len(content) = IF EndsSince(s) = {} THEN 0
                     ELSE CHOOSE e \in EndsSince(s) : \A f \in EndsSince(s) : f <= e
  BY <1>1, <1>3, TheLast DEF IsLast
<1> QED
  BY <1>2, <1>4, Zenon DEF EndAfter, Sizes, EndsSince

\* ... and ByteAt the byte.
LEMMA ByteIs == ASSUME DataInv, NEW p \in Nat PROVE ByteAt(p) = Byte(p)
<1>1. Wrote(p) \in SUBSET Nat
  BY DEF Wrote, DataInv
<1>2. CASE Wrote(p) = {}
  BY <1>2, Zenon DEF ByteAt, Wrote, DataInv, BytesInv
<1>3. ASSUME NEW i \in Wrote(p), IsLast(Wrote(p), i), Byte(p) = edits[i].data[p - edits[i].at + 1]
      PROVE  ByteAt(p) = Byte(p)
  <2>1. (CHOOSE k \in Wrote(p) : \A j \in Wrote(p) : j <= k) = i
    BY <1>1, <1>3, TheLast
  <2>2. Wrote(p) # {}
    BY <1>3
  <2> QED
    BY <1>3, <2>1, <2>2, Zenon DEF ByteAt, Wrote
<1> QED
  BY <1>2, <1>3 DEF DataInv, BytesInv

\* Vec::resize cuts, or adds zeros.
LEMMA ResizeIs ==
    ASSUME NEW bytes \in Seq(0 .. 255), NEW size \in Nat
    PROVE  /\ resize(bytes, size) \in Seq(0 .. 255)
           /\ Len(resize(bytes, size)) = size
           /\ \A i \in 1 .. size :
                  resize(bytes, size)[i] = IF i <= Len(bytes) THEN bytes[i] ELSE 0
<1>1. \A i \in 1 .. size : (IF i <= Len(bytes) THEN bytes[i] ELSE 0) \in 0 .. 255
  BY ElementOfSeq
<1>2. resize(bytes, size) \in Seq(0 .. 255)
  BY <1>1, IsASeq DEF resize
<1> QED
  BY <1>2 DEF resize

\* What write makes of `bytes'.
IsWritten(new, bytes, offset, data) ==
    /\ new \in Seq(0 .. 255)
    /\ Len(new) = IF offset + Len(data) > Len(bytes) THEN offset + Len(data) ELSE Len(bytes)
    /\ \A i \in 1 .. Len(new) :
           new[i] = IF i \in (offset + 1) .. (offset + Len(data)) THEN data[i - offset]
                    ELSE IF i <= Len(bytes) THEN bytes[i] ELSE 0

\* A write leaves the bytes it brings, the others, and zeros between them.
LEMMA WrittenIs ==
    ASSUME NEW bytes \in Seq(0 .. 255), NEW offset \in Nat, NEW data \in Seq(1 .. 255)
    PROVE  IsWritten(Written(bytes, offset, data), bytes, offset, data)
<1> DEFINE end == offset + Len(data)
           room == IF end > Len(bytes) THEN resize(bytes, end) ELSE bytes
           out == [i \in 1 .. Len(room) |-> IF i \in (offset + 1) .. end THEN data[i - offset]
                                            ELSE room[i]]
<1>1. end \in Nat
  OBVIOUS
<1>2. /\ room \in Seq(0 .. 255)
      /\ Len(room) = IF end > Len(bytes) THEN end ELSE Len(bytes)
      /\ \A i \in 1 .. Len(room) : room[i] = IF i <= Len(bytes) THEN bytes[i] ELSE 0
  <2>1. CASE end > Len(bytes)
    BY <1>1, <2>1, ResizeIs
  <2>2. CASE ~ (end > Len(bytes))
    BY <1>1, <2>2
  <2> QED BY <2>1, <2>2
<1>3. Written(bytes, offset, data) = out
  BY <1>2 DEF Written
<1> HIDE DEF room, end
<1>4. out \in Seq(0 .. 255) /\ Len(out) = Len(room)
  <2>1. ASSUME NEW i \in 1 .. Len(room)
        PROVE  (IF i \in (offset + 1) .. end THEN data[i - offset] ELSE room[i]) \in 0 .. 255
    <3>1. CASE i \in (offset + 1) .. end
      <4>1. i - offset \in 1 .. Len(data)
        BY <1>1, <3>1 DEF end
      <4>2. data[i - offset] \in 1 .. 255
        BY <4>1, ElementOfSeq
      <4> QED BY <3>1, <4>2
    <3>2. CASE i \notin (offset + 1) .. end
      BY <3>2, <1>2, ElementOfSeq
    <3> QED BY <3>1, <3>2
  <2>2. Len(room) \in Nat
    BY <1>2
  <2> HIDE DEF out
  <2>3. out \in Seq(0 .. 255)
    BY <2>1, <2>2, IsASeq DEF out
  <2> QED BY <2>2, <2>3 DEF out
<1> QED
  BY <1>2, <1>3, <1>4 DEF end, IsWritten

\* An edit that is added at the end: what is there stays.
LEMMA Added ==
    ASSUME DataInv, NEW e \in Edit, edits' = Append(edits, e)
    PROVE  /\ Len(edits) \in Nat /\ Len(edits') = Len(edits) + 1
           /\ edits' \in Seq(Edit)
           /\ edits'[Len(edits) + 1] = e
           /\ \A i \in 1 .. Len(edits) : edits'[i] = edits[i]
           /\ \A i \in 1 .. Len(edits) : edits[i] \in Edit
           /\ DOMAIN edits = 1 .. Len(edits) /\ DOMAIN edits' = 1 .. (Len(edits) + 1)
BY DEF DataInv

\* A write keeps the invariant.
LEMMA WriteInv ==
    ASSUME DataInv, NEW offset \in 0 .. MaxOffset, NEW data \in Seq(1 .. 255), Len(data) > 0,
           Write(offset, data)
    PROVE  DataInv'
<1> DEFINE e == [op |-> "write", at |-> offset, data |-> data]
           k == Len(edits)
<1>1. offset \in Nat /\ e \in Edit /\ edits' = Append(edits, e)
  BY FileBounds DEF Write, Edit
<1>2. /\ k \in Nat /\ Len(edits') = k + 1 /\ edits' \in Seq(Edit)
      /\ edits'[k + 1] = e /\ \A i \in 1 .. k : edits'[i] = edits[i] /\ edits[i] \in Edit
      /\ DOMAIN edits = 1 .. k /\ DOMAIN edits' = 1 .. (k + 1)
  BY <1>1, Added, Zenon
<1>3. /\ content' \in Seq(0 .. 255) /\ content \in Seq(0 .. 255)
      /\ Len(content') = IF offset + Len(data) > Len(content) THEN offset + Len(data)
                                                             ELSE Len(content)
      /\ \A i \in 1 .. Len(content') :
             content'[i] = IF i \in (offset + 1) .. (offset + Len(data)) THEN data[i - offset]
                           ELSE IF i <= Len(content) THEN content[i] ELSE 0
  <2>1. content' = Written(content, offset, data) /\ content \in Seq(0 .. 255)
    BY DEF Write, DataInv
  <2>2. IsWritten(content', content, offset, data)
    BY <1>1, <2>1, WrittenIs
  <2> QED
    BY <2>1, <2>2, Zenon DEF IsWritten
<1> HIDE DEF e, k
<1>4. EndInv'
  <2>1. PICK s \in 0 .. k :
          /\ LastSize(s)
          /\ IF EndsSince(s) = {} THEN Len(content) = 0 ELSE IsLast(EndsSince(s), Len(content))
    BY DEF DataInv, EndInv, k
  <2>2. Sizes' = Sizes
    BY <1>2 DEF Sizes, e, k
  <2>3. LastSize(s)'
    BY <1>2, <2>1, <2>2 DEF LastSize, k
  <2>4. EndsSince(s)' = EndsSince(s) \cup {offset + Len(data)}
    <3>1. {i \in 1 .. (k + 1) : i >= s /\ i > 0} = {i \in 1 .. k : i >= s /\ i > 0} \cup {k + 1}
      BY <1>2, <2>1
    <3>2. edits'[k + 1].at + Len(edits'[k + 1].data) = offset + Len(data)
      BY <1>2 DEF e
    <3>3. EndsSince(s)' = {edits'[i].at + Len(edits'[i].data) :
                              i \in {i \in 1 .. k : i >= s /\ i > 0} \cup {k + 1}}
      BY <1>2, <3>1 DEF EndsSince, k
    <3>4. EndsSince(s) = {edits[i].at + Len(edits[i].data) : i \in {i \in 1 .. k : i >= s /\ i > 0}}
      BY DEF EndsSince, k
    <3> QED
      BY <1>2, <3>2, <3>3, <3>4
  <2>5. EndsSince(s) \subseteq Nat
    <3>1. \A i \in 1 .. k : edits[i].at \in Nat /\ Len(edits[i].data) \in Nat
      BY <1>2 DEF Edit
    <3> QED BY <3>1 DEF EndsSince, k
  <2>6. IsLast(EndsSince(s), Len(content))' /\ EndsSince(s)' # {}
    <3>1. offset + Len(data) \in Nat /\ Len(content) \in Nat /\ Len(content') \in Nat
      BY <1>1, <1>3
    <3> QED
      BY <1>3, <2>1, <2>4, <2>5, <3>1 DEF IsLast
  <2>7. s \in 0 .. Len(edits')
    BY <1>2, <2>1
  <2> QED
    BY <2>3, <2>6, <2>7 DEF EndInv
<1>5. BytesInv'
  <2> SUFFICES ASSUME NEW p \in Nat
               PROVE  IF Wrote(p)' = {} THEN Byte(p)' = 0
                      ELSE \E i \in Wrote(p)' : /\ IsLast(Wrote(p)', i)
                                                /\ Byte(p)' = edits'[i].data[p - edits'[i].at + 1]
    BY DEF BytesInv, IsLast
  <2>1. IF Wrote(p) = {} THEN Byte(p) = 0
        ELSE \E i \in Wrote(p) : IsLast(Wrote(p), i) /\ Byte(p) = edits[i].data[p - edits[i].at + 1]
    BY DEF DataInv, BytesInv
  <2>2. Wrote(p) \subseteq 1 .. k
    BY <1>2 DEF Wrote
  <2>3. Wrote(p)' = Wrote(p) \cup (IF p \in offset .. (offset + Len(data) - 1) THEN {k + 1} ELSE {})
    BY <1>1, <1>2 DEF Wrote, e
  <2>4. CASE p \in offset .. (offset + Len(data) - 1)
    <3>1. k + 1 \in Wrote(p)' /\ IsLast(Wrote(p)', k + 1)
      BY <1>2, <2>2, <2>3, <2>4 DEF IsLast
    <3>2. Byte(p)' = data[p - offset + 1]
      <4>1. p + 1 \in 1 .. Len(content') /\ p < Len(content')
        BY <1>1, <1>3, <2>4
      <4>2. p + 1 \in (offset + 1) .. (offset + Len(data)) /\ (p + 1) - offset = p - offset + 1
        BY <1>1, <2>4
      <4> QED
        BY <1>3, <4>1, <4>2 DEF Byte
    <3> QED
      BY <1>2, <3>1, <3>2 DEF e
  <2>5. CASE p \notin offset .. (offset + Len(data) - 1)
    <3>1. Wrote(p)' = Wrote(p)
      BY <2>3, <2>5
    <3>2. Byte(p)' = Byte(p)
      <4>1. (p + 1) \notin (offset + 1) .. (offset + Len(data))
        BY <1>1, <2>5
      <4>2. Len(content) \in Nat /\ Len(content') \in Nat /\ Len(content) <= Len(content')
        BY <1>1, <1>3
      <4>3. CASE p < Len(content')
        <5>1. p + 1 \in 1 .. Len(content')
          BY <4>2, <4>3
        <5>2. content'[p + 1] = IF p + 1 <= Len(content) THEN content[p + 1] ELSE 0
          BY <1>3, <4>1, <5>1
        <5> QED
          BY <4>2, <4>3, <5>2 DEF Byte
      <4>4. CASE ~ (p < Len(content'))
        BY <4>2, <4>4 DEF Byte
      <4> QED BY <4>3, <4>4
    <3> QED
      BY <1>2, <2>1, <2>2, <3>1, <3>2
  <2> QED
    BY <2>4, <2>5
<1> QED
  BY <1>2, <1>3, <1>4, <1>5 DEF DataInv

\* Setting the size keeps the invariant: what is cut off is forgotten.
LEMMA SetSizeInv ==
    ASSUME DataInv, NEW size \in 0 .. MaxOffset, SetSize(size) PROVE DataInv'
<1> DEFINE e == [op |-> "size", at |-> size, data |-> <<>>]
           k == Len(edits)
<1>1. size \in Nat /\ e \in Edit /\ edits' = Append(edits, e)
  BY FileBounds DEF SetSize, Edit
<1>2. /\ k \in Nat /\ Len(edits') = k + 1 /\ edits' \in Seq(Edit)
      /\ edits'[k + 1] = e /\ \A i \in 1 .. k : edits'[i] = edits[i] /\ edits[i] \in Edit
      /\ DOMAIN edits = 1 .. k /\ DOMAIN edits' = 1 .. (k + 1)
  BY <1>1, Added, Zenon
<1>3. /\ content' \in Seq(0 .. 255) /\ content \in Seq(0 .. 255) /\ Len(content') = size
      /\ \A i \in 1 .. size : content'[i] = IF i <= Len(content) THEN content[i] ELSE 0
  BY <1>1, ResizeIs DEF SetSize, DataInv
<1> HIDE DEF e, k
<1>4. EndInv'
  <2> PICK s : s = Len(edits) + 1
    OBVIOUS
  <2>0. s = k + 1 /\ s \in Nat
    BY <1>2 DEF k
  <2>1. Sizes' = Sizes \cup {k + 1} /\ Sizes \subseteq 1 .. k
    BY <1>2 DEF Sizes, e, k
  <2>2. LastSize(s)'
    BY <1>2, <2>0, <2>1 DEF LastSize
  <2>3. EndsSince(s)' = {size}
    <3>1. {i \in 1 .. (k + 1) : i >= k + 1 /\ i > 0} = {k + 1}
      BY <1>2
    <3>2. edits'[k + 1].at + Len(edits'[k + 1].data) = size
      BY <1>1, <1>2 DEF e
    <3> QED
      BY <1>2, <2>0, <3>1, <3>2 DEF EndsSince
  <2>4. s \in 0 .. Len(edits')
    BY <1>2, <2>0
  <2>5. IsLast(EndsSince(s), Len(content))' /\ EndsSince(s)' # {}
    BY <1>1, <1>3, <2>3 DEF IsLast
  <2> QED
    BY <2>2, <2>4, <2>5 DEF EndInv
<1>5. BytesInv'
  <2> SUFFICES ASSUME NEW p \in Nat
               PROVE  IF Wrote(p)' = {} THEN Byte(p)' = 0
                      ELSE \E i \in Wrote(p)' : /\ IsLast(Wrote(p)', i)
                                                /\ Byte(p)' = edits'[i].data[p - edits'[i].at + 1]
    BY DEF BytesInv, IsLast
  <2>1. IF Wrote(p) = {} THEN Byte(p) = 0
        ELSE \E i \in Wrote(p) : IsLast(Wrote(p), i) /\ Byte(p) = edits[i].data[p - edits[i].at + 1]
    BY DEF DataInv, BytesInv
  <2>2. Wrote(p) \subseteq 1 .. k
    BY <1>2 DEF Wrote
  <2>3. Wrote(p)' = IF p < size THEN Wrote(p) ELSE {}
    BY <1>1, <1>2 DEF Wrote, e
  <2>4. CASE p < size
    <3>1. p + 1 \in 1 .. size /\ Len(content) \in Nat
      BY <1>1, <1>3, <2>4
    <3>2. content'[p + 1] = IF p + 1 <= Len(content) THEN content[p + 1] ELSE 0
      BY <1>3, <3>1
    <3>3. Byte(p)' = Byte(p)
      BY <1>3, <2>4, <3>1, <3>2 DEF Byte
    <3> QED
      BY <1>2, <2>1, <2>2, <2>3, <2>4, <3>3
  <2>5. CASE ~ (p < size)
    BY <1>3, <2>3, <2>5 DEF Byte
  <2> QED
    BY <2>4, <2>5
<1> QED
  BY <1>2, <1>3, <1>4, <1>5 DEF DataInv

\* A read gives the bytes of the content from its offset on.
LEMMA ReadIs ==
    ASSUME NEW bytes \in Seq(0 .. 255), NEW offset \in Nat, NEW size \in Nat \ {0}
    PROVE  LET got == read(bytes, offset, size)
           IN  /\ Len(got) = IF offset >= Len(bytes) THEN 0
                             ELSE IF offset + size < Len(bytes) THEN size ELSE Len(bytes) - offset
               /\ \A i \in DOMAIN got : offset + i - 1 \in 0 .. (Len(bytes) - 1)
                                       /\ got[i] = bytes[offset + i]
<1>1. CASE offset >= Len(bytes)
  BY <1>1 DEF read
<1>2. CASE ~ (offset >= Len(bytes))
  <2> DEFINE end == IF offset + size < Len(bytes) THEN offset + size ELSE Len(bytes)
             got == SubSeq(bytes, offset + 1, end)
  <2>1. end \in Nat /\ offset + 1 <= end /\ end <= Len(bytes)
    BY <1>2
  <2>2. read(bytes, offset, size) = got
    BY <1>2 DEF read
  <2>3. \A i \in (offset + 1) .. end : bytes[i] \in 0 .. 255
    <3>1. (offset + 1) .. end \subseteq 1 .. Len(bytes)
      BY <2>1
    <3> QED BY <3>1, ElementOfSeq
  <2> HIDE DEF end
  <2>4. /\ got \in Seq(0 .. 255) /\ Len(got) = end - offset
        /\ \A i \in 1 .. (end - offset) : got[i] = bytes[offset + i]
    <3>1. /\ got \in Seq(0 .. 255)
          /\ Len(got) = IF offset + 1 <= end THEN end - (offset + 1) + 1 ELSE 0
          /\ \A i \in 1 .. (end - (offset + 1) + 1) : got[i] = bytes[(offset + 1) + i - 1]
      BY <2>1, <2>3, SubSeqProperties, SMTT(30)
    <3>2. end - (offset + 1) + 1 = end - offset
      BY <2>1
    <3>3. \A i \in 1 .. (end - offset) : (offset + 1) + i - 1 = offset + i
      BY <2>1
    <3> HIDE DEF got
    <3> QED
      BY <2>1, <3>1, <3>2, <3>3
  <2>5. DOMAIN got = 1 .. (end - offset)
    BY <2>4, LenProperties
  <2> HIDE DEF got
  <2> QED
    BY <1>2, <2>1, <2>2, <2>4, <2>5 DEF end
<1> QED
  BY <1>1, <1>2

\* Every read of a memory_fs file gives what the history of its writes and
\* truncations says (MemoryFs::write, setattr, read), for all offsets, sizes and
\* lengths of the history.
THEOREM DataReadAsWritten == DataInit /\ [][DataNext]_dataVars => []DataAsWritten
<1>1. DataInit => DataInv
  <2> SUFFICES ASSUME DataInit PROVE DataInv
    OBVIOUS
  <2>1. content = <<>> /\ edits = <<>> /\ Len(edits) = 0 /\ Len(content) = 0
    BY DEF DataInit
  <2>2. EndInv
    BY <2>1 DEF EndInv, LastSize, EndsSince, Sizes
  <2>3. BytesInv
    BY <2>1 DEF BytesInv, Wrote, Byte
  <2> QED
    BY <2>1, <2>2, <2>3 DEF DataInv
<1>2. DataInv /\ [DataNext]_dataVars => DataInv'
  <2> SUFFICES ASSUME DataInv, [DataNext]_dataVars PROVE DataInv'
    OBVIOUS
  <2>1. CASE UNCHANGED dataVars
    <3>1. content' = content /\ edits' = edits
      BY <2>1 DEF dataVars
    <3>2. EndInv'
      <4>1. \A s : LastSize(s)' = LastSize(s) /\ EndsSince(s)' = EndsSince(s)
        BY <3>1, Zenon DEF LastSize, EndsSince, Sizes
      <4> QED
        BY <3>1, <4>1, Zenon DEF DataInv, EndInv, IsLast
    <3>3. BytesInv'
      <4>1. \A p \in Nat : Wrote(p)' = Wrote(p) /\ Byte(p)' = Byte(p)
        BY <3>1 DEF Wrote, Byte
      <4> QED
        BY <3>1, <4>1 DEF DataInv, BytesInv, IsLast
    <3> QED
      BY <3>1, <3>2, <3>3 DEF DataInv
  <2>2. ASSUME NEW offset \in 0 .. MaxOffset, NEW n \in 1 .. MaxData,
               NEW data \in [1 .. n -> Bytes],
               Write(offset, data)
        PROVE  DataInv'
    <3>1. n \in Nat /\ n > 0 /\ data \in [1 .. n -> 1 .. 255]
      <4>1. n \in Nat /\ n > 0
        BY FileBounds
      <4>2. \A i \in 1 .. n : data[i] \in 1 .. 255
        BY FileBounds, Zenon
      <4> QED BY <4>1, <4>2
    <3>2. data \in Seq(1 .. 255) /\ Len(data) > 0
      BY <3>1
    <3> QED
      BY <2>2, <3>2, WriteInv
  <2>3. ASSUME NEW size \in 0 .. MaxOffset, SetSize(size) PROVE DataInv'
    BY <2>3, SetSizeInv
  <2> QED
    BY <2>1, <2>2, <2>3 DEF DataNext
<1>3. DataInv => DataAsWritten
  <2> SUFFICES ASSUME DataInv, NEW offset \in 0 .. MaxOffset + MaxData,
                      NEW size \in 1 .. MaxOffset + MaxData
               PROVE  LET bytes == read(content, offset, size)
                          end == Len(content)
                      IN  /\ Len(bytes) = IF offset >= end THEN 0
                                          ELSE IF offset + size < end THEN size ELSE end - offset
                          /\ \A i \in DOMAIN bytes : bytes[i] = ByteAt(offset + i - 1)
    BY EndIs DEF DataAsWritten
  <2> DEFINE bytes == read(content, offset, size)
  <2>1. offset \in Nat /\ size \in Nat \ {0} /\ content \in Seq(0 .. 255)
    BY FileBounds DEF DataInv
  <2>2. /\ Len(bytes) = IF offset >= Len(content) THEN 0
                        ELSE IF offset + size < Len(content) THEN size ELSE Len(content) - offset
        /\ \A i \in DOMAIN bytes : offset + i - 1 \in 0 .. (Len(content) - 1)
                                  /\ bytes[i] = content[offset + i]
    BY <2>1, ReadIs
  <2>3. ASSUME NEW i \in DOMAIN bytes PROVE bytes[i] = ByteAt(offset + i - 1)
    <3> DEFINE p == offset + i - 1
    <3>1. p \in 0 .. (Len(content) - 1) /\ bytes[i] = content[offset + i]
      BY <2>2
    <3>2. p \in Nat /\ p < Len(content)
      BY <2>1, <3>1
    <3>3. ByteAt(p) = content[p + 1]
      BY <3>2, ByteIs DEF Byte
    <3>4. p + 1 = offset + i
      BY <3>1
    <3> QED
      BY <3>1, <3>3, <3>4
  <2> QED
    BY <2>2, <2>3
<1> QED
  BY <1>1, <1>2, <1>3, PTL

------------------------------------------------------------------------------
(* Handle records: for any finite set of requests a HandleRecord keeps the   *)
(* promise of HandleOwnership. The inductive invariant is TypeOK /\          *)
(* Ownership, which ties the counter `active' to the set of leases and the   *)
(* release's place to the flags and the payload.                             *)

\* The inductive invariant of the record.
Inv == TypeOK /\ Ownership

\* Leases come from a finite set of users, so they can be counted.
LEMMA LeasedFinite == IsFiniteSet(Leased) /\ IsFiniteSet(Leased')
BY UsersFinite, FS_Subset DEF Leased

\* A counter that is zero means no lease, and the other way round.
LEMMA NoLease == Cardinality(Leased) = 0 <=> Leased = {}
BY LeasedFinite, FS_EmptySet

\* A new handle record has nobody around.
LEMMA InitInv == Init => Inv
<1> SUFFICES ASSUME Init PROVE Inv
  OBVIOUS
<1>1. Leased = {}
  BY DEF Init, Leased
<1>2. Cardinality(Leased) = 0
  BY <1>1, NoLease
<1> QED
  BY <1>2, Zenon DEF Init, Inv, TypeOK, Ownership

\* Taking a lease and dropping one move the counter with the set.
LEMMA AcquireInv == ASSUME Inv, NEW u \in Users, Acquire(u) PROVE Inv'
<1>1. CASE closing
  <2>1. Leased' = Leased
    BY <1>1 DEF Inv, TypeOK, Acquire, Leased
  <2> QED
    BY <1>1, <2>1 DEF Inv, TypeOK, Ownership, Acquire
<1>2. CASE ~closing
  <2>1. u \notin Leased /\ Leased' = Leased \cup {u}
    BY <1>2 DEF Inv, TypeOK, Acquire, Leased
  <2>2. Cardinality(Leased') = Cardinality(Leased) + 1
    BY <2>1, LeasedFinite, FS_AddElement
  <2> QED
    BY <1>2, <2>2 DEF Inv, TypeOK, Ownership, Acquire
<1> QED
  BY <1>1, <1>2 DEF Inv, TypeOK

\* HandleLease::drop: one lease less, counted.
LEMMA DropLeaseInv == ASSUME Inv, NEW u \in Users, DropLease(u) PROVE Inv'
<1>1. u \in Leased /\ Leased' = Leased \ {u}
  BY DEF Inv, TypeOK, DropLease, Leased
<1>2. Cardinality(Leased') = Cardinality(Leased) - 1
  BY <1>1, LeasedFinite, FS_RemoveElement
<1>3. active > 0
  BY <1>1, NoLease DEF Inv, TypeOK, Ownership
<1> QED
  BY <1>2, <1>3 DEF Inv, TypeOK, Ownership, DropLease

\* Every other step leaves the set of leases alone.
LEMMA OtherStepInv ==
    ASSUME Inv, [Next]_vars,
           \A u \in Users : ~Acquire(u) /\ ~DropLease(u)
    PROVE  Inv' /\ Leased' = Leased
<1>1. CASE Remove
  BY <1>1, Zenon DEF Inv, TypeOK, Ownership, Leased, Remove, state
<1>2. CASE Close
  BY <1>2, Zenon DEF Inv, TypeOK, Ownership, Leased, Close, WaitOrTake
<1>3. CASE SpuriousWakeup
  BY <1>3 DEF Inv, TypeOK, Ownership, Leased, SpuriousWakeup, state
<1>4. CASE Recheck
  BY <1>4, Zenon DEF Inv, TypeOK, Ownership, Leased, Recheck, WaitOrTake
<1>5. CASE Take
  BY <1>5 DEF Inv, TypeOK, Ownership, Leased, Take, state
<1>6. CASE Released
  BY <1>6 DEF Inv, TypeOK, Ownership, Leased, Released, DropRecord, state
<1>7. CASE DropTable
  BY <1>7, Zenon DEF Inv, TypeOK, Ownership, Leased, DropTable, DropRecord, state
<1>8. ASSUME NEW u \in Users, Fetch(u) PROVE Inv' /\ Leased' = Leased
  BY <1>8 DEF Inv, TypeOK, Ownership, Leased, Fetch, state
<1>9. ASSUME NEW u \in Users, DropArc(u) PROVE Inv' /\ Leased' = Leased
  <2>1. Leased' = Leased
    BY <1>9 DEF Inv, TypeOK, Leased, DropArc
  <2>2. taken \/ OthersOwn(u)
    BY <1>9 DEF Inv, TypeOK, Ownership, DropArc, OthersOwn
  <2>3. UNCHANGED payload
    BY <1>9, <2>2 DEF DropArc, DropRecord
  <2> QED
    BY <1>9, <2>1, <2>3 DEF Inv, TypeOK, Ownership, DropArc, state
<1>10. CASE UNCHANGED vars
  BY <1>10 DEF Inv, TypeOK, Ownership, Leased, vars
<1> QED
  BY <1>1, <1>2, <1>3, <1>4, <1>5, <1>6, <1>7, <1>8, <1>9, <1>10
     DEF Next, CloserStep, UserStep

\* Every step of a user or of the closer keeps the invariant.
LEMMA StepInv == Inv /\ [Next]_vars => Inv'
BY AcquireInv, DropLeaseInv, OtherStepInv

\* The invariant implies that a lease is valid: a payload that has left its
\* cell was taken with the counter at zero, or dropped with nobody around.
LEMMA InvLeaseIsValid == Inv => LeaseIsValid
BY NoLease DEF Inv, TypeOK, Ownership, LeaseIsValid, Leased

\* HandleLease::deref never sees a payload that was moved out or dropped,
\* however many requests race with the release.
THEOREM LeaseSafety == Spec => []LeaseIsValid
BY InitInv, StepInv, InvLeaseIsValid, PTL DEF Spec

\* The state keeps its types, and the flags, the counter and the payload agree
\* with where the requests and the release are.
THEOREM OwnershipHolds == Spec => [](TypeOK /\ Ownership)
<1>1. Inv <=> TypeOK /\ Ownership
  BY DEF Inv
<1> QED
  BY <1>1, InitInv, StepInv, PTL DEF Spec

------------------------------------------------------------------------------
(* Refinement.                                                               *)

\* A new record is an open handle nobody borrows.
LEMMA InitRefines == Init => Promise!Init
BY DEF Init, Promise!Init, phase, Leased

\* Every step is one the promise allows, or none it sees.
LEMMA StepRefines == Inv /\ Inv' /\ [Next]_vars => [Promise!Next]_Promise!vars
<1> SUFFICES ASSUME Inv, Inv', [Next]_vars PROVE [Promise!Next]_Promise!vars
  OBVIOUS
<1> USE DEF Promise!vars
<1>1. ASSUME NEW u \in Users, Acquire(u) PROVE Promise!Borrow(u) \/ UNCHANGED Promise!vars
  <2>1. CASE closing
    BY <1>1, <2>1 DEF Inv, TypeOK, Acquire, Leased, phase
  <2>2. CASE ~closing
    <3>1. u \notin Leased /\ Leased' = Leased \cup {u}
      BY <1>1, <2>2 DEF Inv, TypeOK, Acquire, Leased
    <3>2. payload = "held"
      BY <1>1, <2>2 DEF Inv, TypeOK, Ownership, Acquire
    <3> QED
      BY <1>1, <2>2, <3>1, <3>2 DEF Acquire, phase, Promise!Borrow
  <2> QED
    BY <2>1, <2>2 DEF Inv, TypeOK
<1>2. ASSUME NEW u \in Users, DropLease(u) PROVE Promise!Return(u)
  <2>1. u \in Leased /\ Leased' = Leased \ {u}
    BY <1>2 DEF Inv, TypeOK, DropLease, Leased
  <2> QED
    BY <1>2, <2>1 DEF DropLease, phase, Promise!Return
<1>4. CASE Close
  <2>1. Leased' = Leased
    BY <1>4 DEF Close, Leased
  <2>2. payload = "held" /\ ~closing /\ closing' /\ payload' = payload
    BY <1>4 DEF Inv, TypeOK, Ownership, Close
  <2> QED
    BY <2>1, <2>2 DEF phase, Promise!Close, Promise!Next
<1>5. CASE Take
  <2>1. Leased' = Leased
    BY <1>5 DEF Take, Leased, state
  <2>2. Leased = {} /\ payload = "held" /\ closing
    BY <1>5, NoLease DEF Inv, TypeOK, Ownership, Take
  <2>3. payload' = "moved"
    BY <1>5 DEF Take
  <2> QED
    BY <2>1, <2>2, <2>3 DEF phase, Promise!Consume, Promise!Next
<1>6. CASE DropTable
  <2>1. Leased = {} /\ Leased' = {}
    BY <1>6 DEF DropTable, Leased
  <2>2. payload = "held" /\ ~closing /\ payload' = "dropped"
    BY <1>6 DEF Inv, TypeOK, Ownership, DropTable, DropRecord
  <2> QED
    BY <2>1, <2>2 DEF phase, Promise!Discard, Promise!Next
<1>7. CASE Remove \/ SpuriousWakeup \/ Recheck \/ Released
          \/ (\E u \in Users : Fetch(u) \/ DropArc(u)) \/ UNCHANGED vars
  <2>1. Leased' = Leased
    <3>1. \A u \in Users : user[u] = "leased" <=> user'[u] = "leased"
      BY <1>7 DEF Inv, TypeOK, Remove, SpuriousWakeup, Recheck, Released,
                  Fetch, DropArc, vars, state
    <3> QED
      BY <3>1 DEF Leased
  <2>2. closing' = closing
    BY <1>7 DEF Remove, SpuriousWakeup, Recheck, Released, Fetch, DropArc, vars, state
  <2>3. payload' = payload
    <3>1. ASSUME NEW u \in Users, DropArc(u) PROVE payload' = payload
      BY <3>1 DEF Inv, TypeOK, Ownership, DropArc, OthersOwn, DropRecord
    <3> QED
      BY <1>7, <3>1 DEF Inv, TypeOK, Ownership, Remove, SpuriousWakeup, Recheck,
                        Released, DropRecord, Fetch, vars
  <2> QED
    BY <2>1, <2>2, <2>3 DEF phase
<1> QED
  BY <1>1, <1>2, <1>4, <1>5, <1>6, <1>7 DEF Next, CloserStep, UserStep, Promise!Next

\* A HandleRecord implements HandleOwnership: with any number of requests the
\* payload is lent only while the handle is open and leaves its owner once.
THEOREM RecordRefinesPromise == Spec => ImplementsOwnership
BY InitInv, StepInv, InitRefines, StepRefines, PTL
   DEF Spec, Promise!Spec, ImplementsOwnership

\* A payload that has been moved out or dropped never leaves a second time.
THEOREM LeavesOnce == Spec => PayloadLeavesOnce
<1>1. Inv /\ [Next]_vars => [payload # "held" => UNCHANGED payload]_payload
  <2> SUFFICES ASSUME Inv, [Next]_vars, payload # "held" PROVE UNCHANGED payload
    OBVIOUS
  <2>1. ASSUME NEW u \in Users, DropArc(u) PROVE UNCHANGED payload
    BY <2>1 DEF Inv, TypeOK, Ownership, DropArc, OthersOwn, DropRecord
  <2> QED
    BY <2>1 DEF Inv, TypeOK, Ownership, Next, vars, CloserStep, UserStep, Remove, Close, Recheck,
           Take, Released, SpuriousWakeup, DropTable, DropRecord, Fetch, Acquire, DropLease
<1> QED
  BY <1>1, InitInv, StepInv, PTL DEF Spec, PayloadLeavesOnce

------------------------------------------------------------------------------
(* The operations lock.                                                      *)

\* The lock's own account of who holds it, and how, is that of the callbacks:
\* those inside hold it, those that change names exclusively.
OpsInv ==
    /\ pc \in [Clients -> {"idle", "queued", "enter", "inside"}]
    /\ op \in [Clients -> Ops \cup {"none", "unlock"}]
    /\ readers \subseteq Clients /\ writer \subseteq Clients
    /\ \A c \in Clients : pc[c] = "inside" <=> c \in readers \cup writer
    /\ \A c \in readers : op[c] # "change"
    /\ \A c \in writer : op[c] = "change" /\ readers = {} /\ writer = {c}

\* Nobody holds the lock at first.
LEMMA OpsInitInv == OpsInit => OpsInv
BY DEF OpsInit, OpsInv

\* A callback that returns lets go of what it held.
LEMMA ReturnInv ==
    ASSUME OpsInv, NEW c \in Clients, Return(c) PROVE OpsInv'
BY DEF OpsInv, Return, Unguarded, Goto

\* Every step keeps the account: a guard is taken where the lock allows it and
\* given back by the one who holds it.
LEMMA OpsStepInv == OpsInv /\ [OpsNext]_opsVars => OpsInv'
<1> SUFFICES ASSUME OpsInv, [OpsNext]_opsVars PROVE OpsInv'
  OBVIOUS
<1>1. CASE UNCHANGED opsVars
  BY <1>1 DEF OpsInv, opsVars
<1>2. ASSUME NEW c \in Clients, NEW o \in Ops, Send(c, o) PROVE OpsInv'
  BY <1>2 DEF OpsInv, Send, Goto
<1>3. ASSUME NEW c \in Clients, SendUnlock(c) PROVE OpsInv'
  BY <1>3 DEF OpsInv, SendUnlock, Goto
<1>4. ASSUME NEW c \in Clients, Serve(c) PROVE OpsInv'
  <2>1. CASE Dispatch(c)
    BY <2>1 DEF OpsInv, Dispatch, Goto
  <2>2. CASE ReadLock(c)
    BY <2>2 DEF OpsInv, ReadLock, Exclusively, Goto
  <2>3. CASE WriteLock(c)
    BY <2>3 DEF OpsInv, WriteLock, Exclusively, Goto
  <2>4. CASE Done(c) \/ SetlkGranted(c) \/ SetlkRefused(c) \/ Unlocked(c)
    BY <2>4, ReturnInv DEF Done, SetlkGranted, SetlkRefused, Unlocked
  <2> QED
    BY <1>4, <2>1, <2>2, <2>3, <2>4 DEF Serve
<1> QED
  BY <1>1, <1>2, <1>3, <1>4 DEF OpsNext

\* No callback runs beside one that changes names: rename, unlink and the others
\* that call write_lock have the filesystem to themselves.
THEOREM ChangesExclude == OpsSpec => []ChangesAlone
<1>1. OpsInv => ChangesAlone
  BY DEF OpsInv, ChangesAlone
<1> QED
  BY OpsInitInv, OpsStepInv, <1>1, PTL DEF OpsSpec

==============================================================================
