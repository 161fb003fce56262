------------------------------ MODULE XattrRead ------------------------------
(***************************************************************************)
(* Reading an extended attribute while others change it. The kernel asks    *)
(* with the size of the caller's buffer, 0 to learn the length. memory_fs   *)
(* answers from its map under the node's lock. A filesystem on the          *)
(* passthrough helpers reads the backing file's attribute with              *)
(* getxattr_value_nofollow, two system calls with time between them, and    *)
(* applies XattrReply::sized. The trampoline's reply_xattr checks what      *)
(* comes back against the size of the request once more.                    *)
(*                                                                         *)
(* External, the operating system's lgetxattr: it gives the length when it  *)
(* has no buffer, and ERANGE when the value is longer than the buffer. A    *)
(* value is a sequence of bytes.                                            *)
(***************************************************************************)
EXTENDS Integers, Sequences

CONSTANTS
    XattrValues,    \* values a writer sets
    MaxSize,        \* bound: largest buffer a caller offers
    MaxChanges      \* bound: changes of the attribute while one request runs

ASSUME XattrBounds ==
    MaxSize \in Nat /\ MaxChanges \in Nat /\ \A v \in XattrValues : v \in Seq(1 .. 255)

VARIABLES
    backend,    \* "memory" or "passthrough"
    xattr,      \* the attribute: {} or a set of one value
    call,       \* the request in progress, or its answer
    held        \* what the attribute was, at each time since the request came

xattrVars == <<backend, xattr, call, held>>

Quiet == [pc |-> "quiet", size |-> 0, probed |-> 0, answer |-> [kind |-> "none"]]

Size(n) == [kind |-> "Size", len |-> n]
Data(v) == [kind |-> "Data", data |-> v]
Err(e) == [kind |-> "Err", errno |-> e]

------------------------------------------------------------------------------
\* XattrReply::sized.
sized(data, size) ==
    CASE size = 0                       -> Size(Len(data))
      [] size # 0 /\ Len(data) > size   -> Err("ERANGE")
      [] OTHER                          -> Data(data)

\* MemoryFs::getxattr.
MemoryGetxattr(value, size) ==
    CASE value = {}                 -> Err("ENODATA")
      [] value # {} /\ size = 0     -> Size(Len(CHOOSE v \in value : TRUE))
      [] OTHER                      -> Data(CHOOSE v \in value : TRUE)

\* Mutated forms, here and below: a definition as a bug would have it. Nothing
\* uses them but the experiments that show the properties notice such a bug.
Truncated_Never(buf, len) == buf

\* value.truncate(len), which never lengthens.
Truncated(buf, len) == IF len < Len(buf) THEN SubSeq(buf, 1, len) ELSE buf

\* The second half of getxattr_value_nofollow: lgetxattr fills a buffer of
\* `room' zeros, or is only asked for the length when there is no room.
Fetched(value, room) ==
    IF value = {} THEN Err("ENODATA")
    ELSE LET v == CHOOSE v \in value : TRUE
         IN  CASE room = 0                   -> Data(Truncated(<<>>, Len(v)))
               [] room # 0 /\ Len(v) > room  -> Err("ERANGE")
               [] OTHER -> Data(Truncated([i \in 1 .. room |->
                                            IF i <= Len(v) THEN v[i] ELSE 0], Len(v)))

\* reply_xattr.
reply_xattr(reply, size) ==
    CASE reply.kind = "Size" /\ size = 0                    -> reply
      [] reply.kind = "Size" /\ size # 0                    -> Err("EIO")
      [] reply.kind = "Data" /\ size = 0                    -> Size(Len(reply.data))
      [] reply.kind = "Data" /\ size # 0 /\ Len(reply.data) > size -> Err("ERANGE")
      [] OTHER                                              -> reply

------------------------------------------------------------------------------
XattrInit ==
    /\ backend \in {"memory", "passthrough"}
    /\ xattr = {}
    /\ call = Quiet
    /\ held = <<>>

\* setxattr and removexattr, by another thread, or of the backing file.
ChangeXattr ==
    /\ call.pc = "probed" => Len(held) <= MaxChanges
    /\ xattr' \in {{}} \cup {{v} : v \in XattrValues}
    /\ xattr' # xattr
    /\ held' = IF call.pc = "probed" THEN Append(held, xattr') ELSE <<>>
    /\ call' = IF call.pc = "probed" THEN call ELSE Quiet
    /\ UNCHANGED backend

\* A getxattr request: memory_fs holds the lock and answers at once, the other
\* makes its first system call.
Getxattr(size) ==
    /\ call.pc = "quiet"
    /\ held' = <<xattr>>
    /\ LET reply == MemoryGetxattr(xattr, size)
           done(r) == [Quiet EXCEPT !.pc = "answered", !.size = size,
                                    !.answer = reply_xattr(r, size)]
       IN  call' = CASE backend = "memory" \/ xattr = {} -> done(reply)
                     [] OTHER -> [Quiet EXCEPT !.pc = "probed", !.size = size,
                                               !.probed = Len(CHOOSE v \in xattr : TRUE)]
    /\ UNCHANGED <<backend, xattr>>

\* The second system call, sized and the reply.
FetchXattr ==
    /\ call.pc = "probed"
    /\ LET value == Fetched(xattr, call.probed)
           reply == IF value.kind = "Err" THEN value ELSE sized(value.data, call.size)
       IN  call' = [call EXCEPT !.pc = "answered", !.answer = reply_xattr(reply, call.size)]
    /\ UNCHANGED <<backend, xattr, held>>

XattrNext == ChangeXattr \/ FetchXattr \/ \E size \in 0 .. MaxSize : Getxattr(size)

------------------------------------------------------------------------------
\* The caller gets a whole value that the attribute had while the request ran,
\* and that fits its buffer, or the length of one, whatever changed between the
\* two system calls: never a value that is cut short, padded or mixed. It is
\* told ENODATA only if the attribute was absent, and ERANGE only if a value was
\* longer than its buffer or grew meanwhile.
XattrWhole ==
    LET were == {held[i] : i \in DOMAIN held}
        values == UNION were
        a == call.answer
    IN  call.pc = "answered" =>
            CASE a.kind = "Data" -> a.data \in values /\ Len(a.data) <= call.size
              [] a.kind = "Size" -> call.size = 0 /\ \E v \in values : Len(v) = a.len
              [] a.kind = "Err" /\ a.errno = "ENODATA" -> {} \in were
              [] OTHER -> /\ a.errno = "ERANGE"
                          /\ \/ call.size > 0 /\ \E v \in values : Len(v) > call.size
                             \/ \E i, j \in DOMAIN held : \E v \in held[i], w \in held[j] :
                                    i < j /\ Len(v) < Len(w)

==============================================================================
