------------------------------- MODULE FileData -------------------------------
(***************************************************************************)
(* The bytes of a memory_fs file: write and setattr with a size change the  *)
(* Vec under the node's lock, read copies a part of it. The reference is    *)
(* the history of the changes: what POSIX says a byte is after them.        *)
(***************************************************************************)
EXTENDS Integers, Sequences

CONSTANTS
    Bytes,          \* byte values a writer uses, 0 not among them
    MaxOffset,      \* bound: largest offset written at, and size set
    MaxData,        \* bound: longest write
    MaxEdits        \* bound: changes of the file

ASSUME FileBounds ==
    /\ Bytes \subseteq 1 .. 255
    /\ MaxOffset \in Nat /\ MaxData \in Nat /\ MaxEdits \in Nat

VARIABLES
    content,    \* Content::File
    edits       \* the changes so far (history)

dataVars == <<content, edits>>

------------------------------------------------------------------------------
\* Vec::resize(size, 0).
resize(bytes, size) == [i \in 1 .. size |-> IF i <= Len(bytes) THEN bytes[i] ELSE 0]

\* Mutated forms, here and below: a definition as a bug would have it. Nothing
\* uses them but the experiments that show the properties notice such a bug.
Written_FromOffset(bytes, offset, data) ==
    LET end == offset + Len(data)
        room == resize(bytes, end)
    IN  [i \in DOMAIN room |-> IF i \in (offset + 1) .. end THEN data[i - offset] ELSE room[i]]

\* MemoryFs::write: longer if need be, then the slice is overwritten.
Written(bytes, offset, data) ==
    LET end == offset + Len(data)
        room == IF end > Len(bytes) THEN resize(bytes, end) ELSE bytes
    IN  [i \in DOMAIN room |-> IF i \in (offset + 1) .. end THEN data[i - offset] ELSE room[i]]

\* MemoryFs::read.
read(bytes, offset, size) ==
    IF offset >= Len(bytes) THEN <<>>
    ELSE LET end == IF offset + size < Len(bytes) THEN offset + size ELSE Len(bytes)
         IN  SubSeq(bytes, offset + 1, end)

------------------------------------------------------------------------------
DataInit ==
    /\ content = <<>>
    /\ edits = <<>>

Write(offset, data) ==
    /\ Len(edits) < MaxEdits
    /\ content' = Written(content, offset, data)
    /\ edits' = Append(edits, [op |-> "write", at |-> offset, data |-> data])

\* The part of MemoryFs::setattr that sets the size.
SetSize(size) ==
    /\ Len(edits) < MaxEdits
    /\ content' = resize(content, size)
    /\ edits' = Append(edits, [op |-> "size", at |-> size, data |-> <<>>])

\* The kernel sends no write without data.
DataNext ==
    \/ \E offset \in 0 .. MaxOffset : \E n \in 1 .. MaxData : \E data \in [1 .. n -> Bytes] :
           Write(offset, data)
    \/ \E size \in 0 .. MaxOffset : SetSize(size)

------------------------------------------------------------------------------
\* The end of the file after the first k changes: where the last size that was
\* set put it, or beyond, where a write since then ended.
EndAfter(k) ==
    LET sizes == {i \in 1 .. k : edits[i].op = "size"}
        since == IF sizes = {} THEN 0 ELSE CHOOSE i \in sizes : \A j \in sizes : j <= i
        ends == {edits[i].at + Len(edits[i].data) : i \in {i \in 1 .. k : i >= since /\ i > 0}}
    IN  IF ends = {} THEN 0 ELSE CHOOSE e \in ends : \A f \in ends : f <= e

\* The byte at a position: of the last write there, unless the file was cut
\* before that position since; 0 if there is none.
ByteAt(p) ==
    LET wrote == {i \in DOMAIN edits :
                      /\ edits[i].op = "write"
                      /\ p \in edits[i].at .. (edits[i].at + Len(edits[i].data) - 1)
                      /\ \A j \in DOMAIN edits : j > i /\ edits[j].op = "size" => p < edits[j].at}
        last == CHOOSE i \in wrote : \A j \in wrote : j <= i
    IN  IF wrote = {} THEN 0 ELSE edits[last].data[p - edits[last].at + 1]

\* Every read gives the bytes last written there and not cut off since, zeros
\* where nothing was written, and ends where the file does: a file that is cut
\* and grows again does not show what was cut off, and a write inside it does
\* not shorten it.
DataAsWritten ==
    LET end == EndAfter(Len(edits))
    IN  \A offset \in 0 .. MaxOffset + MaxData : \A size \in 1 .. MaxOffset + MaxData :
            LET bytes == read(content, offset, size)
            IN  /\ Len(bytes) = IF offset >= end THEN 0
                                ELSE IF offset + size < end THEN size ELSE end - offset
                /\ \A i \in DOMAIN bytes : bytes[i] = ByteAt(offset + i - 1)

==============================================================================
