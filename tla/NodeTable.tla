------------------------------ MODULE NodeTable ------------------------------
(***************************************************************************)
(* The inode table of typed-fuse-core/src/runtime.rs: NodeTable, its Slots  *)
(* and the bookkeeping that Cx, NodeRef and Runtime do under its mutex.     *)
(*                                                                         *)
(* Every operator below is the effect of ONE critical section of that       *)
(* mutex, as a function from table value to table value; the specifications *)
(* that use a table turn each of them into (part of) one atomic step.       *)
(*                                                                         *)
(* A node's payload (the Arc<NodeRecord>) is represented by its identity,   *)
(* a positive integer that no two insertions share. The `parent' of a Slot  *)
(* is left out: it is only reported, as the `..' of a listing.              *)
(***************************************************************************)
EXTENDS Integers, Sequences

ROOT == 1

\* The four retention counts of a Slot.
Counts == {"links", "lookups", "opens", "leases"}

Slot == [record : Nat, generation : Nat, count : [Counts -> Nat]]

FreeEntry == [ino : Nat, generation : Nat]

\* A slot as Cx::insert and Runtime::new create it: one link, nothing else.
NewSlot(record, generation) ==
    [record |-> record, generation |-> generation,
     count |-> [c \in Counts |-> IF c = "links" THEN 1 ELSE 0]]

\* NodeTable::new followed by the insertion of the root in Runtime::new.
NewTable ==
    [map |-> [i \in {ROOT} |-> NewSlot(1, 0)], next_ino |-> 2, free |-> <<>>]

\* Mutated forms, here and below: a definition as a bug would have it. Nothing
\* uses them but the experiments that show the properties notice such a bug.
Droppable_IgnoresLeases(slot) == \A c \in Counts \ {"leases"} : slot.count[c] = 0

Droppable_IgnoresOpens(slot) == \A c \in Counts \ {"opens"} : slot.count[c] = 0

Droppable_IgnoresLinks(slot) == \A c \in Counts \ {"links"} : slot.count[c] = 0

Droppable(slot) == \A c \in Counts : slot.count[c] = 0

\* Cx::contains.
Contains(t, ino) == ino \in DOMAIN t.map

------------------------------------------------------------------------------
\* NodeTable::alloc: the last freed number with its bumped generation, or a
\* number never used before.
Alloc(t) ==
    IF t.free = <<>> THEN [ino |-> t.next_ino, generation |-> 0]
                     ELSE t.free[Len(t.free)]

\* Cx::insert.
Insert(t, record) ==
    LET a == Alloc(t)
    IN  [map      |-> [i \in DOMAIN t.map \cup {a.ino} |->
                          IF i = a.ino THEN NewSlot(record, a.generation)
                                       ELSE t.map[i]],
         next_ino |-> IF t.free = <<>> THEN t.next_ino + 1 ELSE t.next_ino,
         free     |-> IF t.free = <<>> THEN t.free ELSE SubSeq(t.free, 1, Len(t.free) - 1)]

MaybeDrop_SameGeneration(t, ino) ==
    IF Contains(t, ino) /\ Droppable(t.map[ino])
    THEN [map      |-> [i \in DOMAIN t.map \ {ino} |-> t.map[i]],
          next_ino |-> t.next_ino,
          free     |-> Append(t.free, [ino |-> ino, generation |-> t.map[ino].generation])]
    ELSE t

\* NodeTable::maybe_drop.
MaybeDrop(t, ino) ==
    IF Contains(t, ino) /\ Droppable(t.map[ino])
    THEN [map      |-> [i \in DOMAIN t.map \ {ino} |-> t.map[i]],
          next_ino |-> t.next_ino,
          free     |-> Append(t.free, [ino |-> ino,
                                       generation |-> t.map[ino].generation + 1])]
    ELSE t

\* The checked_add(1) of a count, and its saturating_sub(n).
Inc(t, ino, c) == [t EXCEPT !.map[ino].count[c] = @ + 1]

Dec(t, ino, c, n) ==
    IF Contains(t, ino) THEN [t EXCEPT !.map[ino].count[c] = IF @ > n THEN @ - n ELSE 0]
                        ELSE t

------------------------------------------------------------------------------
\* Cx::get of a live node: the NodeRef it returns holds a lease.
Get(t, ino) == Inc(t, ino, "leases")

DropRef_KeepsLease(t, ino, record) == MaybeDrop(t, ino)

\* Drop for NodeRef: the lease goes back only if the slot still holds the very
\* record that was leased; the slot is then examined for reclamation.
DropRef(t, ino, record) ==
    MaybeDrop(IF Contains(t, ino) /\ t.map[ino].record = record
              THEN Dec(t, ino, "leases", 1) ELSE t, ino)

AddLink(t, ino) == IF Contains(t, ino) THEN Inc(t, ino, "links") ELSE t

RemoveLink_NoReclaim(t, ino) == Dec(t, ino, "links", 1)

RemoveLink(t, ino) == MaybeDrop(Dec(t, ino, "links", 1), ino)

\* Runtime::retain_lookup, and the last critical section of Runtime::entry_for.
RetainLookup(t, ino) == Inc(t, ino, "lookups")

\* Runtime::add_open and Runtime::remove_open.
AddOpen(t, ino) == Inc(t, ino, "opens")

RemoveOpen(t, ino) == MaybeDrop(Dec(t, ino, "opens", 1), ino)

ForgetsLast_OffByOne(t, ino, n) ==
    LET before == t.map[ino].count["lookups"]
    IN  before # 0 /\ before < n

\* The first critical section of Runtime::forget: whether this call takes the
\* lookup count from positive to zero, and the table afterwards. When it does,
\* a lease is taken in the same section, for the fs.forget callback.
ForgetsLast(t, ino, n) ==
    LET before == t.map[ino].count["lookups"]
    IN  before # 0 /\ before <= n

ForgetLookups(t, ino, n) ==
    IF ForgetsLast(t, ino, n) THEN Get(Dec(t, ino, "lookups", n), ino)
                              ELSE Dec(t, ino, "lookups", n)

==============================================================================
