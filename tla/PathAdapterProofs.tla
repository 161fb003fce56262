-------------------------- MODULE PathAdapterProofs --------------------------
(***************************************************************************)
(* For any number of threads, names, objects and nodes: as long as the      *)
(* names the adapter knows agree with the filesystem, the two maps of the   *)
(* namespace are inverse to each other and every node's link count is the   *)
(* number of its names. The agreement is needed by link alone, which adds   *)
(* an alias without asking whether the dentry names another node already.   *)
(***************************************************************************)
EXTENDS PathAdapter, NodeTableProofs

\* The dentries that lead to number i, and the link a node has without one:
\* the root's.
NamesOf(n, i) == {d \in DOMAIN n.by_name : n.by_name[d] = i}

Own(i) == IF i = ROOT THEN 1 ELSE 0

\* A namespace whose two maps are inverse to each other.
Paired(n) ==
    /\ n = [by_name |-> n.by_name, aliases |-> n.aliases, keys |-> n.keys]
    /\ IsFiniteSet(DOMAIN n.by_name)
    /\ \A d \in DOMAIN n.by_name : <<n.by_name[d], d>> \in n.aliases
    /\ \A a \in n.aliases :
          a = <<a[1], a[2]>> /\ a[2] \in DOMAIN n.by_name /\ n.by_name[a[2]] = a[1]

\* Every name leads to a live node, and the nodes' links are their names. The
\* root's own link keeps it.
Linked(t, n) ==
    /\ ROOT \in DOMAIN t.map
    /\ \A d \in DOMAIN n.by_name : n.by_name[d] \in DOMAIN t.map
    /\ \A i \in DOMAIN t.map :
          t.map[i].count["links"] = Cardinality(NamesOf(n, i)) + Own(i)

\* A table into which k nodes have been inserted.
Filled(t, k) == Typed(t) /\ \E b : Len(b) = k /\ Accounted(t, b)

InStep(t, n, k) == Filled(t, k) /\ Paired(n) /\ Linked(t, n)

\* n2 is n with the name d, of number e, or without it.
NamedMore(n, n2, e, d) ==
    /\ Paired(n2)
    /\ DOMAIN n2.by_name = DOMAIN n.by_name \cup {d} /\ n2.by_name[d] = e
    /\ \A x \in DOMAIN n.by_name : n2.by_name[x] = n.by_name[x]
    /\ Cardinality(NamesOf(n2, e)) = Cardinality(NamesOf(n, e)) + 1
    /\ \A i : i # e => NamesOf(n2, i) = NamesOf(n, i)

NamedLess(n, n2, e, d) ==
    /\ Paired(n2)
    /\ DOMAIN n2.by_name = DOMAIN n.by_name \ {d}
    /\ \A x \in DOMAIN n2.by_name : n2.by_name[x] = n.by_name[x]
    /\ Cardinality(NamesOf(n2, e)) = Cardinality(NamesOf(n, e)) - 1
    /\ Cardinality(NamesOf(n, e)) \in Nat \ {0}
    /\ \A i : i # e => NamesOf(n2, i) = NamesOf(n, i)

------------------------------------------------------------------------------
(* What the operations of the table and of the namespace keep.               *)

\* A table that differs in a count other than the links.
LEMMA RecountInStep ==
    ASSUME NEW t, NEW n, NEW k, InStep(t, n, k), NEW t2, Typed(t2), NEW e, Recounted(t, t2, e),
           e \in DOMAIN t.map => t2.map[e].count["links"] = t.map[e].count["links"]
    PROVE  InStep(t2, n, k)
<1>1. PICK b : Len(b) = k /\ Accounted(t, b)
  BY DEF InStep, Filled
<1>2. Accounted(t2, b)
  BY <1>1, RecountedAccounted
<1>3. Linked(t2, n)
  BY DEF InStep, Linked, Recounted
<1> QED
  BY <1>1, <1>2, <1>3 DEF InStep, Filled

\* A count of no slot is no count.
LEMMA IncOutside ==
    ASSUME NEW t, Typed(t), NEW e, e \notin DOMAIN t.map, NEW c
    PROVE  Inc(t, e, c) = t
<1>1. [t.map EXCEPT ![e] = [t.map[e] EXCEPT !.count = [t.map[e].count EXCEPT ![c] = @ + 1]]] = t.map
  BY DEF Typed
<1> QED
  BY <1>1 DEF Inc, Typed

\* get, retain_lookup and add_open.
LEMMA IncInStep ==
    ASSUME NEW t, NEW n, NEW k, InStep(t, n, k), NEW e, NEW c \in Counts \ {"links"}
    PROVE  InStep(Inc(t, e, c), n, k)
<1>1. CASE e \in DOMAIN t.map
  BY <1>1, IncCounts, RecountInStep DEF InStep, Filled, Counts
<1>2. CASE e \notin DOMAIN t.map
  BY <1>2, IncOutside DEF InStep, Filled
<1> QED
  BY <1>1, <1>2

\* The return of leases, lookups and opens.
LEMMA DecInStep ==
    ASSUME NEW t, NEW n, NEW k, InStep(t, n, k), NEW e, NEW c \in Counts \ {"links"},
           NEW x \in Nat
    PROVE  InStep(Dec(t, e, c, x), n, k)
<1>1. CASE e \in DOMAIN t.map
  BY <1>1, DecCounts, RecountInStep, Zenon DEF InStep, Filled, Counts
<1>2. CASE e \notin DOMAIN t.map
  <2>1. Dec(t, e, c, x) = t
    BY <1>2 DEF Dec, Contains
  <2> QED
    BY <2>1
<1> QED
  BY <1>1, <1>2

\* A node that maybe_drop reclaims has no name.
LEMMA MaybeDropInStep ==
    ASSUME NEW t, NEW n, NEW k, InStep(t, n, k), NEW e
    PROVE  InStep(MaybeDrop(t, e), n, k)
<1>1. PICK b : Len(b) = k /\ Accounted(t, b)
  BY DEF InStep, Filled
<1>2. /\ Typed(MaybeDrop(t, e)) /\ Accounted(MaybeDrop(t, e), b)
      /\ \A i \in DOMAIN MaybeDrop(t, e).map :
            i \in DOMAIN t.map /\ MaybeDrop(t, e).map[i] = t.map[i]
      /\ \A i \in DOMAIN t.map :
            i \in DOMAIN MaybeDrop(t, e).map \/ (i = e /\ Droppable(t.map[e]))
  <2>1. Typed(t) /\ Accounted(t, b)
    BY <1>1 DEF InStep, Filled
  <2>2. Typed(MaybeDrop(t, e)) /\ Accounted(MaybeDrop(t, e), b)
    BY <2>1, MaybeDropAccounted
  <2>3. \A i \in DOMAIN MaybeDrop(t, e).map :
           i \in DOMAIN t.map /\ MaybeDrop(t, e).map[i] = t.map[i]
    BY DEF MaybeDrop, Contains
  <2>4. \A i \in DOMAIN t.map :
           i \in DOMAIN MaybeDrop(t, e).map \/ (i = e /\ Droppable(t.map[e]))
    BY <2>1, MaybeDropAccounted, Zenon
  <2> QED
    BY <2>2, <2>3, <2>4
<1>3. ASSUME NEW d \in DOMAIN n.by_name PROVE n.by_name[d] \in DOMAIN MaybeDrop(t, e).map
  <2> SUFFICES ASSUME n.by_name[d] = e, Droppable(t.map[e]), e \in DOMAIN t.map PROVE FALSE
    BY <1>2 DEF InStep, Linked
  <2>1. IsFiniteSet(NamesOf(n, e)) /\ d \in NamesOf(n, e)
    BY FS_Subset DEF NamesOf, InStep, Paired
  <2>2. Cardinality(NamesOf(n, e)) \in Nat /\ Cardinality(NamesOf(n, e)) # 0
    BY <2>1, FS_CardinalityType, FS_EmptySet
  <2>3. t.map[e].count["links"] = 0
    BY DEF Droppable, Counts
  <2> QED
    BY <2>2, <2>3 DEF InStep, Linked, Own
<1>4. ROOT \in DOMAIN MaybeDrop(t, e).map
  <2>1. Cardinality(NamesOf(n, ROOT)) \in Nat
    BY FS_Subset, FS_CardinalityType DEF NamesOf, InStep, Paired
  <2>2. t.map[ROOT].count["links"] # 0
    BY <2>1 DEF InStep, Linked, Own
  <2> QED
    BY <1>2, <2>2 DEF Droppable, Counts, InStep, Linked
<1>5. Linked(MaybeDrop(t, e), n)
  BY <1>2, <1>3, <1>4 DEF InStep, Linked
<1> QED
  BY <1>1, <1>2, <1>5 DEF InStep, Filled

\* Drop for NodeRef.
LEMMA DropRefInStep ==
    ASSUME NEW t, NEW n, NEW k, InStep(t, n, k), NEW e, NEW r
    PROVE  InStep(DropRef(t, e, r), n, k)
BY DecInStep, MaybeDropInStep DEF DropRef, Counts

\* The first critical section of forget.
LEMMA ForgetInStep ==
    ASSUME NEW t, NEW n, NEW k, InStep(t, n, k), NEW e, NEW x \in Nat
    PROVE  InStep(ForgetLookups(t, e, x), n, k)
BY DecInStep, IncInStep DEF ForgetLookups, Get, Counts

\* Namespace::add_alias of a dentry that names nothing yet.
LEMMA AddAliasNames ==
    ASSUME NEW n, Paired(n), NEW e, NEW d, ~Knows(n, d)
    PROVE  NamedMore(n, add_alias(n, e, d), e, d)
<1> DEFINE n2 == add_alias(n, e, d)
<1>1. /\ n2 = [by_name |-> n2.by_name, aliases |-> n2.aliases, keys |-> n2.keys]
      /\ n2.by_name = [x \in DOMAIN n.by_name \cup {d} |-> IF x = d THEN e ELSE n.by_name[x]]
      /\ n2.aliases = n.aliases \cup {<<e, d>>}
  BY DEF add_alias, Paired
<1>2. d \notin DOMAIN n.by_name
  BY DEF Knows
<1> HIDE DEF n2
<1>3. /\ DOMAIN n2.by_name = DOMAIN n.by_name \cup {d} /\ n2.by_name[d] = e
      /\ \A x \in DOMAIN n.by_name : n2.by_name[x] = n.by_name[x]
  BY <1>1, <1>2
<1>4. IsFiniteSet(DOMAIN n2.by_name)
  BY <1>3, FS_AddElement DEF Paired
<1>5. \A a \in n2.aliases :
         a = <<a[1], a[2]>> /\ a[2] \in DOMAIN n2.by_name /\ n2.by_name[a[2]] = a[1]
  BY <1>1, <1>3 DEF Paired
<1>6. Paired(n2)
  BY <1>1, <1>3, <1>4, <1>5 DEF Paired
<1>7. NamesOf(n2, e) = NamesOf(n, e) \cup {d} /\ d \notin NamesOf(n, e)
  BY <1>2, <1>3 DEF NamesOf
<1>8. IsFiniteSet(NamesOf(n, e))
  BY FS_Subset DEF NamesOf, Paired
<1>9. Cardinality(NamesOf(n2, e)) = Cardinality(NamesOf(n, e)) + 1
  BY <1>7, <1>8, FS_AddElement
<1>10. \A i : i # e => NamesOf(n2, i) = NamesOf(n, i)
  BY <1>2, <1>3 DEF NamesOf
<1> QED
  BY <1>3, <1>6, <1>9, <1>10 DEF NamedMore, n2

\* Namespace::remove of a dentry it knows.
LEMMA RemoveNames ==
    ASSUME NEW n, Paired(n), NEW d, Knows(n, d)
    PROVE  NamedLess(n, remove(n, d), n.by_name[d], d)
<1> DEFINE n2 == remove(n, d)
           e  == n.by_name[d]
<1>1. /\ n2 = [by_name |-> n2.by_name, aliases |-> n2.aliases, keys |-> n2.keys]
      /\ n2.by_name = [x \in DOMAIN n.by_name \ {d} |-> n.by_name[x]]
      /\ n2.aliases = n.aliases \ {<<e, d>>}
  BY DEF remove, Paired
<1>2. d \in DOMAIN n.by_name
  BY DEF Knows
<1> HIDE DEF n2
<1>3. /\ DOMAIN n2.by_name = DOMAIN n.by_name \ {d}
      /\ \A x \in DOMAIN n2.by_name : n2.by_name[x] = n.by_name[x]
  BY <1>1
<1>4. IsFiniteSet(DOMAIN n2.by_name)
  BY <1>3, FS_Subset DEF Paired
<1>5. \A x \in DOMAIN n2.by_name : <<n2.by_name[x], x>> \in n2.aliases
  BY <1>1, <1>3 DEF Paired
<1>6. \A a \in n2.aliases :
         a = <<a[1], a[2]>> /\ a[2] \in DOMAIN n2.by_name /\ n2.by_name[a[2]] = a[1]
  BY <1>1, <1>3 DEF Paired
<1>7. Paired(n2)
  BY <1>1, <1>4, <1>5, <1>6 DEF Paired
<1>8. NamesOf(n2, e) = NamesOf(n, e) \ {d} /\ d \in NamesOf(n, e)
  BY <1>2, <1>3 DEF NamesOf
<1>9. IsFiniteSet(NamesOf(n, e))
  BY FS_Subset DEF NamesOf, Paired
<1>10. /\ Cardinality(NamesOf(n2, e)) = Cardinality(NamesOf(n, e)) - 1
       /\ Cardinality(NamesOf(n, e)) \in Nat \ {0}
  BY <1>8, <1>9, FS_RemoveElement, FS_CardinalityType, FS_EmptySet
<1>11. \A i : i # e => NamesOf(n2, i) = NamesOf(n, i)
  BY <1>2, <1>3 DEF NamesOf
<1> QED
  BY <1>3, <1>7, <1>10, <1>11 DEF NamedLess, n2

\* AddLink with add_alias, for a dentry that names nothing yet.
LEMMA AliasInStep ==
    ASSUME NEW t, NEW n, NEW k, InStep(t, n, k), NEW e \in DOMAIN t.map, NEW d, ~Knows(n, d)
    PROVE  InStep(AddLink(t, e), add_alias(n, e, d), k)
<1> DEFINE t2 == AddLink(t, e)
           n2 == add_alias(n, e, d)
<1>1. /\ Typed(t2) /\ Recounted(t, t2, e)
      /\ t2.map[e].count["links"] = t.map[e].count["links"] + 1
  BY IncCounts DEF AddLink, Contains, Counts, InStep, Filled
<1>2. Filled(t2, k)
  BY <1>1, RecountedAccounted DEF InStep, Filled
<1>3. NamedMore(n, n2, e, d)
  BY AddAliasNames DEF InStep
<1> HIDE DEF t2, n2
<1>4. Linked(t2, n2)
  <2>1. \A i \in DOMAIN t2.map : t2.map[i].count["links"] = Cardinality(NamesOf(n2, i)) + Own(i)
    <3>1. t2.map[e].count["links"] = Cardinality(NamesOf(n2, e)) + Own(e)
      <4>1. t.map[e].count["links"] = Cardinality(NamesOf(n, e)) + Own(e)
        BY DEF InStep, Linked
      <4>2. Cardinality(NamesOf(n, e)) \in Nat
        BY FS_Subset, FS_CardinalityType DEF NamesOf, InStep, Paired
      <4> QED
        BY <1>1, <1>3, <4>1, <4>2 DEF NamedMore, Own
    <3> QED
      BY <1>1, <1>3, <3>1 DEF InStep, Linked, Recounted, NamedMore
  <2> QED
    BY <1>1, <1>3, <2>1 DEF InStep, Linked, Recounted, NamedMore
<1> QED
  BY <1>2, <1>3, <1>4 DEF InStep, NamedMore, t2, n2

\* Cx::insert with Namespace::insert, for a dentry that names nothing yet.
LEMMA InsertInStep ==
    ASSUME NEW t, NEW n, NEW k, InStep(t, n, k), NEW d, ~Knows(n, d)
    PROVE  InStep(Insert(t, k + 1), insert(n, Alloc(t).ino, d), k + 1)
<1> DEFINE t2 == Insert(t, k + 1)
           a  == Alloc(t)
           n1 == [n EXCEPT !.keys = Append(@, a.ino)]
           n2 == insert(n, a.ino, d)
<1>1. PICK b : Len(b) = k /\ Accounted(t, b)
  BY DEF InStep, Filled
<1>2. /\ Typed(t2) /\ Accounted(t2, Append(b, a))
      /\ a \in FreeEntry /\ a.ino \notin DOMAIN t.map
      /\ DOMAIN t2.map = DOMAIN t.map \cup {a.ino}
      /\ t2.map[a.ino] = NewSlot(k + 1, a.generation)
      /\ \A i \in DOMAIN t.map : t2.map[i] = t.map[i]
  <2>1. Typed(t)
    BY DEF InStep, Filled
  <2> QED
    BY <1>1, <2>1, InsertAccounted
<1>3. Filled(t2, k + 1)
  <2>1. Len(Append(b, a)) = k + 1
    BY <1>1, <1>2 DEF Accounted
  <2> QED
    BY <1>2, <2>1, Zenon DEF Filled
<1>4. Paired(n1) /\ n1.by_name = n.by_name
  BY DEF InStep, Paired
<1>5. NamedMore(n1, n2, a.ino, d)
  BY <1>4, AddAliasNames, Zenon DEF insert, Knows
<1>6. NamesOf(n1, a.ino) = {} /\ \A i : NamesOf(n1, i) = NamesOf(n, i)
  BY <1>2, <1>4 DEF NamesOf, InStep, Linked
<1>7. a.ino # ROOT
  BY <1>2 DEF InStep, Linked
<1>8. t2.map[a.ino].count["links"] = 1
  BY <1>2 DEF NewSlot, Counts
<1>9. Cardinality(NamesOf(n2, a.ino)) = 1
  <2>1. Cardinality(NamesOf(n1, a.ino)) = 0
    BY <1>6, FS_EmptySet, Zenon
  <2>2. Cardinality(NamesOf(n2, a.ino)) = Cardinality(NamesOf(n1, a.ino)) + 1
    BY <1>5 DEF NamedMore
  <2> QED
    BY <2>1, <2>2
<1> HIDE DEF t2, n2, n1, a
<1>10. \A i \in DOMAIN t2.map :
          t2.map[i].count["links"] = Cardinality(NamesOf(n2, i)) + Own(i)
  BY <1>2, <1>5, <1>6, <1>7, <1>8, <1>9 DEF InStep, Linked, NamedMore, Own
<1>11. Linked(t2, n2)
  BY <1>2, <1>4, <1>5, <1>10 DEF InStep, Linked, NamedMore
<1>12. InStep(t2, n2, k + 1)
  BY <1>3, <1>5, <1>11 DEF InStep, NamedMore
<1> QED
  BY <1>12 DEF t2, n2, a

\* remove_link with Namespace::remove, if the dentry is known.
LEMMA DropInStep ==
    ASSUME NEW t, NEW n, NEW k, InStep(t, n, k), NEW d
    PROVE  LET gone == Drop(n, t, d)
           IN  /\ InStep(gone.table, gone.ns, k) /\ ~Knows(gone.ns, d)
               /\ \A x : x # d /\ Knows(n, x) =>
                     Knows(gone.ns, x) /\ gone.ns.by_name[x] = n.by_name[x]
<1>1. CASE ~Knows(n, d)
  BY <1>1 DEF Drop
<1>2. CASE Knows(n, d)
  <2> DEFINE e  == n.by_name[d]
             t1 == Dec(t, e, "links", 1)
             n2 == remove(n, d)
  <2>1. NamedLess(n, n2, e, d)
    BY <1>2, RemoveNames DEF InStep
  <2>2. e \in DOMAIN t.map
    BY <1>2 DEF InStep, Linked, Knows
  <2>3. /\ Typed(t1) /\ Recounted(t, t1, e)
        /\ t1.map[e].count["links"]
               = IF t.map[e].count["links"] > 1 THEN t.map[e].count["links"] - 1 ELSE 0
    <3>1. Typed(t) /\ "links" \in Counts /\ 1 \in Nat
      BY DEF Counts, InStep, Filled
    <3> HIDE DEF e
    <3>2. Typed(t1)
      BY <2>2, <3>1, DecCounts, Zenon
    <3>3. Recounted(t, t1, e)
      BY <2>2, <3>1, DecCounts, Zenon
    <3>4. t1.map[e].count["links"]
               = IF t.map[e].count["links"] > 1 THEN t.map[e].count["links"] - 1 ELSE 0
      BY <2>2, <3>1, DecCounts, SMT
    <3> QED
      BY <3>2, <3>3, <3>4
  <2>4. Filled(t1, k)
    BY <2>3, RecountedAccounted DEF InStep, Filled
  <2>5. t1.map[e].count["links"] = Cardinality(NamesOf(n2, e)) + Own(e)
    <3>1. t.map[e].count["links"] = Cardinality(NamesOf(n, e)) + Own(e)
      BY <2>2 DEF InStep, Linked
    <3> QED
      BY <2>1, <2>3, <3>1 DEF NamedLess, Own
  <2> HIDE DEF t1, n2, e
  <2>6. Linked(t1, n2)
    BY <2>1, <2>3, <2>5 DEF InStep, Linked, Recounted, NamedLess
  <2>7. InStep(MaybeDrop(t1, e), n2, k)
    BY <2>1, <2>4, <2>6, MaybeDropInStep DEF InStep, NamedLess
  <2>8. Drop(n, t, d) = [ns |-> n2, table |-> MaybeDrop(t1, e)]
    BY <1>2 DEF Drop, RemoveLink, t1, n2, e
  <2> QED
    BY <1>2, <2>1, <2>7, <2>8 DEF NamedLess, Knows
<1> QED
  BY <1>1, <1>2

\* rename: a name gives way to another of the same node.
LEMMA MoveInStep ==
    ASSUME NEW t, NEW n, NEW k, InStep(t, n, k), NEW old, NEW new, Knows(n, old), ~Knows(n, new)
    PROVE  InStep(t, add_alias(remove(n, old), n.by_name[old], new), k)
<1> DEFINE e  == n.by_name[old]
           n1 == remove(n, old)
           n2 == add_alias(n1, e, new)
<1>1. NamedLess(n, n1, e, old)
  BY RemoveNames DEF InStep
<1>2. NamedMore(n1, n2, e, new)
  BY <1>1, AddAliasNames DEF NamedLess, Knows
<1> HIDE DEF n1, n2
<1>3. \A i : Cardinality(NamesOf(n2, i)) = Cardinality(NamesOf(n, i))
  <2> TAKE i
  <2>1. CASE i = e
    BY <2>1, <1>1, <1>2 DEF NamedLess, NamedMore
  <2>2. CASE i # e
    BY <2>2, <1>1, <1>2 DEF NamedLess, NamedMore
  <2> QED
    BY <2>1, <2>2
<1>4. e \in DOMAIN t.map
  BY DEF InStep, Linked, Knows
<1>5. Linked(t, n2)
  BY <1>1, <1>2, <1>3, <1>4 DEF InStep, Linked, NamedLess, NamedMore
<1>6. InStep(t, n2, k)
  BY <1>2, <1>5 DEF InStep, NamedMore
<1> QED
  BY <1>6 DEF n1, n2
------------------------------------------------------------------------------
(* The invariant.                                                            *)

PathNode == [obj : Objects, some : BOOLEAN, stale : SUBSET Threads]

Requests ==
    [pc : {"idle", "insert", "setattr", "entry", "attr", "count", "drop", "offered", "getattr"},
     op : Ops \cup {"none"}, d : [parent : Nat, name : Nat], obj : 0..MaxObjects, id : Nat,
     record : Nat, inserted : BOOLEAN, handle : BOOLEAN, fresh : BOOLEAN]

FilesTyped ==
    tree \in [Objects -> [Names -> 0..MaxObjects]] /\ dirs \subseteq Objects /\ made \in Objects

NodesTyped ==
    /\ node \in Seq(PathNode) /\ Len(node) \in 1..MaxRecords
    /\ krefs \in [1..MaxRecords -> Nat]

\* A lookup that has found a name has found an object.
ThreadsTyped ==
    /\ th \in [Threads -> Requests]
    /\ \A t \in Threads : th[t].pc = "insert" => th[t].obj # 0

IInv == FilesTyped /\ NodesTyped /\ ThreadsTyped /\ InStep(table, ns, Len(node))

\* The state at mount: the root alone, without a name.
LEMMA InitInv == Init => IInv
<1> SUFFICES ASSUME Init PROVE IInv
  OBVIOUS
<1>1. FilesTyped
  BY AdapterAssumption DEF Init, FilesTyped, Objects
<1>2. NodesTyped /\ Len(node) = 1
  BY AdapterAssumption DEF Init, NodesTyped, NewNode, PathNode, Objects
<1>3. ThreadsTyped
  BY AdapterAssumption DEF Init, ThreadsTyped, IdleThread, Requests, Dentry
<1>4. Filled(table, 1)
  <2> DEFINE b == <<[ino |-> ROOT, generation |-> 0]>>
             f == [p \in {} |-> NoReference]
  <2>1. IsFiniteSet(DOMAIN f) /\ \A p \in DOMAIN f : f[p] = NoReference
    BY FS_EmptySet
  <2>2. Sound(NewTable, b, f)
    BY <2>1, NewTableSound
  <2> QED
    BY <2>2 DEF Init, Filled, Sound
<1>5. Paired(ns) /\ DOMAIN ns.by_name = {}
  BY FS_EmptySet DEF Init, NewNamespace, Paired
<1>6. Linked(table, ns)
  <2>1. DOMAIN table.map = {ROOT} /\ table.map[ROOT].count["links"] = 1
    BY DEF Init, NewTable, NewSlot, Counts
  <2>2. Cardinality(NamesOf(ns, ROOT)) = 0
    BY <1>5, FS_EmptySet DEF NamesOf
  <2> QED
    BY <1>5, <2>1, <2>2 DEF Linked, Own
<1> QED
  BY <1>1, <1>2, <1>3, <1>4, <1>5, <1>6 DEF IInv, InStep

\* A live node's record is one that was inserted, and its number is one.
LEMMA LiveTyped ==
    ASSUME IInv, NEW i \in Live
    PROVE  i \in Nat \ {0} /\ table.map[i].record \in 1..Len(node)
<1>1. PICK b : Len(b) = Len(node) /\ Accounted(table, b)
  BY DEF IInv, InStep, Filled
<1>2. i \in 1..(table.next_ino - 1) /\ table.map[i].record \in 1..Len(b)
  BY <1>1, Zenon DEF Accounted, Live
<1>3. table.next_ino \in Nat
  BY DEF IInv, InStep, Filled, Typed
<1> QED
  BY <1>1, <1>2, <1>3

\* Taking, leaving and ageing the attributes of a node keeps the sequence.
LEMMA NodeChanged ==
    ASSUME NodesTyped, NEW r, NEW x, r \in 1..Len(node) => x \in PathNode,
           node' = [node EXCEPT ![r] = x], krefs' \in [1..MaxRecords -> Nat]
    PROVE  NodesTyped' /\ Len(node') = Len(node)
<1>1. Len(node) \in Nat /\ node \in [1..Len(node) -> PathNode]
  BY DEF NodesTyped
<1>2. node' \in [1..Len(node) -> PathNode]
  BY <1>1, Zenon
<1>3. node' \in Seq(PathNode) /\ Len(node') = Len(node)
  BY <1>1, <1>2
<1>4. PathNode' = PathNode
  BY DEF PathNode, Objects
<1> QED
  BY <1>3, <1>4 DEF NodesTyped

\* set_entry_attr keeps a sequence of nodes.
LEMMA WithAttrTyped ==
    ASSUME NEW nodes \in Seq(PathNode), NEW r
    PROVE  WithAttr(nodes, r) \in Seq(PathNode) /\ Len(WithAttr(nodes, r)) = Len(nodes)
<1>1. Len(nodes) \in Nat /\ nodes \in [1..Len(nodes) -> PathNode]
  OBVIOUS
<1>2. WithAttr(nodes, r) \in [1..Len(nodes) -> PathNode]
  BY <1>1, Zenon DEF WithAttr, PathNode
<1> QED
  BY <1>1, <1>2

\* A thread's request changes.
LEMMA ThreadChanged ==
    ASSUME ThreadsTyped, NEW t \in Threads, NEW x \in Requests, Begin(t, x),
           x.pc = "insert" => x.obj # 0
    PROVE  ThreadsTyped'
BY DEF ThreadsTyped, Begin

\* The end of a request.
LEMMA Finished ==
    ASSUME ThreadsTyped, NEW t \in Threads, Finish(t)
    PROVE  ThreadsTyped'
<1>1. IdleThread \in Requests /\ IdleThread.pc = "idle"
  BY AdapterAssumption DEF IdleThread, Requests, Dentry
<1> QED
  BY <1>1, ThreadChanged DEF Finish

\* The parts of the invariant make the whole.
LEMMA Assembled ==
    ASSUME FilesTyped', NodesTyped', ThreadsTyped', InStep(table', ns', Len(node'))
    PROVE  IInv'
BY DEF IInv

\* A step that leaves the filesystem and the nodes alone, and the namespace and
\* the table in step, need only keep its request typed.
LEMMA TableStep ==
    ASSUME IInv, ThreadsTyped', InStep(table', ns', Len(node)), krefs' \in [1..MaxRecords -> Nat],
           UNCHANGED <<tree, dirs, made, node>>
    PROVE  IInv'
<1>1. FilesTyped' /\ NodesTyped'
  BY DEF IInv, FilesTyped, NodesTyped, Objects, PathNode
<1> QED
  BY <1>1, Assembled

\* The request of an idle thread.
LEMMA IdleTyped == IdleThread \in Requests /\ IdleThread.pc = "idle" /\ IdleThread.obj = 0
BY AdapterAssumption DEF IdleThread, Requests, Dentry

\* A name of a live directory.
LEMMA DentryTyped ==
    ASSUME IInv, NEW p \in Live, NEW n \in Names
    PROVE  /\ Dentry(p, n) \in [parent : Nat, name : Nat]
           /\ Dentry(p, n).parent = p /\ Dentry(p, n).name = n
BY LiveTyped, AdapterAssumption DEF Dentry

------------------------------------------------------------------------------
(* The actions.                                                              *)

\* lookup, and the lookup that revalidates a name.
LEMMA LookupStep ==
    ASSUME IInv, NEW t \in Threads, NEW o, NEW p \in Live, NEW n \in Names, LookupName(t, o, p, n)
    PROVE  IInv'
<1> DEFINE obj == tree[PathOf(p)][n]
           x   == [IdleThread EXCEPT !.pc = "insert", !.op = o, !.d = Dentry(p, n), !.obj = obj]
<1>1. obj \in 0..MaxObjects /\ obj # 0 /\ o \in Ops /\ Begin(t, x)
  BY DEF LookupName, Start, IInv, FilesTyped
<1> HIDE DEF obj
<1>2. x \in Requests /\ x.obj = obj
  BY <1>1, IdleTyped, DentryTyped, Zenon DEF Requests
<1> HIDE DEF x
<1>3. ThreadsTyped'
  BY <1>1, <1>2, ThreadChanged DEF IInv
<1>4. UNCHANGED <<tree, dirs, made, table, ns, node, krefs>>
  BY DEF LookupName
<1> QED
  BY <1>3, <1>4, TableStep DEF IInv, NodesTyped

\* Namespace::insert, and set_entry_attr if it follows.
LEMMA InsertDentryStep ==
    ASSUME IInv, NEW t \in Threads, NEW x \in Requests, x.pc # "insert", NEW obj \in Objects,
           NEW attr \in BOOLEAN, InsertDentry(t, x, obj, attr), krefs' = krefs
    PROVE  NodesTyped' /\ ThreadsTyped' /\ InStep(table', ns', Len(node'))
<1> DEFINE found == Knows(ns, x.d)
           i     == IF found THEN ns.by_name[x.d] ELSE Alloc(table).ino
           r     == IF found THEN table.map[i].record ELSE Len(node) + 1
           nodes == IF found THEN node ELSE Append(node, NewNode(obj))
           y     == [x EXCEPT !.id = i, !.inserted = ~found]
<1>1. /\ r <= MaxRecords
      /\ table' = IF found THEN table ELSE Insert(table, r)
      /\ ns' = IF found THEN ns ELSE insert(ns, i, x.d)
      /\ node' = IF attr THEN WithAttr(nodes, r) ELSE nodes
      /\ Begin(t, y)
  BY DEF InsertDentry
<1>2. i \in Nat
  <2>1. CASE found
    BY <2>1, LiveTyped DEF Live, IInv, InStep, Linked, Knows
  <2>2. CASE ~found
    <3>1. PICK b : Len(b) = Len(node) /\ Accounted(table, b)
      BY DEF IInv, InStep, Filled
    <3>2. Alloc(table) \in FreeEntry
      BY <3>1, InsertAccounted DEF IInv, InStep, Filled
    <3> QED
      BY <2>2, <3>2 DEF FreeEntry
  <2> QED
    BY <2>1, <2>2
<1>3. ThreadsTyped'
  <2>1. y \in Requests /\ y.pc = x.pc
    BY <1>2, Zenon DEF Requests
  <2> QED
    BY <1>1, <2>1, ThreadChanged, Zenon DEF IInv
<1>4. NewNode(obj) \in PathNode
  BY DEF NewNode, PathNode
<1>5. /\ nodes \in Seq(PathNode) /\ Len(nodes) \in 1..MaxRecords
      /\ InStep(table', ns', Len(nodes))
  <2>1. CASE found
    BY <1>1, <2>1 DEF IInv, NodesTyped
  <2>2. CASE ~found
    <3>1. nodes \in Seq(PathNode) /\ Len(nodes) = Len(node) + 1 /\ Len(nodes) \in 1..MaxRecords
      BY <1>1, <1>4, <2>2, AdapterAssumption DEF IInv, NodesTyped
    <3>2. InStep(Insert(table, Len(node) + 1), insert(ns, Alloc(table).ino, x.d), Len(node) + 1)
      BY <2>2, InsertInStep DEF IInv
    <3> QED
      BY <1>1, <2>2, <3>1, <3>2
  <2> QED
    BY <2>1, <2>2
<1> HIDE DEF nodes, r
<1>6. node' \in Seq(PathNode) /\ Len(node') = Len(nodes)
  BY <1>1, <1>5, WithAttrTyped
<1>7. NodesTyped'
  BY <1>5, <1>6 DEF IInv, NodesTyped, PathNode, Objects
<1> QED
  BY <1>3, <1>5, <1>6, <1>7

\* The insertion of what a lookup has found.
LEMMA LookupInsertStep ==
    ASSUME IInv, NEW t \in Threads, LookupInsert(t)
    PROVE  IInv'
<1> DEFINE x == [th[t] EXCEPT !.pc = "setattr"]
<1>1. th[t] \in Requests /\ th[t].obj \in Objects
  BY DEF LookupInsert, IInv, ThreadsTyped, Requests, Objects
<1>2. x \in Requests /\ x.pc # "insert"
  BY <1>1 DEF Requests
<1>3. InsertDentry(t, x, th[t].obj, FALSE) /\ UNCHANGED <<tree, dirs, made, krefs>>
  BY Zenon DEF LookupInsert
<1> HIDE DEF x
<1>4. NodesTyped' /\ ThreadsTyped' /\ InStep(table', ns', Len(node'))
  BY <1>1, <1>2, <1>3, InsertDentryStep, Zenon
<1> QED
  BY <1>3, <1>4, Assembled DEF IInv, FilesTyped, Objects

\* set_entry_attr at the end of a lookup.
LEMMA SetEntryAttrStep ==
    ASSUME IInv, NEW t \in Threads, SetEntryAttr(t)
    PROVE  IInv'
<1>1. UNCHANGED <<tree, dirs, made, table, ns, krefs>>
  BY DEF SetEntryAttr
<1>2. NodesTyped' /\ Len(node') = Len(node)
  BY <1>1, WithAttrTyped, Zenon DEF SetEntryAttr, IInv, NodesTyped, PathNode, Objects
<1>3. ThreadsTyped'
  <2>1. CASE Finish(t)
    BY <2>1, Finished DEF IInv
  <2>2. CASE Begin(t, [th[t] EXCEPT !.pc = "entry"])
    <3>1. [th[t] EXCEPT !.pc = "entry"] \in Requests /\ [th[t] EXCEPT !.pc = "entry"].pc = "entry"
      BY Zenon DEF IInv, ThreadsTyped, Requests
    <3> QED
      BY <2>2, <3>1, ThreadChanged, Zenon DEF IInv
  <2> QED
    BY <2>1, <2>2 DEF SetEntryAttr
<1> QED
  BY <1>1, <1>2, <1>3, Assembled DEF IInv, FilesTyped, Objects

\* entry_for takes a lease.
LEMMA EntryGetStep ==
    ASSUME IInv, NEW t \in Threads, EntryGet(t)
    PROVE  IInv'
<1> DEFINE i == th[t].id
           x == [th[t] EXCEPT !.pc = "attr", !.record = table.map[i].record]
<1>1. UNCHANGED <<tree, dirs, made, ns, node, krefs>>
  BY DEF EntryGet
<1>2. InStep(table', ns', Len(node))
  BY <1>1, IncInStep DEF EntryGet, Get, Counts, IInv
<1>3. ThreadsTyped'
  <2>1. CASE Finish(t)
    BY <2>1, Finished DEF IInv
  <2>2. CASE Contains(table, i) /\ Begin(t, x)
    <3>1. table.map[i].record \in Nat
      BY <2>2, LiveTyped DEF Contains, Live
    <3>2. x \in Requests /\ x.pc = "attr"
      BY <3>1, Zenon DEF IInv, ThreadsTyped, Requests
    <3> QED
      BY <2>2, <3>2, ThreadChanged, Zenon DEF IInv
  <2> QED
    BY <2>1, <2>2 DEF EntryGet
<1> QED
  BY <1>1, <1>2, <1>3, TableStep DEF IInv, NodesTyped

\* PathNodeFs::entry_attr.
LEMMA EntryAttrStep ==
    ASSUME IInv, NEW t \in Threads, EntryAttr(t)
    PROVE  IInv'
<1> DEFINE r == th[t].record
           old == t \notin node[r].stale
<1>1. UNCHANGED <<tree, dirs, made, table, ns, krefs>>
  BY DEF EntryAttr
<1>2. NodesTyped' /\ Len(node') = Len(node)
  <2>1. CASE UNCHANGED node
    BY <1>1, <2>1 DEF IInv, NodesTyped, PathNode, Objects
  <2>2. CASE node' = [node EXCEPT ![r].some = FALSE, ![r].stale = {}]
    <3>1. Len(node) \in Nat /\ node \in [1..Len(node) -> PathNode]
      BY DEF IInv, NodesTyped
    <3>2. node' \in [1..Len(node) -> PathNode]
      BY <2>2, <3>1, Zenon DEF PathNode
    <3>3. node' \in Seq(PathNode) /\ Len(node') = Len(node)
      BY <3>1, <3>2
    <3> QED
      BY <1>1, <3>3 DEF IInv, NodesTyped, PathNode, Objects
  <2> QED
    BY <2>1, <2>2 DEF EntryAttr
<1>3. ThreadsTyped'
  <2>1. ASSUME NEW step \in {"count", "drop"}, Begin(t, [th[t] EXCEPT !.pc = step])
        PROVE  ThreadsTyped'
    <3>1. [th[t] EXCEPT !.pc = step] \in Requests /\ [th[t] EXCEPT !.pc = step].pc = step
      BY Zenon DEF IInv, ThreadsTyped, Requests
    <3> QED
      BY <2>1, <3>1, ThreadChanged, Zenon DEF IInv
  <2>2. CASE Begin(t, [th[t] EXCEPT !.pc = "count", !.fresh = old])
    <3> HIDE DEF old
    <3>1. old \in BOOLEAN
      BY DEF old
    <3>2. /\ [th[t] EXCEPT !.pc = "count", !.fresh = old] \in Requests
          /\ [th[t] EXCEPT !.pc = "count", !.fresh = old].pc = "count"
      BY <3>1, Zenon DEF IInv, ThreadsTyped, Requests
    <3> QED
      BY <2>2, <3>2, ThreadChanged, Zenon DEF IInv
  <2> QED
    BY <2>1, <2>2 DEF EntryAttr
<1> QED
  BY <1>1, <1>2, <1>3, Assembled DEF IInv, FilesTyped, Objects

\* The kernel's references stay numbers when one is added.
LEMMA KrefsTyped ==
    ASSUME NodesTyped, NEW r
    PROVE  [krefs EXCEPT ![r] = @ + 1] \in [1..MaxRecords -> Nat]
<1>1. krefs \in [1..MaxRecords -> Nat]
  BY DEF NodesTyped
<1>2. CASE r \in 1..MaxRecords
  <2>1. krefs[r] + 1 \in Nat
    BY <1>1, <1>2
  <2> QED
    BY <1>1, <2>1, Zenon
<1>3. CASE r \notin 1..MaxRecords
  BY <1>1, <1>3, Zenon
<1> QED
  BY <1>2, <1>3

\* entry_for counts the lookup and returns its lease.
LEMMA EntryReplyStep ==
    ASSUME IInv, NEW t \in Threads, EntryReply(t)
    PROVE  IInv'
<1> DEFINE i == th[t].id
           r == th[t].record
<1>1. /\ table' = DropRef(RetainLookup(table, i), i, r)
      /\ krefs' = [krefs EXCEPT ![r] = @ + 1]
      /\ Finish(t)
      /\ UNCHANGED <<tree, dirs, made, ns, node>>
  BY DEF EntryReply
<1>2. InStep(RetainLookup(table, i), ns, Len(node))
  BY IncInStep DEF RetainLookup, Counts, IInv
<1>3. InStep(table', ns', Len(node))
  BY <1>1, <1>2, DropRefInStep
<1>4. ThreadsTyped' /\ krefs' \in [1..MaxRecords -> Nat]
  BY <1>1, Finished, KrefsTyped DEF IInv
<1> QED
  BY <1>1, <1>3, <1>4, TableStep, SMTT(30)

\* The lease goes back when entry_attr has failed, and when getattr returns.
LEMMA ReturnStep ==
    ASSUME IInv, NEW t \in Threads, EntryFails(t) \/ GetattrCall(t)
    PROVE  IInv'
<1>1. /\ table' = DropRef(table, th[t].id, th[t].record)
      /\ Finish(t)
      /\ UNCHANGED <<tree, dirs, made, ns, node, krefs>>
  BY DEF EntryFails, GetattrCall
<1>2. InStep(table', ns', Len(node))
  BY <1>1, DropRefInStep DEF IInv
<1>3. ThreadsTyped'
  BY <1>1, Finished DEF IInv
<1> QED
  BY <1>1, <1>2, <1>3, TableStep DEF IInv, NodesTyped

\* mknod, mkdir, symlink and create.
LEMMA MakeStep ==
    ASSUME IInv, NEW t \in Threads, NEW p \in Live, NEW n \in Names, NEW isDir \in BOOLEAN,
           Make(t, p, n, isDir)
    PROVE  IInv'
<1> DEFINE dir == PathOf(p)
           x == [IdleThread EXCEPT !.pc = "entry", !.op = "make", !.d = Dentry(p, n)]
<1>1. /\ "make" \in Ops /\ dir \in dirs /\ made < MaxObjects
      /\ made' = made + 1
      /\ tree' = [tree EXCEPT ![dir][n] = made + 1]
      /\ dirs' = IF isDir THEN dirs \cup {made + 1} ELSE dirs
      /\ InsertDentry(t, x, made + 1, TRUE)
      /\ krefs' = krefs
  BY Zenon DEF Make, Start
<1>2. x \in Requests /\ x.pc = "entry"
  BY <1>1, IdleTyped, DentryTyped, Zenon DEF Requests
<1> HIDE DEF dir, x
<1>3. made + 1 \in Objects
  BY <1>1, AdapterAssumption DEF IInv, FilesTyped, Objects
<1>4. FilesTyped'
  BY <1>1, <1>3 DEF IInv, FilesTyped, Objects
<1>5. NodesTyped' /\ ThreadsTyped' /\ InStep(table', ns', Len(node'))
  BY <1>1, <1>2, <1>3, InsertDentryStep, Zenon
<1> QED
  BY <1>4, <1>5, Assembled

\* link. That the dentry names nothing yet follows from the agreement of the
\* names with the filesystem, which has nothing under it.
LEMMA LinkStep ==
    ASSUME IInv, NamesAgree, NEW t \in Threads, NEW i \in Live, NEW p \in Live, NEW n \in Names,
           Link(t, i, p, n)
    PROVE  IInv'
<1> DEFINE dir == PathOf(p)
           obj == LinkSource(i)
           d   == Dentry(p, n)
           r   == table.map[i].record
           x   == [IdleThread EXCEPT !.pc = "entry", !.op = "link", !.d = d, !.id = i]
           y   == [node[r] EXCEPT !.stale = IF node[r].some THEN @ \cup {t} ELSE {}]
<1>1. /\ "link" \in Ops /\ dir \in dirs /\ tree[dir][n] = 0 /\ obj \in Objects
      /\ tree' = [tree EXCEPT ![dir][n] = obj]
      /\ ns' = add_alias(ns, i, d)
      /\ table' = AddLink(table, i)
      /\ node' = [node EXCEPT ![r] = y]
      /\ Begin(t, x)
      /\ UNCHANGED <<dirs, made, krefs>>
  BY DEF Link, Start
<1>2. ~Knows(ns, d)
  <2> SUFFICES ASSUME Knows(ns, d) PROVE FALSE
    OBVIOUS
  <2>1. d.parent = p /\ d.name = n
    BY DentryTyped, SMTT(30)
  <2> HIDE DEF d
  <2>2. tree[dir][n] = node[table.map[ns.by_name[d]].record].obj
    BY <2>1 DEF NamesAgree, Knows
  <2>3. ns.by_name[d] \in Live
    BY DEF Knows, Live, IInv, InStep, Linked
  <2>4. node[table.map[ns.by_name[d]].record] \in PathNode
    BY <2>3, LiveTyped, SMTT(30) DEF IInv, NodesTyped
  <2>5. node[table.map[ns.by_name[d]].record].obj # 0
    BY <2>4 DEF PathNode, Objects
  <2> HIDE DEF dir
  <2> QED
    BY <1>1, <2>2, <2>5, Zenon
<1>3. InStep(table', ns', Len(node))
  BY <1>1, <1>2, AliasInStep DEF IInv, Live
<1>4. x \in Requests /\ x.pc = "entry"
  BY <1>1, IdleTyped, DentryTyped, LiveTyped, Zenon DEF Requests
<1>5. ThreadsTyped'
  BY <1>1, <1>4, ThreadChanged, Zenon DEF IInv
<1>6. y \in PathNode
  <2>1. node[r] \in PathNode
    BY LiveTyped DEF IInv, NodesTyped
  <2> QED
    BY <2>1 DEF PathNode
<1> HIDE DEF y, x, d, dir, obj
<1>7. NodesTyped' /\ Len(node') = Len(node)
  BY <1>1, <1>6, NodeChanged, Zenon DEF IInv, NodesTyped
<1>8. FilesTyped'
  BY <1>1 DEF IInv, FilesTyped, Objects
<1> QED
  BY <1>3, <1>5, <1>7, <1>8, Assembled, SMTT(30)

\* unlink and rmdir.
LEMMA RemoveStep ==
    ASSUME IInv, NEW p \in Live, NEW n \in Names, RemoveEntry(p, n)
    PROVE  IInv'
<1> DEFINE dir  == PathOf(p)
           gone == Drop(ns, table, Dentry(p, n))
<1>1. /\ dir \in dirs /\ tree' = [tree EXCEPT ![dir][n] = 0]
      /\ ns' = gone.ns /\ table' = gone.table
      /\ UNCHANGED <<dirs, made, node, krefs, th>>
  BY DEF RemoveEntry
<1>2. InStep(gone.table, gone.ns, Len(node))
  BY DropInStep DEF IInv
<1> HIDE DEF dir, gone
<1>3. FilesTyped'
  BY <1>1, AdapterAssumption, SMTT(30) DEF IInv, FilesTyped, Objects
<1>4. NodesTyped' /\ ThreadsTyped'
  BY <1>1 DEF IInv, NodesTyped, ThreadsTyped, PathNode, Requests, Objects
<1> QED
  BY <1>1, <1>2, <1>3, <1>4, Assembled

\* A rename leaves the namespace and the table in step: the name replaced goes
\* with its link, and the one renamed takes its link along.
LEMMA RenamedInStep ==
    ASSUME IInv, NEW old, NEW new, old # new
    PROVE  InStep(Renamed(old, new).table, Renamed(old, new).ns, Len(node))
<1> DEFINE gone == Drop(ns, table, new)
<1>1. CASE ~Knows(ns, old) \/ (Knows(ns, new) /\ ns.by_name[new] = ns.by_name[old])
  BY <1>1 DEF Renamed, IInv
<1>2. CASE ~(~Knows(ns, old) \/ (Knows(ns, new) /\ ns.by_name[new] = ns.by_name[old]))
  <2>1. /\ InStep(gone.table, gone.ns, Len(node)) /\ ~Knows(gone.ns, new)
        /\ Knows(gone.ns, old) /\ gone.ns.by_name[old] = ns.by_name[old]
    BY <1>2, DropInStep DEF IInv
  <2>2. Renamed(old, new) =
           [ns |-> add_alias(remove(gone.ns, old), ns.by_name[old], new), table |-> gone.table]
    BY <1>2 DEF Renamed
  <2> HIDE DEF gone
  <2>3. InStep(gone.table, add_alias(remove(gone.ns, old), ns.by_name[old], new), Len(node))
    BY <2>1, MoveInStep
  <2> QED
    BY <2>2, <2>3
<1> QED
  BY <1>1, <1>2

\* rename.
LEMMA RenameStep ==
    ASSUME IInv, NEW p \in Live, NEW n \in Names, NEW q \in Live, NEW m \in Names,
           Rename(p, n, q, m)
    PROVE  IInv'
<1> DEFINE from == PathOf(p)
           to   == PathOf(q)
           old  == Dentry(p, n)
           new  == Dentry(q, m)
<1>1. /\ from \in dirs /\ old # new
      /\ tree' = IF tree[to][m] = tree[from][n] THEN tree
                 ELSE [o \in Objects |-> [x \in Names |->
                          IF o = to /\ x = m THEN tree[from][n]
                          ELSE IF o = from /\ x = n THEN 0 ELSE tree[o][x]]]
      /\ ns' = Renamed(old, new).ns /\ table' = Renamed(old, new).table
      /\ UNCHANGED <<dirs, made, node, krefs, th>>
  BY DEF Rename
<1>2. InStep(table', ns', Len(node))
  BY <1>1, RenamedInStep
<1> HIDE DEF from, to
<1>3. FilesTyped'
  <2>1. tree[from][n] \in 0..MaxObjects
    BY <1>1 DEF IInv, FilesTyped
  <2>2. tree' \in [Objects -> [Names -> 0..MaxObjects]]
    BY <1>1, <2>1, AdapterAssumption DEF IInv, FilesTyped
  <2> QED
    BY <1>1, <2>2 DEF IInv, FilesTyped, Objects
<1>4. NodesTyped' /\ ThreadsTyped'
  BY <1>1 DEF IInv, NodesTyped, ThreadsTyped, PathNode, Requests, Objects
<1> QED
  BY <1>1, <1>2, <1>3, <1>4, Assembled

\* One entry of a listing.
LEMMA ListEntryStep ==
    ASSUME IInv, NEW t \in Threads, NEW p \in Live, NEW n \in Names, ListEntry(t, p, n)
    PROVE  IInv'
<1> DEFINE obj == tree[PathOf(p)][n]
           x == [IdleThread EXCEPT !.pc = "offered", !.op = "readdir", !.d = Dentry(p, n)]
<1>1. /\ "readdir" \in Ops /\ PathOf(p) \in dirs /\ obj # 0
      /\ InsertDentry(t, x, obj, FALSE)
      /\ UNCHANGED <<tree, dirs, made, krefs>>
  BY Zenon DEF ListEntry, Start
<1>2. x \in Requests /\ x.pc = "offered"
  BY <1>1, IdleTyped, DentryTyped, Zenon DEF Requests
<1>3. obj \in Objects
  BY <1>1 DEF IInv, FilesTyped, Objects
<1> HIDE DEF x, obj
<1>4. NodesTyped' /\ ThreadsTyped' /\ InStep(table', ns', Len(node'))
  BY <1>1, <1>2, <1>3, InsertDentryStep, Zenon
<1> QED
  BY <1>1, <1>4, Assembled DEF IInv, FilesTyped, Objects

\* The buffer takes an entry.
LEMMA AcceptedStep ==
    ASSUME IInv, NEW t \in Threads, NEW plus \in BOOLEAN, EntryAccepted(t, plus)
    PROVE  IInv'
<1> DEFINE i == th[t].id
           r == table.map[i].record
<1>1. Finish(t) /\ UNCHANGED <<tree, dirs, made, ns, node>>
  BY SMTT(30) DEF EntryAccepted
<1>2. \/ table' = RetainLookup(table, i) /\ krefs' = [krefs EXCEPT ![r] = @ + 1]
      \/ UNCHANGED <<table, krefs>>
  BY SMTT(30) DEF EntryAccepted
<1>3. InStep(table', ns', Len(node))
  BY <1>1, <1>2, IncInStep DEF RetainLookup, Counts, IInv
<1>4. ThreadsTyped' /\ krefs' \in [1..MaxRecords -> Nat]
  BY <1>1, <1>2, Finished, KrefsTyped, Zenon DEF IInv, NodesTyped
<1> QED
  BY <1>1, <1>3, <1>4, TableStep, SMTT(30)

\* The buffer does not, and rollback_dentry takes back what was inserted.
LEMMA RejectedStep ==
    ASSUME IInv, NEW t \in Threads, EntryRejected(t)
    PROVE  IInv'
<1>1. /\ ns' = RolledBack(th[t]).ns /\ table' = RolledBack(th[t]).table
      /\ Finish(t) /\ UNCHANGED <<tree, dirs, made, node, krefs>>
  BY DEF EntryRejected
<1>2. InStep(RolledBack(th[t]).table, RolledBack(th[t]).ns, Len(node))
  BY DropInStep DEF RolledBack, IInv
<1>3. ThreadsTyped'
  BY <1>1, Finished DEF IInv
<1> QED
  BY <1>1, <1>2, <1>3, TableStep DEF IInv, NodesTyped

\* forget.
LEMMA ForgetStep ==
    ASSUME IInv, NEW i \in Live, Forget(i)
    PROVE  IInv'
<1> DEFINE r == table.map[i].record
<1>1. /\ table' = DropRef(ForgetLookups(table, i, krefs[r]), i, r)
      /\ krefs' = [krefs EXCEPT ![r] = 0]
      /\ UNCHANGED <<tree, dirs, made, ns, node, th>>
  BY DEF Forget
<1>2. krefs[r] \in Nat /\ krefs' \in [1..MaxRecords -> Nat]
  <2>1. r \in 1..MaxRecords
    BY LiveTyped, AdapterAssumption DEF IInv, NodesTyped
  <2> QED
    BY <1>1, <2>1 DEF IInv, NodesTyped
<1>3. InStep(ForgetLookups(table, i, krefs[r]), ns, Len(node))
  BY <1>2, ForgetInStep DEF IInv
<1>4. InStep(table', ns', Len(node))
  BY <1>1, <1>3, DropRefInStep
<1>5. ThreadsTyped'
  BY <1>1 DEF IInv, ThreadsTyped, Requests
<1> QED
  BY <1>1, <1>2, <1>4, <1>5, TableStep, Zenon

\* open and release.
LEMMA OpenStep ==
    ASSUME IInv, NEW i \in Live, Open(i) \/ Release(i)
    PROVE  IInv'
<1>1. UNCHANGED <<tree, dirs, made, ns, node, krefs, th>>
  BY DEF Open, Release
<1>2. InStep(AddOpen(table, i), ns, Len(node))
  BY IncInStep DEF AddOpen, Counts, IInv
<1>3. InStep(RemoveOpen(table, i), ns, Len(node))
  BY DecInStep, MaybeDropInStep DEF RemoveOpen, Counts, IInv
<1>4. table' = AddOpen(table, i) \/ table' = RemoveOpen(table, i)
  BY DEF Open, Release
<1>5. ThreadsTyped'
  BY <1>1 DEF IInv, ThreadsTyped, Requests
<1> QED
  BY <1>1, <1>2, <1>3, <1>4, <1>5, TableStep, SMTT(30) DEF IInv, NodesTyped

\* getattr and setattr without a handle take a lease.
LEMMA GetattrStep ==
    ASSUME IInv, NEW t \in Threads, NEW i \in Live, GetattrStart(t, i)
    PROVE  IInv'
<1> DEFINE lent == table.map[i].count["opens"] > 0 /\ ~HasPath(i)
           r == table.map[i].record
           x == [IdleThread EXCEPT !.pc = "getattr", !.op = "getattr", !.id = i, !.record = r,
                                   !.handle = lent]
<1>1. "getattr" \in Ops /\ Begin(t, x) /\ table' = Get(table, i)
  BY DEF GetattrStart, Start
<1>2. UNCHANGED <<tree, dirs, made, ns, node, krefs>>
  BY DEF GetattrStart
<1>3. lent \in BOOLEAN /\ i \in Nat /\ r \in Nat
  BY LiveTyped
<1> HIDE DEF lent, r
<1>4. x \in Requests /\ x.pc = "getattr"
  BY <1>1, <1>3, IdleTyped, Zenon DEF Requests
<1> HIDE DEF x
<1>5. ThreadsTyped'
  BY <1>1, <1>4, ThreadChanged DEF IInv
<1>6. InStep(table', ns', Len(node))
  BY <1>1, <1>2, IncInStep DEF Get, Counts, IInv
<1> QED
  BY <1>2, <1>5, <1>6, TableStep DEF IInv, NodesTyped

------------------------------------------------------------------------------
\* Every step keeps the invariant while the names agree with the filesystem.
LEMMA StepInv == IInv /\ NamesAgree /\ [Next]_vars => IInv'
<1> SUFFICES ASSUME IInv, NamesAgree, [Next]_vars PROVE IInv'
  OBVIOUS
<1>1. ASSUME NEW t \in Threads, Request(t) PROVE IInv'
  <2>1. ASSUME NEW p \in Live, NEW n \in Names,
               Lookup(t, p, n) \/ Revalidate(t, p, n) \/ ListEntry(t, p, n)
        PROVE  IInv'
    BY <2>1, LookupStep, ListEntryStep DEF Lookup, Revalidate
  <2>2. ASSUME NEW p \in Live, NEW n \in Names, NEW isDir \in BOOLEAN, Make(t, p, n, isDir)
        PROVE  IInv'
    BY <2>2, MakeStep
  <2>3. ASSUME NEW i \in Live, NEW p \in Live, NEW n \in Names, Link(t, i, p, n) PROVE IInv'
    BY <2>3, LinkStep
  <2>4. ASSUME NEW i \in Live, GetattrStart(t, i) PROVE IInv'
    BY <2>4, GetattrStep
  <2> QED
    BY <1>1, <2>1, <2>2, <2>3, <2>4 DEF Request
<1>2. ASSUME NEW t \in Threads, Continue(t) PROVE IInv'
  BY <1>2, LookupInsertStep, SetEntryAttrStep, EntryGetStep, EntryAttrStep, EntryReplyStep,
     ReturnStep, AcceptedStep, RejectedStep DEF Continue
<1>3. ASSUME NEW i \in Live, Forget(i) \/ Open(i) \/ Release(i) PROVE IInv'
  BY <1>3, ForgetStep, OpenStep
<1>4. ASSUME NEW p \in Live, NEW n \in Names, RemoveEntry(p, n) PROVE IInv'
  BY <1>4, RemoveStep
<1>5. ASSUME NEW p \in Live, NEW q \in Live, NEW n \in Names, NEW m \in Names, Rename(p, n, q, m)
      PROVE  IInv'
  BY <1>5, RenameStep
<1>6. CASE UNCHANGED vars
  BY <1>6 DEF vars, IInv, FilesTyped, NodesTyped, ThreadsTyped, PathNode, Requests, Objects
<1> QED
  BY <1>1, <1>2, <1>3, <1>4, <1>5, <1>6 DEF Next

\* The invariant holds for as long as the names agree with the filesystem.
LEMMA Invariant == Spec /\ []NamesAgree => []IInv
BY InitInv, StepInv, PTL DEF Spec

\* While the names agree with the filesystem, the two maps of the namespace stay
\* inverse to each other under concurrent lookups and listings, links, renames,
\* removals and rollbacks (Namespace::insert, add_alias, remove).
THEOREM NamespaceKept == Spec /\ []NamesAgree => []NamespaceConsistent
<1>1. IInv => NamespaceConsistent
  BY DEF IInv, InStep, Paired, NamespaceConsistent, Knows
<1> QED
  BY <1>1, Invariant, PTL

\* While the names agree with the filesystem, a node's link count in the runtime
\* is the number of names the adapter has for it, and no named node is reclaimed
\* (remove_entry, rename, link, rollback_dentry).
THEOREM LinksCounted == Spec /\ []NamesAgree => []LinksAreNames
<1>1. ASSUME IInv PROVE LinksAreNames
  <2>1. ASSUME NEW i \in Live \ {ROOT}
        PROVE  table.map[i].count["links"] = Cardinality(NamesOf(ns, i))
    <3>1. Cardinality(NamesOf(ns, i)) \in Nat
      BY <1>1, FS_Subset, FS_CardinalityType DEF NamesOf, IInv, InStep, Paired
    <3> QED
      BY <1>1, <3>1 DEF IInv, InStep, Linked, Own, Live
  <2> QED
    BY <1>1, <2>1 DEF IInv, InStep, Linked, NamesOf, LinksAreNames, Live
<1> QED
  BY <1>1, Invariant, PTL

==============================================================================
