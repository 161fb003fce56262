---------------------------- MODULE RuntimeProofs ----------------------------
(***************************************************************************)
(* Theorems about Runtime, for any number of threads, names, nodes, handles *)
(* and references. The inductive invariant says where a request holds a     *)
(* NodeRef (Phase), that links are names (Linked), and that the table is    *)
(* sound for exactly the NodeRefs the threads hold (NodeTableProofs!Sound). *)
(* First come the steps that hand no NodeRef over: those on the directory   *)
(* and on handles, and replies. Then those that take and drop NodeRefs and  *)
(* that count lookups and opens.                                            *)
(***************************************************************************)
EXTENDS Runtime, NodeTableProofs

\* A reference that stands for no record stands for nothing.
RefOf(x) == IF x.record = 0 THEN NoReference ELSE x

\* The NodeRefs alive: at most two per thread.
Owners == Threads \X {"request", "forget"}

\* The NodeRef each of them is.
refs == [p \in Owners |->
            RefOf(IF p[2] = "request" THEN th[p[1]].lease ELSE th[p[1]].flease)]

\* Where a request stands, it holds a NodeRef or it does not.
Phase(x) ==
    /\ x.pc \in {"idle", "entry", "addopen", "relnode", "reply"} => x.lease = NoRef
    /\ x.pc \in {"attr", "leased", "acquire", "scan", "using", "unlease", "relopen",
                 "closing", "waiting", "taken", "listing", "retain"} => x.lease.record # 0
    /\ x.pc = "idle" => x.op = "none"
    /\ x.pc = "leased" => x.op # "create"
    /\ x.pc = "addopen" => x.op = "create"
    /\ x.pc = "addhandle" => IF x.op = "create" THEN x.lease = NoRef ELSE x.lease.record # 0
    /\ x.pc \in {"listing", "retain", "rollback"} => x.op = "readdirplus"
    /\ x.pc \in {"forgotten", "sweep"} /\ x.op # "readdirplus" => x.op = "none" /\ x.lease = NoRef
    /\ x.lease = NoRef \/ x.lease.record # 0
    /\ x.flease.record # 0 <=> x.pc = "forgotten"

\* Every thread is where its request can be.
ThreadsOK ==
    /\ th \in [Threads -> Thread]
    /\ \A u \in Threads : Phase(th[u])

\* The types of what is neither the table nor a thread.
RestOK ==
    /\ names \in [Names -> Nat]
    /\ krefs \in [Records -> Nat] /\ leaked \in [Records -> Nat]
    /\ hrec \in Seq(HandleRecord) /\ open \subseteq DOMAIN hrec

\* The root stays, and links are names.
Linked == ROOT \in DOMAIN table.map /\ LinksExact

\* The inductive invariant.
Inv == ThreadsOK /\ RestOK /\ Linked /\ Sound(table, born, refs)

------------------------------------------------------------------------------
(* What a step of one thread does to the NodeRefs.                           *)

\* There are finitely many NodeRefs.
LEMMA OwnersFinite == IsFiniteSet(DOMAIN refs) /\ DOMAIN refs = Owners
<1>1. IsFiniteSet({"request"}) /\ IsFiniteSet({"forget"})
  BY FS_Singleton
<1>2. IsFiniteSet({"request"} \cup {"forget"})
  BY <1>1, FS_Union, Zenon
<1>3. {"request"} \cup {"forget"} = {"request", "forget"}
  OBVIOUS
<1>4. IsFiniteSet(Threads \X {"request", "forget"})
  BY <1>2, <1>3, RuntimeAssumption, FS_Product
<1>5. QED
  BY <1>4 DEF refs, Owners

\* A thread that keeps its references leaves the NodeRefs as they are.
LEMMA Stays ==
    ASSUME ThreadsOK, NEW t \in Threads, NEW y \in Thread, Phase(y),
           th' = [th EXCEPT ![t] = y],
           RefOf(y.lease) = RefOf(th[t].lease), RefOf(y.flease) = RefOf(th[t].flease)
    PROVE  ThreadsOK' /\ refs' = refs
<1>1. ThreadsOK'
  BY DEF ThreadsOK
<1>2. \A u \in Threads : /\ RefOf(th'[u].lease) = RefOf(th[u].lease)
                         /\ RefOf(th'[u].flease) = RefOf(th[u].flease)
  BY DEF ThreadsOK
<1>3. \A p \in Owners : p[1] \in Threads
  BY DEF Owners
<1>4. QED
  BY <1>1, <1>2, <1>3 DEF refs

\* A thread that changes the reference of its request changes that NodeRef.
LEMMA Changes ==
    ASSUME ThreadsOK, NEW t \in Threads, NEW y \in Thread, Phase(y),
           th' = [th EXCEPT ![t] = y], RefOf(y.flease) = RefOf(th[t].flease)
    PROVE  /\ ThreadsOK' /\ <<t, "request">> \in Owners
           /\ refs' = [refs EXCEPT ![<<t, "request">>] = RefOf(y.lease)]
<1>1. ThreadsOK'
  BY DEF ThreadsOK
<1>2. \A u \in Threads : /\ u # t => th'[u] = th[u]
                         /\ RefOf(th'[u].flease) = RefOf(th[u].flease)
  BY DEF ThreadsOK
<1>3. th'[t] = y
  BY DEF ThreadsOK
<1>4. \A p \in Owners : /\ p[1] \in Threads
                        /\ p[2] = "request" \/ p[2] = "forget"
                        /\ p[1] = t /\ p[2] = "request" <=> p = <<t, "request">>
  BY DEF Owners
<1>5. \A p \in Owners : refs'[p] = [refs EXCEPT ![<<t, "request">>] = RefOf(y.lease)][p]
  BY <1>2, <1>3, <1>4 DEF refs
<1>6. QED
  BY <1>1, <1>5, Zenon DEF refs, Owners

\* Likewise for the reference of its forget.
LEMMA ChangesForget ==
    ASSUME ThreadsOK, NEW t \in Threads, NEW y \in Thread, Phase(y),
           th' = [th EXCEPT ![t] = y], RefOf(y.lease) = RefOf(th[t].lease)
    PROVE  /\ ThreadsOK' /\ <<t, "forget">> \in Owners
           /\ refs' = [refs EXCEPT ![<<t, "forget">>] = RefOf(y.flease)]
<1>1. ThreadsOK'
  BY DEF ThreadsOK
<1>2. \A u \in Threads : /\ u # t => th'[u] = th[u]
                         /\ RefOf(th'[u].lease) = RefOf(th[u].lease)
  BY DEF ThreadsOK
<1>3. th'[t] = y
  BY DEF ThreadsOK
<1>4. \A p \in Owners : /\ p[1] \in Threads
                        /\ p[2] = "request" \/ p[2] = "forget"
                        /\ p[1] = t /\ p[2] = "forget" <=> p = <<t, "forget">>
  BY DEF Owners
<1>5. \A p \in Owners : refs'[p] = [refs EXCEPT ![<<t, "forget">>] = RefOf(y.flease)][p]
  BY <1>2, <1>3, <1>4 DEF refs
<1>6. QED
  BY <1>1, <1>5, Zenon DEF refs, Owners

\* The NodeRefs of thread t.
LEMMA RefsAt ==
    ASSUME NEW t \in Threads
    PROVE  /\ <<t, "request">> \in DOMAIN refs /\ refs[<<t, "request">>] = RefOf(th[t].lease)
           /\ <<t, "forget">> \in DOMAIN refs /\ refs[<<t, "forget">>] = RefOf(th[t].flease)
<1>1. <<t, "request">> \in Owners /\ <<t, "forget">> \in Owners
  BY DEF Owners
<1>2. QED
  BY <1>1 DEF refs

\* A step of one thread that changes no NodeRef and keeps the table sound.
LEMMA KeepsRefs ==
    ASSUME Inv, NEW t \in Threads, NEW y \in Thread, Phase(y), th' = [th EXCEPT ![t] = y],
           RefOf(y.lease) = RefOf(th[t].lease), RefOf(y.flease) = RefOf(th[t].flease),
           RestOK', Linked', Sound(table', born', refs)
    PROVE  Inv'
<1>1. ThreadsOK' /\ refs' = refs
  BY Stays, Zenon DEF Inv
<1>2. QED
  BY <1>1 DEF Inv

\* A step of one thread that leaves the node table alone as well.
LEMMA KeepsTable ==
    ASSUME Inv, NEW t \in Threads, NEW y \in Thread, Phase(y), th' = [th EXCEPT ![t] = y],
           RefOf(y.lease) = RefOf(th[t].lease), RefOf(y.flease) = RefOf(th[t].flease),
           RestOK', UNCHANGED <<table, born, names>>
    PROVE  Inv'
<1>1. Sound(table', born', refs) /\ Linked'
  BY DEF Inv, Linked, LinksExact, Contains
<1>2. QED
  BY <1>1, KeepsRefs, Zenon

\* A step that only moves a thread on.
LEMMA MovesOn ==
    ASSUME Inv, NEW t \in Threads, NEW s \in Steps, Goto(t, s), Phase([th[t] EXCEPT !.pc = s]),
           RestOK', Linked', Sound(table', born', refs)
    PROVE  Inv'
<1> DEFINE y == [th[t] EXCEPT !.pc = s]
<1>1. y \in Thread /\ y.lease = th[t].lease /\ y.flease = th[t].flease
  BY Zenon DEF Inv, ThreadsOK, Thread
<1>2. th' = [th EXCEPT ![t] = y]
  BY DEF Goto
<1>3. Phase(y)
  OBVIOUS
<1> HIDE DEF y
<1>4. QED
  BY <1>1, <1>2, <1>3, KeepsRefs, Zenon

\* A step of one thread that changes the NodeRef of its request.
LEMMA ChangesRef ==
    ASSUME Inv, NEW t \in Threads, NEW y \in Thread, Phase(y), th' = [th EXCEPT ![t] = y],
           RefOf(y.flease) = RefOf(th[t].flease), RestOK', Linked',
           Sound(table', born', [refs EXCEPT ![<<t, "request">>] = RefOf(y.lease)])
    PROVE  Inv'
<1>1. ThreadsOK' /\ refs' = [refs EXCEPT ![<<t, "request">>] = RefOf(y.lease)]
  BY Changes, Zenon DEF Inv
<1>2. QED
  BY <1>1 DEF Inv

\* A step of one thread that changes the NodeRef of its forget.
LEMMA ChangesForgetRef ==
    ASSUME Inv, NEW t \in Threads, NEW y \in Thread, Phase(y), th' = [th EXCEPT ![t] = y],
           RefOf(y.lease) = RefOf(th[t].lease), RestOK', Linked',
           Sound(table', born', [refs EXCEPT ![<<t, "forget">>] = RefOf(y.flease)])
    PROVE  Inv'
<1>1. ThreadsOK' /\ refs' = [refs EXCEPT ![<<t, "forget">>] = RefOf(y.flease)]
  BY ChangesForget, Zenon DEF Inv
<1>2. QED
  BY <1>1 DEF Inv

\* A step that touches neither directory, references nor handles.
LEMMA RestStays ==
    ASSUME RestOK, UNCHANGED <<names, krefs, leaked, open, hrec>>
    PROVE  RestOK'
  BY DEF RestOK

------------------------------------------------------------------------------
(* What the table operations do to the link counts.                          *)

\* t2 has the links of t: a slot stays with its links, or had none and goes.
SameLinks(t, t2) ==
    /\ \A i \in DOMAIN t2.map :
          i \in DOMAIN t.map /\ t2.map[i].count["links"] = t.map[i].count["links"]
    /\ \A i \in DOMAIN t.map : i \in DOMAIN t2.map \/ t.map[i].count["links"] = 0

\* Changing another count leaves the links alone.
LEMMA RecountedLinks ==
    ASSUME NEW t, NEW t2, NEW e \in DOMAIN t.map, Recounted(t, t2, e),
           t2.map[e].count["links"] = t.map[e].count["links"]
    PROVE  SameLinks(t, t2)
  BY DEF SameLinks, Recounted

\* maybe_drop takes no slot with a link.
LEMMA MaybeDropLinks ==
    ASSUME NEW t, NEW b, NEW e, Typed(t), Accounted(t, b)
    PROVE  SameLinks(t, MaybeDrop(t, e))
<1>1. \A i \in DOMAIN MaybeDrop(t, e).map :
          i \in DOMAIN t.map /\ MaybeDrop(t, e).map[i] = t.map[i]
  BY DEF MaybeDrop, Contains
<1>2. \A i \in DOMAIN t.map : i \in DOMAIN MaybeDrop(t, e).map \/ (i = e /\ Droppable(t.map[e]))
  BY MaybeDropAccounted, Zenon
<1>3. Droppable(t.map[e]) => t.map[e].count["links"] = 0
  BY DEF Droppable, Counts
<1>4. QED
  BY <1>1, <1>2, <1>3 DEF SameLinks

\* Keeping links is transitive: an operation that counts and then reclaims.
LEMMA SameLinksTwice ==
    ASSUME NEW t, NEW t1, NEW t2, SameLinks(t, t1), SameLinks(t1, t2)
    PROVE  SameLinks(t, t2)
  BY DEF SameLinks

\* add_open, retain_lookup and Cx::get.
LEMMA IncLinks ==
    ASSUME NEW t, Typed(t), NEW e \in DOMAIN t.map, NEW c \in Counts \ {"links"}
    PROVE  SameLinks(t, Inc(t, e, c))
<1>1. c \in Counts /\ "links" \in Counts /\ "links" # c
  BY DEF Counts
<1>2. Recounted(t, Inc(t, e, c), e)
  BY <1>1, IncCounts
<1>3. Inc(t, e, c).map[e].count["links"] = t.map[e].count["links"]
  BY <1>1, IncCounts
<1>4. QED
  BY <1>2, <1>3, RecountedLinks

\* forget and drop_open leave the links of every node alone.
LEMMA DecLinks ==
    ASSUME NEW t, NEW b, Typed(t), Accounted(t, b), NEW e \in DOMAIN t.map,
           NEW c \in Counts \ {"links"}, NEW n \in Nat
    PROVE  /\ Typed(Dec(t, e, c, n)) /\ Accounted(Dec(t, e, c, n), b)
           /\ SameLinks(t, Dec(t, e, c, n)) /\ e \in DOMAIN Dec(t, e, c, n).map
<1> DEFINE t1 == Dec(t, e, c, n)
<1>1. /\ Typed(t1) /\ Recounted(t, t1, e)
      /\ t1.map[e].count["links"] = t.map[e].count["links"]
  BY DecCounts DEF Counts
<1> HIDE DEF t1
<1>2. Accounted(t1, b)
  BY <1>1, RecountedAccounted
<1>3. SameLinks(t, t1) /\ e \in DOMAIN t1.map
  BY <1>1, RecountedLinks DEF Recounted
<1>4. QED
  BY <1>1, <1>2, <1>3 DEF t1

\* remove_open.
LEMMA RemoveOpenLinks ==
    ASSUME NEW t, NEW b, Typed(t), Accounted(t, b), NEW e
    PROVE  SameLinks(t, RemoveOpen(t, e))
<1> DEFINE t1 == Dec(t, e, "opens", 1)
<1>1. Typed(t1) /\ Accounted(t1, b) /\ SameLinks(t, t1)
  <2>1. CASE e \in DOMAIN t.map
    BY <2>1, DecLinks DEF Counts
  <2>2. CASE e \notin DOMAIN t.map
    BY <2>2 DEF Dec, Contains, SameLinks
  <2>3. QED
    BY <2>1, <2>2
<1> HIDE DEF t1
<1>2. SameLinks(t1, MaybeDrop(t1, e))
  BY <1>1, MaybeDropLinks
<1>3. QED
  BY <1>1, <1>2, SameLinksTwice DEF t1, RemoveOpen

\* Drop for NodeRef.
LEMMA DropRefLinks ==
    ASSUME NEW t, NEW b, Typed(t), Accounted(t, b), NEW e, NEW r
    PROVE  SameLinks(t, DropRef(t, e, r))
<1> DEFINE t1 == IF Contains(t, e) /\ t.map[e].record = r THEN Dec(t, e, "leases", 1) ELSE t
<1>1. Typed(t1) /\ Accounted(t1, b) /\ SameLinks(t, t1)
  <2>1. CASE Contains(t, e) /\ t.map[e].record = r
    BY <2>1, DecLinks DEF Counts, Contains
  <2>2. CASE ~(Contains(t, e) /\ t.map[e].record = r)
    BY <2>2 DEF SameLinks
  <2>3. QED
    BY <2>1, <2>2
<1>2. DropRef(t, e, r) = MaybeDrop(t1, e)
  BY DEF DropRef
<1> HIDE DEF t1
<1>3. SameLinks(t1, MaybeDrop(t1, e))
  BY <1>1, MaybeDropLinks
<1>4. QED
  BY <1>1, <1>2, <1>3, SameLinksTwice

\* The first critical section of forget.
LEMMA ForgetLinks ==
    ASSUME NEW t, NEW b, Typed(t), Accounted(t, b), NEW e \in DOMAIN t.map, NEW n \in Nat
    PROVE  SameLinks(t, ForgetLookups(t, e, n))
<1> DEFINE t1 == Dec(t, e, "lookups", n)
<1>1. Typed(t1) /\ SameLinks(t, t1) /\ e \in DOMAIN t1.map
  BY DecLinks DEF Counts
<1>2. ForgetLookups(t, e, n) = t1 \/ ForgetLookups(t, e, n) = Get(t1, e)
  BY DEF ForgetLookups
<1> HIDE DEF t1
<1>3. SameLinks(t1, Get(t1, e))
  BY <1>1, IncLinks DEF Get, Counts
<1>4. QED
  BY <1>1, <1>2, <1>3, SameLinksTwice

\* The names of a node can be counted.
LEMMA NamesCounted ==
    ASSUME NEW S \in SUBSET Names
    PROVE  /\ IsFiniteSet(S) /\ Cardinality(S) \in Nat /\ (Cardinality(S) = 0 <=> S = {})
           /\ \A n \in Names \ S : Cardinality(S \cup {n}) = Cardinality(S) + 1
           /\ \A n \in S : Cardinality(S \ {n}) = Cardinality(S) - 1
<1>1. IsFiniteSet(S)
  BY RuntimeAssumption, FS_Subset
<1>2. Cardinality(S) \in Nat /\ (Cardinality(S) = 0 <=> S = {})
  BY <1>1, FS_CardinalityType, FS_EmptySet
<1>3. \A n \in Names \ S : Cardinality(S \cup {n}) = Cardinality(S) + 1
  BY <1>1, FS_AddElement
<1>4. \A n \in S : Cardinality(S \ {n}) = Cardinality(S) - 1
  BY <1>1, FS_RemoveElement
<1>5. QED
  BY <1>1, <1>2, <1>3, <1>4

\* An operation that changes no links keeps them equal to the names.
LEMMA LinksKept ==
    ASSUME Inv, names' = names, SameLinks(table, table')
    PROVE  Linked'
<1>1. ASSUME NEW n \in Names, names[n] # 0
      PROVE  names[n] \in DOMAIN table'.map
  <2> DEFINE S == {m \in Names : names[m] = names[n]}
  <2>1. names[n] \in DOMAIN table.map
    BY <1>1 DEF Inv, Linked, LinksExact, Contains
  <2>2. table.map[names[n]].count["links"] = Cardinality(S) + (IF names[n] = ROOT THEN 1 ELSE 0)
    BY <2>1 DEF Inv, Linked, LinksExact
  <2>3. Cardinality(S) \in Nat /\ Cardinality(S) # 0
    <3>1. S \in SUBSET Names /\ n \in S
      OBVIOUS
    <3>2. QED
      BY <3>1, NamesCounted
  <2>4. table.map[names[n]].count["links"] # 0
    BY <2>2, <2>3
  <2>5. QED
    BY <2>1, <2>4 DEF SameLinks
<1>2. ROOT \in DOMAIN table'.map
  <2> DEFINE S == {m \in Names : names[m] = ROOT}
  <2>1. ROOT \in DOMAIN table.map /\ table.map[ROOT].count["links"] = Cardinality(S) + 1
    BY DEF Inv, Linked, LinksExact
  <2>2. Cardinality(S) \in Nat
    BY NamesCounted
  <2>3. QED
    BY <2>1, <2>2 DEF SameLinks
<1>3. QED
  BY <1>1, <1>2 DEF Inv, Linked, LinksExact, SameLinks, Contains

\* The names of a node.
Named(i) == {n \in Names : names[n] = i}

\* remove_link of a linked node: one link less, and the node goes only with
\* its last.
LEMMA RemoveLinkCounts ==
    ASSUME NEW t, NEW b, Typed(t), Accounted(t, b), NEW e \in DOMAIN t.map,
           t.map[e].count["links"] # 0
    PROVE  /\ \A i \in DOMAIN RemoveLink(t, e).map :
                 /\ i \in DOMAIN t.map
                 /\ RemoveLink(t, e).map[i].count["links"]
                        = t.map[i].count["links"] - (IF i = e THEN 1 ELSE 0)
           /\ \A i \in DOMAIN t.map :
                 i \in DOMAIN RemoveLink(t, e).map \/ (i = e /\ t.map[e].count["links"] = 1)
<1> DEFINE t1 == Dec(t, e, "links", 1)
           t2 == MaybeDrop(t1, e)
<1>1. "links" \in Counts /\ t2 = RemoveLink(t, e)
  BY DEF Counts, RemoveLink
<1>2. \A i \in DOMAIN t.map : t.map[i].count["links"] \in Nat
  BY <1>1 DEF Typed, Slot
<1>3. /\ Typed(t1) /\ Recounted(t, t1, e)
      /\ t1.map[e].count["links"]
             = IF t.map[e].count["links"] > 1 THEN t.map[e].count["links"] - 1 ELSE 0
  BY <1>1, DecCounts
<1> HIDE DEF t1, t2
<1>4. t1.map[e].count["links"] = t.map[e].count["links"] - 1
  BY <1>2, <1>3
<1>5. Accounted(t1, b)
  BY <1>3, RecountedAccounted
<1>6. SameLinks(t1, t2)
  BY <1>3, <1>5, MaybeDropLinks DEF t2
<1>7. /\ DOMAIN t1.map = DOMAIN t.map
      /\ \A i \in DOMAIN t.map : i # e => t1.map[i] = t.map[i]
  BY <1>3 DEF Recounted
<1>8. \A i \in DOMAIN t1.map : i \in DOMAIN t2.map \/ i = e
  BY DEF t2, MaybeDrop, Contains
<1>9. ASSUME NEW i \in DOMAIN t2.map
      PROVE  /\ i \in DOMAIN t.map
             /\ t2.map[i].count["links"] = t.map[i].count["links"] - (IF i = e THEN 1 ELSE 0)
  <2>1. i \in DOMAIN t.map /\ t2.map[i].count["links"] = t1.map[i].count["links"]
    BY <1>6, <1>7, <1>9 DEF SameLinks
  <2>2. QED
    BY <1>2, <1>4, <1>7, <2>1
<1>10. ASSUME NEW i \in DOMAIN t.map, i \notin DOMAIN t2.map
       PROVE  i = e /\ t.map[e].count["links"] = 1
  <2>1. i = e
    BY <1>7, <1>8, <1>10
  <2>2. t1.map[e].count["links"] = 0
    BY <1>6, <1>7, <1>10, <2>1 DEF SameLinks
  <2>3. QED
    BY <1>2, <1>4, <2>1, <2>2
<1>11. QED
  BY <1>1, <1>9, <1>10

\* A node that loses one name and one link.
LEMMA LinkRemoved ==
    ASSUME Inv, NEW e \in DOMAIN table.map, Named(e) # {}, table' = RemoveLink(table, e),
           \A i \in DOMAIN table.map :
               Cardinality(Named(i)') = Cardinality(Named(i)) - (IF i = e THEN 1 ELSE 0),
           \A m \in Names : names'[m] = 0 \/ \E k \in Names : names[k] = names'[m]
    PROVE  Linked'
<1> DEFINE Base(i) == IF i = ROOT THEN 1 ELSE 0
<1>1. \A i \in DOMAIN table.map : table.map[i].count["links"] = Cardinality(Named(i)) + Base(i)
  BY DEF Inv, Linked, LinksExact, Named
<1>2. /\ \A i : Cardinality(Named(i)) \in Nat /\ Cardinality(Named(i)') \in Nat
      /\ \A i : Cardinality(Named(i)) = 0 <=> Named(i) = {}
      /\ \A i : Cardinality(Named(i)') = 0 <=> Named(i)' = {}
  <2>1. \A i : Named(i) \in SUBSET Names /\ Named(i)' \in SUBSET Names
    BY DEF Named
  <2>2. QED
    BY <2>1, NamesCounted
<1>3. table.map[e].count["links"] # 0
  BY <1>1, <1>2
<1>4. /\ \A i \in DOMAIN table'.map :
            /\ i \in DOMAIN table.map
            /\ table'.map[i].count["links"]
                   = table.map[i].count["links"] - (IF i = e THEN 1 ELSE 0)
      /\ \A i \in DOMAIN table.map :
            i \in DOMAIN table'.map \/ (i = e /\ table.map[e].count["links"] = 1)
  BY <1>3, RemoveLinkCounts DEF Inv, Sound
<1>5. \A i \in DOMAIN table'.map :
          table'.map[i].count["links"] = Cardinality(Named(i)') + Base(i)
  BY <1>1, <1>2, <1>4
<1>6. \A i \in DOMAIN table.map : Named(i)' # {} => i \in DOMAIN table'.map
  BY <1>1, <1>2, <1>4
<1>7. ROOT \in DOMAIN table'.map
  BY <1>1, <1>2, <1>4 DEF Inv, Linked
<1>8. ASSUME NEW m \in Names, names'[m] # 0
      PROVE  names'[m] \in DOMAIN table'.map
  <2>1. PICK k \in Names : names[k] = names'[m]
    BY <1>8
  <2>2. PICK v : v = names'[m]
    OBVIOUS
  <2>3. v \in DOMAIN table.map
    BY <1>8, <2>1, <2>2 DEF Inv, Linked, LinksExact, Contains
  <2>4. m \in Named(v)'
    BY <2>2 DEF Named
  <2>5. QED
    BY <1>6, <2>2, <2>3, <2>4
<1>9. QED
  BY <1>5, <1>7, <1>8 DEF Linked, LinksExact, Named, Contains

------------------------------------------------------------------------------
(* One lemma per action.                                                     *)

\* Steps that only move a thread on: a callback or fs.entry_attr returns, a
\* handle is looked for, fs.release returns, a listing ends.
LEMMA QuietStep ==
    ASSUME Inv, NEW t \in Threads,
           \/ EntryFails(t) \/ NodeCallback(t) \/ FetchHandle(t) \/ CheckOpens(t)
           \/ Released(t) \/ PlusEnd(t) \/ PlusReplyFails(t)
    PROVE  Inv'
<1>1. th[t] \in Thread /\ Phase(th[t])
  BY DEF Inv, ThreadsOK
<1>2. RestOK' /\ UNCHANGED <<table, born, names>>
  BY RestStays DEF Inv, EntryFails, NodeCallback, FetchHandle, CheckOpens, Released, PlusEnd,
                   PlusReplyFails
<1>a. Linked' /\ Sound(table', born', refs)
  BY <1>2 DEF Inv, Linked, LinksExact, Contains
<1>3. PICK s \in {"unlease", "acquire", "scan", "using", "rollback"} :
          Goto(t, s) /\ Phase([th[t] EXCEPT !.pc = s])
  <2>1. CASE EntryFails(t)
    BY <1>1, <2>1 DEF EntryFails, Phase, Thread
  <2>2. CASE NodeCallback(t)
    BY <1>1, <2>2 DEF NodeCallback, Phase, Thread
  <2>3. CASE FetchHandle(t)
    BY <1>1, <2>3 DEF FetchHandle, Phase, Thread
  <2>4. CASE CheckOpens(t)
    BY <1>1, <2>4 DEF CheckOpens, Phase, Thread
  <2>5. CASE Released(t)
    BY <1>1, <2>5 DEF Released, Phase, Thread
  <2>6. CASE PlusEnd(t)
    BY <1>1, <2>6 DEF PlusEnd, Phase, Thread
  <2>7. CASE PlusReplyFails(t)
    BY <1>1, <2>7 DEF PlusReplyFails, Phase, Thread
  <2>8. QED
    BY <2>1, <2>2, <2>3, <2>4, <2>5, <2>6, <2>7
<1>4. QED
  BY <1>2, <1>a, <1>3, MovesOn, Zenon DEF Steps

\* A thread that has finished holds nothing.
LEMMA IdleOK == IdleThread \in Thread /\ Phase(IdleThread) /\ IdleThread.lease = NoRef
                /\ IdleThread.flease = NoRef /\ RefOf(NoRef) = NoReference
  BY DEF IdleThread, Thread, Phase, NoRef, Ref, Steps, RefOf

\* A request that holds no NodeRef ends.
LEMMA Finishes ==
    ASSUME Inv, NEW t \in Threads, Finish(t), th[t].lease = NoRef, th[t].flease.record = 0,
           RestOK', UNCHANGED <<table, born, names>>
    PROVE  Inv'
<1>1. RefOf(th[t].lease) = NoReference /\ RefOf(th[t].flease) = NoReference
  BY IdleOK DEF RefOf
<1>2. RefOf(IdleThread.lease) = NoReference /\ RefOf(IdleThread.flease) = NoReference
  BY IdleOK
<1>3. th' = [th EXCEPT ![t] = IdleThread]
  BY DEF Finish
<1>4. QED
  BY <1>1, <1>2, <1>3, IdleOK, KeepsTable, Zenon

\* The entries a request has counted are a number.
LEMMA CountedNat == ASSUME Inv, NEW t \in Threads, NEW r PROVE Counted(t, r) \in Nat
<1> DEFINE a == th[t].accepted
           K == {k \in DOMAIN a : a[k].record = r}
<1>1. a \in Seq(Ref)
  BY DEF Inv, ThreadsOK, Thread
<1>2. DOMAIN a = 1..Len(a) /\ Len(a) \in Nat
  BY <1>1
<1>3. IsFiniteSet(1..Len(a))
  BY <1>2, FS_Interval
<1>4. IsFiniteSet(K)
  BY <1>2, <1>3, FS_Subset
<1>5. Cardinality(K) \in Nat
  BY <1>4, FS_CardinalityType
<1>6. QED
  BY <1>5 DEF Counted

\* Reply and ReplyLost.
LEMMA ReplyStep ==
    ASSUME Inv, NEW t \in Threads, Reply(t) \/ ReplyLost(t)
    PROVE  Inv'
<1>1. th[t].lease = NoRef /\ th[t].flease.record = 0 /\ Finish(t)
  BY DEF Inv, ThreadsOK, Phase, Reply, ReplyLost
<1>2. \A r \in Records : Counted(t, r) \in Nat
  BY CountedNat
<1>3. RestOK'
  BY <1>2 DEF Inv, RestOK, Reply, ReplyLost
<1>4. QED
  BY <1>1, <1>3, Finishes DEF Reply, ReplyLost

\* The handle records stay records when one of them changes.
LEMMA HandlesTyped ==
    ASSUME NEW h \in Seq(HandleRecord), NEW f, NEW x, f \in DOMAIN h => x \in HandleRecord,
           NEW h2, h2 = [h EXCEPT ![f] = x]
    PROVE  h2 \in Seq(HandleRecord) /\ DOMAIN h2 = DOMAIN h
<1>1. h \in [1..Len(h) -> HandleRecord] /\ Len(h) \in Nat /\ DOMAIN h = 1..Len(h)
  OBVIOUS
<1>2. h2 \in [1..Len(h) -> HandleRecord]
  BY <1>1, Zenon
<1>3. QED
  BY <1>1, <1>2

\* The active count of a handle goes up, or down, or the handle closes.
LEMMA HandleChanges ==
    ASSUME RestOK, UNCHANGED <<names, krefs, leaked, open>>, NEW f,
           \/ hrec' = [hrec EXCEPT ![f].active = @ + 1]
           \/ hrec' = [hrec EXCEPT ![f].active = IF @ > 0 THEN @ - 1 ELSE 0]
           \/ hrec' = [hrec EXCEPT ![f].closing = TRUE]
           \/ hrec' = [hrec EXCEPT ![f].taken = TRUE]
    PROVE  RestOK'
<1> DEFINE up   == [hrec[f] EXCEPT !.active = @ + 1]
           down == [hrec[f] EXCEPT !.active = IF @ > 0 THEN @ - 1 ELSE 0]
           shut == [hrec[f] EXCEPT !.closing = TRUE]
           out  == [hrec[f] EXCEPT !.taken = TRUE]
<1>1. f \in DOMAIN hrec => hrec[f] \in HandleRecord
  BY DEF RestOK
<1>2. ASSUME f \in DOMAIN hrec
      PROVE  /\ up \in HandleRecord /\ down \in HandleRecord
             /\ shut \in HandleRecord /\ out \in HandleRecord
  <2>1. hrec[f] \in HandleRecord
    BY <1>1, <1>2
  <2>2. hrec[f].active \in Nat
    BY <2>1 DEF HandleRecord
  <2>3. up \in HandleRecord
    BY <2>1, <2>2 DEF HandleRecord
  <2>4. down \in HandleRecord
    BY <2>1, <2>2 DEF HandleRecord
  <2>5. shut \in HandleRecord
    BY <2>1, Zenon DEF HandleRecord
  <2>6. out \in HandleRecord
    BY <2>1, Zenon DEF HandleRecord
  <2>7. QED
    BY <2>3, <2>4, <2>5, <2>6
<1>3. PICK x \in {up, down, shut, out} : hrec' = [hrec EXCEPT ![f] = x]
  OBVIOUS
<1>4. f \in DOMAIN hrec => x \in HandleRecord
  BY <1>2, Zenon
<1> HIDE DEF up, down, shut, out
<1>5. hrec' \in Seq(HandleRecord) /\ DOMAIN hrec' = DOMAIN hrec
  BY <1>3, <1>4, HandlesTyped, Zenon DEF RestOK
<1>6. QED
  BY <1>5 DEF RestOK

\* file(), dir() and the fallback lease a handle; a lease goes back; release
\* closes the handle and takes its payload.
LEMMA HandleStep ==
    ASSUME Inv, NEW t \in Threads,
           Acquire(t) \/ ScanHandles(t) \/ EndUse(t) \/ CloseHandle(t) \/ TakeHandle(t)
    PROVE  Inv'
<1>1. th[t] \in Thread /\ Phase(th[t])
  BY DEF Inv, ThreadsOK
<1>2. UNCHANGED <<table, born, names>>
  BY DEF Acquire, ScanHandles, EndUse, CloseHandle, TakeHandle
<1>a. Linked' /\ Sound(table', born', refs)
  BY <1>2 DEF Inv, Linked, LinksExact, Contains
<1>3. CASE Acquire(t)
  <2>1. PICK s \in {"unlease", "listing", "using"} :
            Goto(t, s) /\ Phase([th[t] EXCEPT !.pc = s])
    BY <1>1, <1>3 DEF Acquire, Phase, Thread
  <2>2. RestOK'
    BY <1>3, HandleChanges, RestStays DEF Inv, Acquire
  <2>3. QED
    BY <1>a, <2>1, <2>2, MovesOn, Zenon DEF Steps
<1>4. CASE ScanHandles(t)
  <2>1. CASE Goto(t, "unlease") /\ UNCHANGED hrec
    <3>1. Phase([th[t] EXCEPT !.pc = "unlease"])
      BY <1>1, <1>4 DEF ScanHandles, Phase, Thread
    <3>2. RestOK'
      BY <1>4, <2>1, RestStays DEF Inv, ScanHandles
    <3>3. QED
      BY <1>a, <2>1, <3>1, <3>2, MovesOn, Zenon DEF Steps
  <2>2. CASE ~(Goto(t, "unlease") /\ UNCHANGED hrec)
    <3>1. PICK f \in open : /\ hrec' = [hrec EXCEPT ![f].active = @ + 1]
                            /\ th' = [th EXCEPT ![t].pc = "using", ![t].fh = f]
      BY <1>4, <2>2 DEF ScanHandles
    <3> DEFINE y == [th[t] EXCEPT !.pc = "using", !.fh = f]
    <3>2. f \in Nat
      BY DEF Inv, RestOK
    <3>3. y \in Thread /\ Phase(y) /\ y.lease = th[t].lease /\ y.flease = th[t].flease
      BY <1>1, <1>4, <3>2, Zenon DEF ScanHandles, Phase, Thread, Steps
    <3>4. th' = [th EXCEPT ![t] = y]
      BY <3>1, Zenon
    <3>5. RestOK'
      BY <1>4, <3>1, HandleChanges, Zenon DEF Inv, ScanHandles
    <3> HIDE DEF y
    <3>6. QED
      BY <1>2, <3>3, <3>4, <3>5, KeepsTable, Zenon
  <2>3. QED
    BY <2>1, <2>2
<1>5. CASE EndUse(t) \/ CloseHandle(t) \/ TakeHandle(t)
  <2>1. PICK s \in {"unlease", "waiting", "taken"} :
            Goto(t, s) /\ Phase([th[t] EXCEPT !.pc = s])
    BY <1>1, <1>5 DEF EndUse, CloseHandle, TakeHandle, Phase, Thread
  <2>2. RestOK'
    BY <1>5, HandleChanges DEF Inv, EndUse, CloseHandle, TakeHandle
  <2>3. QED
    BY <1>a, <2>1, <2>2, MovesOn, Zenon DEF Steps
<1>6. QED
  BY <1>3, <1>4, <1>5

\* add_file and add_dir: the handle gets the next number.
LEMMA AddHandleStep ==
    ASSUME Inv, NEW t \in Threads, AddHandle(t)
    PROVE  Inv'
<1> DEFINE y == [th[t] EXCEPT !.pc = IF th[t].op = "create" THEN "reply" ELSE "unlease",
                              !.fh = Len(hrec) + 1]
           x == NewHandle(th[t].id)
<1>1. th[t] \in Thread /\ Phase(th[t]) /\ hrec \in Seq(HandleRecord)
  BY DEF Inv, ThreadsOK, RestOK
<1>2. y \in Thread /\ Phase(y) /\ y.lease = th[t].lease /\ y.flease = th[t].flease
  <2>1. Len(hrec) + 1 \in Nat
    BY <1>1
  <2>2. y \in Thread
    BY <1>1, <2>1, Zenon DEF Thread, Steps
  <2>3. /\ y.lease = th[t].lease /\ y.flease = th[t].flease /\ y.op = th[t].op
        /\ y.pc = IF th[t].op = "create" THEN "reply" ELSE "unlease"
    BY <1>1 DEF Thread
  <2>4. th[t].pc = "addhandle"
    BY DEF AddHandle
  <2>5. Phase(y)
    BY <1>1, <2>3, <2>4 DEF Phase
  <2>6. QED
    BY <2>2, <2>3, <2>5
<1>3. th' = [th EXCEPT ![t] = y]
  BY Zenon DEF AddHandle
<1>4. x \in HandleRecord
  BY <1>1 DEF NewHandle, HandleRecord, Thread
<1>5. hrec' = Append(hrec, x) /\ open' = open \cup {Len(hrec) + 1}
  BY DEF AddHandle
<1> HIDE DEF y, x
<1>6. hrec' \in Seq(HandleRecord) /\ DOMAIN hrec' = DOMAIN hrec \cup {Len(hrec) + 1}
  BY <1>1, <1>4, <1>5
<1>7. RestOK'
  BY <1>5, <1>6 DEF Inv, RestOK, AddHandle
<1>8. QED
  BY <1>2, <1>3, <1>7, KeepsTable, Zenon DEF AddHandle

\* Release starts: the record leaves the table.
LEMMA ReleaseStep ==
    ASSUME Inv, NEW t \in Threads, NEW f \in DOMAIN hrec, Release(t, f)
    PROVE  Inv'
<1> DEFINE y == [IdleThread EXCEPT !.pc = "relnode", !.op = "release",
                                   !.id = hrec[f].node, !.fh = f]
<1>1. hrec[f] \in HandleRecord /\ f \in Nat
  BY DEF Inv, RestOK
<1>2. y \in Thread /\ Phase(y) /\ y.lease = NoRef /\ y.flease = NoRef
  <2>1. hrec[f].node \in Nat
    BY <1>1 DEF HandleRecord
  <2>2. y \in Thread
    BY <1>1, <2>1, IdleOK, Zenon DEF Thread, Steps, AllOps
  <2>3. y.lease = NoRef /\ y.flease = NoRef /\ y.pc = "relnode" /\ y.op = "release"
    BY IdleOK DEF IdleThread
  <2>4. Phase(y)
    BY <2>3 DEF Phase, NoRef
  <2>5. QED
    BY <2>2, <2>3, <2>4
<1>3. th[t].lease = NoRef /\ th[t].flease.record = 0
  BY DEF Inv, ThreadsOK, Phase, Release, Start, Idle
<1>4. th' = [th EXCEPT ![t] = y]
  BY DEF Release
<1>5. RestOK'
  BY DEF Inv, RestOK, Release
<1> HIDE DEF y
<1>6. RefOf(y.lease) = RefOf(th[t].lease) /\ RefOf(y.flease) = RefOf(th[t].flease)
  BY <1>2, <1>3 DEF RefOf, NoRef
<1>7. QED
  BY <1>2, <1>4, <1>5, <1>6, KeepsTable, Zenon DEF Release

\* What a live number stands for.
LEMMA LiveTyped ==
    ASSUME Inv, NEW i \in DOMAIN table.map
    PROVE  i \in Nat \ {0} /\ table.map[i].record \in Nat \ {0}
<1>1. i \in 1..(table.next_ino - 1) /\ table.next_ino \in Nat
  BY DEF Inv, Sound, Accounted, Typed
<1>2. table.map[i] \in Slot /\ table.map[i].record # 0
  BY RecordPositive DEF Inv, Sound, Typed
<1>3. QED
  BY <1>1, <1>2 DEF Slot

\* A callback has returned an entry: its request holds no NodeRef yet.
LEMMA CallbackReturns ==
    ASSUME Inv, NEW t \in Threads, Idle(t), NEW o \in AllOps, NEW i \in Nat, NEW r \in Nat,
           EntryCallback(t, o, i, r), RestOK', Linked', Sound(table', born', refs)
    PROVE  Inv'
<1> DEFINE y == [IdleThread EXCEPT !.pc = "entry", !.op = o, !.id = i, !.meant = r]
<1>1. y \in Thread
  BY IdleOK, Zenon DEF Thread, Steps
<1>2. y.pc = "entry" /\ y.lease = NoRef /\ y.flease = NoRef
  BY IdleOK DEF IdleThread
<1>3. Phase(y)
  BY <1>2 DEF Phase, NoRef
<1>4. th' = [th EXCEPT ![t] = y]
  BY DEF EntryCallback
<1>5. th[t].lease = NoRef /\ th[t].flease.record = 0
  BY DEF Inv, ThreadsOK, Phase, Idle
<1> HIDE DEF y
<1>6. RefOf(y.lease) = RefOf(th[t].lease) /\ RefOf(y.flease) = RefOf(th[t].flease)
  BY <1>2, <1>5 DEF RefOf, NoRef
<1>7. QED
  BY <1>1, <1>3, <1>4, <1>6, KeepsRefs, Zenon

\* lookup finds the name: it leads to a live node.
LEMMA LookupStep ==
    ASSUME Inv, NEW t \in Threads, NEW n \in Names, Lookup(t, n)
    PROVE  Inv'
<1>1. names[n] \in DOMAIN table.map
  BY DEF Inv, Linked, LinksExact, Lookup, Contains
<1>2. names[n] \in Nat /\ table.map[names[n]].record \in Nat
  BY <1>1, LiveTyped
<1>3. RestOK' /\ UNCHANGED <<table, born, names>>
  BY RestStays DEF Inv, Lookup
<1>4. Linked' /\ Sound(table', born', refs)
  BY <1>3 DEF Inv, Linked, LinksExact, Contains
<1>5. Idle(t) /\ "lookup" \in AllOps
      /\ EntryCallback(t, "lookup", names[n], table.map[names[n]].record)
  BY DEF Lookup, Start, AllOps
<1>6. QED
  BY <1>2, <1>3, <1>4, <1>5, CallbackReturns

\* mknod, mkdir, symlink and create insert a node under one name.
LEMMA MakeNodeStep ==
    ASSUME Inv, NEW t \in Threads, NEW o \in {"mknod", "create"}, NEW n \in Names,
           MakeNode(t, o, n)
    PROVE  Inv'
<1> DEFINE a == Alloc(table)
           t2 == Insert(table, Len(born) + 1)
<1>1. Typed(table) /\ Accounted(table, born) /\ Len(born) \in Nat
  <2>1. Typed(table) /\ Accounted(table, born)
    BY DEF Inv, Sound
  <2>2. born \in Seq(FreeEntry)
    BY <2>1 DEF Accounted
  <2>3. QED
    BY <2>1, <2>2
<1>2. a \in FreeEntry /\ a.ino \notin DOMAIN table.map
  BY <1>1, InsertAccounted
<1>3. /\ DOMAIN t2.map = DOMAIN table.map \cup {a.ino}
      /\ t2.map[a.ino] = NewSlot(Len(born) + 1, a.generation)
      /\ \A i \in DOMAIN table.map : t2.map[i] = table.map[i]
  BY <1>1, InsertAccounted
<1>4. Sound(t2, Append(born, a), refs)
  BY InsertSound, OwnersFinite DEF Inv
<1>5. table' = t2 /\ born' = Append(born, a) /\ names' = [names EXCEPT ![n] = a.ino]
  BY DEF MakeNode
<1>6. a.ino \in Nat
  BY <1>2 DEF FreeEntry
<1>7. a.ino # ROOT /\ a.ino # 0
  <2>1. Accounted(t2, Append(born, a)) /\ Typed(t2)
    BY <1>4 DEF Sound
  <2>2. a.ino \in 1..(t2.next_ino - 1) /\ t2.next_ino \in Nat
    BY <1>3, <2>1 DEF Accounted, Typed
  <2>3. ROOT \in DOMAIN table.map
    BY DEF Inv, Linked
  <2>4. QED
    BY <1>2, <2>2, <2>3
<1> HIDE DEF a, t2
<1>8. t2.map[a.ino].count["links"] = 1
  BY <1>3 DEF NewSlot, Counts
<1>9. Linked'
  <2>1. names[n] = 0 /\ names \in [Names -> Nat]
    BY DEF MakeNode, Inv, RestOK
  <2>2. \A m \in Names : names[m] # a.ino
    BY <1>2, <1>7 DEF Inv, Linked, LinksExact, Contains
  <2>3. {m \in Names : names'[m] = a.ino} = {n}
    BY <1>5, <2>1, <2>2
  <2>4. Cardinality({n}) = 1
    BY FS_Singleton
  <2>5. \A i \in DOMAIN table.map :
            {m \in Names : names'[m] = i} = {m \in Names : names[m] = i}
    BY <1>2, <1>5, <2>1, LiveTyped
  <2>6. \A m \in Names : names'[m] # 0 => Contains(table', names'[m])
    BY <1>3, <1>5, <2>1 DEF Inv, Linked, LinksExact, Contains
  <2>7. \A i \in DOMAIN table'.map :
            table'.map[i].count["links"] =
                Cardinality({m \in Names : names'[m] = i}) + (IF i = ROOT THEN 1 ELSE 0)
    <3>2. \A i \in DOMAIN table.map :
              table.map[i].count["links"] =
                  Cardinality({m \in Names : names[m] = i}) + (IF i = ROOT THEN 1 ELSE 0)
      BY DEF Inv, Linked, LinksExact
    <3>3. \A i \in DOMAIN table.map :
              table'.map[i].count["links"] =
                  Cardinality({m \in Names : names'[m] = i}) + (IF i = ROOT THEN 1 ELSE 0)
      BY <1>3, <1>5, <2>5, <3>2, Zenon
    <3>5. SUFFICES ASSUME NEW i \in DOMAIN table'.map
                   PROVE  table'.map[i].count["links"] =
                              Cardinality({m \in Names : names'[m] = i})
                              + (IF i = ROOT THEN 1 ELSE 0)
      OBVIOUS
    <3>6. CASE i = a.ino
      <4>1. {m \in Names : names'[m] = i} = {n} /\ i # ROOT
        BY <1>7, <2>3, <3>6
      <4>2. table'.map[i].count["links"] = 1
        BY <1>5, <1>8, <3>6
      <4>3. QED
        BY <2>4, <4>1, <4>2
    <3>7. CASE i \in DOMAIN table.map
      BY <3>3, <3>7
    <3>8. QED
      BY <1>3, <1>5, <3>6, <3>7
  <2>8. QED
    BY <1>3, <1>5, <2>6, <2>7, Zenon DEF Inv, Linked, LinksExact
<1>10. RestOK'
  BY <1>3, <1>5, <1>6 DEF Inv, RestOK, MakeNode
<1>11. /\ Idle(t) /\ o \in AllOps /\ Len(born) + 1 \in Nat
       /\ EntryCallback(t, o, a.ino, Len(born) + 1)
  BY <1>1 DEF MakeNode, Start, AllOps, a
<1>12. QED
  BY <1>4, <1>5, <1>6, <1>9, <1>10, <1>11, CallbackReturns

\* link: one name and one link more.
LEMMA LinkStep ==
    ASSUME Inv, NEW t \in Threads, NEW i \in DOMAIN table.map, NEW n \in Names, Link(t, i, n)
    PROVE  Inv'
<1>1. i \in Nat \ {0} /\ table.map[i].record \in Nat
  BY LiveTyped
<1>2. /\ names[n] = 0 /\ i # ROOT /\ names' = [names EXCEPT ![n] = i]
      /\ table' = Inc(table, i, "links") /\ born' = born
  BY DEF Link, AddLink, Contains
<1>3. names \in [Names -> Nat]
  BY DEF Inv, RestOK
<1>4. Sound(table', born', refs)
  BY <1>2, IncSound DEF Inv, Counts
<1>5. /\ Recounted(table, table', i)
      /\ table'.map[i].count["links"] = table.map[i].count["links"] + 1
  BY <1>2, IncCounts DEF Inv, Sound, Counts
<1>6. /\ DOMAIN table'.map = DOMAIN table.map
      /\ \A j \in DOMAIN table.map : j # i => table'.map[j] = table.map[j]
  BY <1>5 DEF Recounted
<1>7. Linked'
  <2>1. Named(i)' = Named(i) \cup {n} /\ n \notin Named(i)
    BY <1>1, <1>2, <1>3 DEF Named
  <2>2. Cardinality(Named(i)') = Cardinality(Named(i)) + 1 /\ Cardinality(Named(i)) \in Nat
    BY <2>1, NamesCounted, Zenon DEF Named
  <2>3. \A j \in DOMAIN table.map : j # i => Named(j)' = Named(j)
    BY <1>2, <1>3, LiveTyped DEF Named
  <2>4. \A j \in DOMAIN table.map :
            table.map[j].count["links"] = Cardinality(Named(j)) + (IF j = ROOT THEN 1 ELSE 0)
    BY Zenon DEF Inv, Linked, LinksExact, Named
  <2>5. \A j \in DOMAIN table'.map :
            table'.map[j].count["links"] = Cardinality(Named(j)') + (IF j = ROOT THEN 1 ELSE 0)
    BY <1>2, <1>5, <1>6, <2>2, <2>3, <2>4
  <2>6. \A m \in Names : names'[m] # 0 => Contains(table', names'[m])
    BY <1>2, <1>3, <1>6 DEF Inv, Linked, LinksExact, Contains
  <2>7. QED
    BY <1>6, <2>5, <2>6 DEF Inv, Linked, LinksExact, Named
<1>8. RestOK'
  BY <1>1, <1>2, <1>3 DEF Inv, RestOK, Link
<1>9. Idle(t) /\ "link" \in AllOps /\ EntryCallback(t, "link", i, table.map[i].record)
  BY DEF Link, Start, AllOps
<1>10. QED
  BY <1>1, <1>4, <1>7, <1>8, <1>9, CallbackReturns

\* No thread moves: the NodeRefs are the same.
LEMMA ThreadsStay ==
    ASSUME Inv, th' = th, RestOK', Linked', Sound(table', born', refs)
    PROVE  Inv'
<1>1. refs' = refs /\ ThreadsOK'
  BY DEF refs, Inv, ThreadsOK
<1>2. QED
  BY <1>1 DEF Inv

\* unlink and rmdir.
LEMMA UnlinkStep ==
    ASSUME Inv, NEW n \in Names, Unlink(n)
    PROVE  Inv'
<1>0. PICK e : e = names[n]
  OBVIOUS
<1>1. /\ e # 0 /\ names' = [names EXCEPT ![n] = 0] /\ table' = RemoveLink(table, e)
      /\ born' = born /\ th' = th
  BY <1>0 DEF Unlink
<1>2. names \in [Names -> Nat] /\ e \in DOMAIN table.map
  BY <1>0, <1>1 DEF Inv, RestOK, Linked, LinksExact, Contains
<1>3. Sound(table', born', refs)
  BY <1>1, DecSound, OwnersFinite DEF Inv, Counts, RemoveLink
<1>4. n \in Named(e) /\ Named(e)' = Named(e) \ {n}
  BY <1>0, <1>1, <1>2 DEF Named
<1>5. Cardinality(Named(e)') = Cardinality(Named(e)) - 1
  BY <1>4, NamesCounted DEF Named
<1>6. \A j \in DOMAIN table.map : Cardinality(Named(j)) \in Nat
  <2>1. \A j : Named(j) \in SUBSET Names
    BY DEF Named
  <2>2. QED
    BY <2>1, NamesCounted
<1>7. \A j \in DOMAIN table.map : j # e => Named(j)' = Named(j)
  BY <1>0, <1>1, <1>2, LiveTyped DEF Named
<1>8. \A m \in Names : names'[m] = 0 \/ \E k \in Names : names[k] = names'[m]
  BY <1>1, <1>2
<1>9. Named(e) # {}
  BY <1>4
<1>10. RestOK'
  BY <1>1, <1>2 DEF Inv, RestOK, Unlink
<1>11. \A j \in DOMAIN table.map :
          Cardinality(Named(j)') = Cardinality(Named(j)) - (IF j = e THEN 1 ELSE 0)
  BY <1>5, <1>6, <1>7
<1>12. Linked'
  BY <1>1, <1>2, <1>8, <1>9, <1>11, LinkRemoved
<1>13. QED
  BY <1>1, <1>3, <1>10, <1>12, ThreadsStay

\* rename: the node keeps its links, and the one it replaces loses one.
LEMMA RenameStep ==
    ASSUME Inv, NEW n \in Names, NEW m \in Names, Rename(n, m)
    PROVE  Inv'
<1>0. PICK e, o : e = names[n] /\ o = names[m]
  OBVIOUS
<1>1. /\ e # 0 /\ e # o /\ n # m /\ names' = [names EXCEPT ![n] = 0, ![m] = e]
      /\ table' = IF o = 0 THEN table ELSE RemoveLink(table, o)
      /\ born' = born /\ th' = th
  BY <1>0 DEF Rename
<1>2. names \in [Names -> Nat] /\ e \in DOMAIN table.map /\ (o # 0 => o \in DOMAIN table.map)
  BY <1>0, <1>1 DEF Inv, RestOK, Linked, LinksExact, Contains
<1>3. RestOK'
  <2>1. e \in Nat
    BY <1>0, <1>2
  <2>2. names' \in [Names -> Nat]
    BY <1>1, <1>2, <2>1
  <2>3. QED
    BY <2>2 DEF Inv, RestOK, Rename
<1>4. Sound(table', born', refs)
  BY <1>1, DecSound, OwnersFinite DEF Inv, Counts, RemoveLink
<1>5. /\ n \in Named(e) /\ m \notin Named(e) \ {n}
      /\ Named(e)' = (Named(e) \ {n}) \cup {m}
  BY <1>0, <1>1, <1>2 DEF Named
<1>6. \A j : Named(j) \in SUBSET Names
  BY DEF Named
<1>7. Cardinality(Named(e)') = Cardinality(Named(e))
  <2> DEFINE S == Named(e) \ {n}
  <2>1. Cardinality(S) = Cardinality(Named(e)) - 1 /\ Cardinality(Named(e)) \in Nat
    BY <1>5, <1>6, NamesCounted
  <2>2. S \in SUBSET Names /\ m \in Names \ S /\ Named(e)' = S \cup {m}
    BY <1>5, <1>6
  <2> HIDE DEF S
  <2>3. Cardinality(S \cup {m}) = Cardinality(S) + 1 /\ Cardinality(S) \in Nat
    BY <2>2, NamesCounted
  <2>4. QED
    BY <2>1, <2>2, <2>3
<1>8. \A j \in DOMAIN table.map : j # e /\ j # o => Named(j)' = Named(j)
  BY <1>0, <1>1, <1>2, LiveTyped DEF Named
<1>9. \A k \in Names : names'[k] = 0 \/ \E l \in Names : names[l] = names'[k]
  BY <1>0, <1>1, <1>2
<1>10. Linked'
  <2>1. CASE o = 0
    <3>1. table' = table /\ \A j \in DOMAIN table.map : j # o
      BY <1>1, <2>1, LiveTyped
    <3>2. \A j \in DOMAIN table.map : Cardinality(Named(j)') = Cardinality(Named(j))
      BY <1>7, <1>8, <3>1
    <3>3. \A k \in Names : names'[k] # 0 => Contains(table', names'[k])
      BY <1>9, <3>1 DEF Inv, Linked, LinksExact, Contains
    <3>4. \A j \in DOMAIN table.map :
              table.map[j].count["links"] = Cardinality(Named(j)) + (IF j = ROOT THEN 1 ELSE 0)
      BY DEF Inv, Linked, LinksExact, Named
    <3>5. \A j \in DOMAIN table'.map :
              table'.map[j].count["links"]
                  = Cardinality(Named(j)') + (IF j = ROOT THEN 1 ELSE 0)
      BY <3>1, <3>2, <3>4
    <3>6. QED
      BY <3>1, <3>3, <3>5 DEF Inv, Linked, LinksExact, Named
  <2>2. CASE o # 0
    <3>1. o \in DOMAIN table.map /\ table' = RemoveLink(table, o)
      BY <1>1, <1>2, <2>2
    <3>2. m \in Named(o) /\ Named(o)' = Named(o) \ {m}
      BY <1>0, <1>1, <1>2, <2>2 DEF Named
    <3>3. Cardinality(Named(o)') = Cardinality(Named(o)) - 1 /\ Named(o) # {}
      BY <1>6, <3>2, NamesCounted
    <3>4. \A j \in DOMAIN table.map : Cardinality(Named(j)) \in Nat
      BY <1>6, NamesCounted
    <3>5. \A j \in DOMAIN table.map :
              Cardinality(Named(j)') = Cardinality(Named(j)) - (IF j = o THEN 1 ELSE 0)
      BY <1>1, <1>7, <1>8, <3>3, <3>4
    <3>6. QED
      BY <1>9, <3>1, <3>3, <3>5, LinkRemoved
  <2>3. QED
    BY <2>1, <2>2
<1>11. QED
  BY <1>1, <1>3, <1>4, <1>10, ThreadsStay

------------------------------------------------------------------------------
(* The steps that take and drop NodeRefs, and those that count.              *)

\* A request takes a NodeRef on a live node.
LEMMA LeaseTaken ==
    ASSUME Inv, NEW t \in Threads, NEW i \in DOMAIN table.map, NEW y \in Thread, Phase(y),
           th' = [th EXCEPT ![t] = y], th[t].lease = NoRef,
           y.lease = [ino |-> i, record |-> table.map[i].record],
           RefOf(y.flease) = RefOf(th[t].flease), table' = Get(table, i),
           UNCHANGED <<born, names, krefs, leaked, open, hrec>>
    PROVE  Inv'
<1>1. /\ <<t, "request">> \in DOMAIN refs
      /\ refs[<<t, "request">>].record = 0
  <2>1. RefOf(th[t].lease) = NoReference /\ NoReference.record = 0
    BY IdleOK DEF NoReference
  <2>2. QED
    BY <2>1, RefsAt, Zenon
<1>2. table.map[i].record \in Nat \ {0}
  BY LiveTyped
<1>3. RefOf(y.lease) = y.lease
  BY <1>2 DEF RefOf
<1>4. Sound(table', born', [refs EXCEPT ![<<t, "request">>] = RefOf(y.lease)])
  BY <1>1, <1>3, GetSound, OwnersFinite, Zenon DEF Inv
<1>5. SameLinks(table, table')
  BY IncLinks DEF Inv, Sound, Get, Counts
<1>6. Linked' /\ RestOK'
  BY <1>5, LinksKept, RestStays DEF Inv
<1>7. QED
  BY <1>4, <1>6, ChangesRef, Zenon

\* entry_for's cx.get, and the node of a release.
LEMMA GetStep ==
    ASSUME Inv, NEW t \in Threads, EntryGet(t) \/ ReleaseNode(t)
    PROVE  Inv'
<1>1. th[t] \in Thread /\ Phase(th[t]) /\ th[t].pc \in {"entry", "relnode"}
  BY DEF Inv, ThreadsOK, EntryGet, ReleaseNode
<1>2. th[t].lease = NoRef /\ th[t].flease.record = 0
  BY <1>1 DEF Phase
<1>3. UNCHANGED <<born, names, krefs, leaked, open, hrec>>
  BY DEF EntryGet, ReleaseNode
<1>4. CASE Contains(table, th[t].id)
  <2> DEFINE i == th[t].id
             l == [ino |-> i, record |-> table.map[i].record]
  <2>1. PICK s \in {"attr", "relopen"} :
            th' = [th EXCEPT ![t].pc = s, ![t].lease = l] /\ table' = Get(table, i)
    BY <1>4 DEF EntryGet, ReleaseNode
  <2> DEFINE y == [th[t] EXCEPT !.pc = s, !.lease = l]
  <2>2. i \in DOMAIN table.map /\ s \in Steps
    BY <1>4 DEF Contains, Steps
  <2>3. l \in Ref /\ l.record # 0
    BY <2>2, LiveTyped DEF Ref
  <2>4. th' = [th EXCEPT ![t] = y]
    BY <2>1, Zenon
  <2> HIDE DEF i, l
  <2>5. /\ y \in Thread /\ y.pc = s /\ y.lease = l
        /\ y.op = th[t].op /\ y.flease = th[t].flease
    <3>1. y \in Thread
      BY <1>1, <2>2, <2>3, Zenon DEF Thread
    <3>2. QED
      BY <1>1, <3>1 DEF Thread
  <2> HIDE DEF y
  <2>6. Phase(y)
    BY <1>2, <2>3, <2>5 DEF Phase
  <2>7. y.lease = [ino |-> i, record |-> table.map[i].record]
    BY <2>5 DEF l
  <2>8. QED
    BY <1>2, <1>3, <2>1, <2>2, <2>4, <2>5, <2>6, <2>7, LeaseTaken, Zenon
<1>5. CASE ~Contains(table, th[t].id)
  <2>1. Finish(t) /\ UNCHANGED table
    BY <1>5 DEF EntryGet, ReleaseNode
  <2>2. RestOK'
    BY <1>3, RestStays DEF Inv
  <2>3. QED
    BY <1>2, <1>3, <2>1, <2>2, Finishes
<1>6. QED
  BY <1>4, <1>5

\* node(ino): a request on a node starts with a NodeRef.
LEMMA LeaseNodeStep ==
    ASSUME Inv, NEW t \in Threads, NEW o \in AllOps \ {"create"}, NEW i, NEW f \in Nat,
           LeaseNode(t, o, i, f)
    PROVE  Inv'
<1> DEFINE l == [ino |-> i, record |-> table.map[i].record]
           y == [IdleThread EXCEPT !.pc = "leased", !.op = o, !.id = i, !.fh = f, !.lease = l]
<1>1. i \in DOMAIN table.map /\ th' = [th EXCEPT ![t] = y] /\ table' = Get(table, i)
      /\ UNCHANGED <<born, names, krefs, leaked, open, hrec>>
  BY DEF LeaseNode, Contains
<1>2. th[t].lease = NoRef /\ th[t].flease.record = 0
  BY DEF Inv, ThreadsOK, Phase, LeaseNode, Start, Idle
<1>3. l \in Ref /\ l.record # 0 /\ i \in Nat
  BY <1>1, LiveTyped DEF Ref
<1> HIDE DEF l
<1>4. y \in Thread
  BY <1>3, IdleOK, Zenon DEF Thread, Steps
<1>5. y.pc = "leased" /\ y.op = o /\ y.lease = l /\ y.flease = NoRef
  BY DEF IdleThread
<1> HIDE DEF y
<1>6. Phase(y)
  BY <1>3, <1>5 DEF Phase, NoRef
<1>7. RefOf(y.flease) = RefOf(th[t].flease)
  BY <1>2, <1>5, IdleOK DEF RefOf
<1>8. y.lease = [ino |-> i, record |-> table.map[i].record]
  BY <1>5 DEF l
<1>9. QED
  BY <1>1, <1>2, <1>4, <1>6, <1>7, <1>8, LeaseTaken, Zenon

\* A count other than links and leases goes up.
LEMMA CountsUp ==
    ASSUME Inv, NEW i \in DOMAIN table.map, NEW c \in {"lookups", "opens"},
           table' = Inc(table, i, c), UNCHANGED <<born, names>>
    PROVE  Linked' /\ Sound(table', born', refs)
<1>1. c \in Counts \ {"leases"} /\ c \in Counts \ {"links"}
  BY DEF Counts
<1>2. SameLinks(table, table')
  BY <1>1, IncLinks DEF Inv, Sound
<1>3. QED
  BY <1>1, <1>2, IncSound, LinksKept DEF Inv

\* Nothing the invariant says of the table changes.
LEMMA TableStays ==
    ASSUME Inv, UNCHANGED <<table, born, names>>
    PROVE  Linked' /\ Sound(table', born', refs)
  BY DEF Inv, Linked, LinksExact, Contains

\* entry_for counts the lookup.
LEMMA EntryCountStep ==
    ASSUME Inv, NEW t \in Threads, EntryCount(t)
    PROVE  Inv'
<1>1. th[t] \in Thread /\ Phase(th[t]) /\ th[t].pc = "attr"
  BY DEF Inv, ThreadsOK, EntryCount
<1>2. th[t].lease.record # 0 /\ th[t].flease.record = 0
  BY <1>1 DEF Phase
<1>3. UNCHANGED <<born, names>> /\ RestOK'
  BY RestStays DEF Inv, EntryCount
<1>4. CASE Contains(table, th[t].id)
  <2> DEFINE i == th[t].id
             g == [ino |-> i, record |-> table.map[i].record]
             y == [th[t] EXCEPT !.pc = "unlease", !.got = g]
  <2>1. /\ i \in DOMAIN table.map /\ table' = Inc(table, i, "lookups")
        /\ th' = [th EXCEPT ![t] = y]
    BY <1>4, Zenon DEF EntryCount, Contains, RetainLookup
  <2>2. g \in Ref
    BY <2>1, LiveTyped DEF Ref
  <2> HIDE DEF i, g
  <2>3. y \in Thread
    BY <1>1, <2>2, Zenon DEF Thread, Steps
  <2>4. y.pc = "unlease" /\ y.lease = th[t].lease /\ y.flease = th[t].flease
    BY <1>1 DEF Thread
  <2> HIDE DEF y
  <2>5. Phase(y)
    BY <1>2, <2>4 DEF Phase
  <2>6. Linked' /\ Sound(table', born', refs)
    BY <1>3, <2>1, CountsUp
  <2>7. QED
    BY <1>3, <2>1, <2>3, <2>4, <2>5, <2>6, KeepsRefs, Zenon
<1>5. CASE ~Contains(table, th[t].id)
  <2>1. Goto(t, "unlease") /\ UNCHANGED table
    BY <1>5 DEF EntryCount
  <2>2. Phase([th[t] EXCEPT !.pc = "unlease"])
    BY <1>1, <1>2 DEF Phase, Thread
  <2>3. Linked' /\ Sound(table', born', refs)
    BY <1>3, <2>1, TableStays
  <2>4. QED
    BY <1>3, <2>1, <2>2, <2>3, MovesOn, Zenon DEF Steps
<1>6. QED
  BY <1>4, <1>5

\* add_open, for open and for create.
LEMMA CountOpenStep ==
    ASSUME Inv, NEW t \in Threads, CountOpen(t)
    PROVE  Inv'
<1>1. th[t] \in Thread /\ Phase(th[t])
      /\ ((th[t].pc = "leased" /\ th[t].op = "open") \/ th[t].pc = "addopen")
  BY DEF Inv, ThreadsOK, CountOpen
<1>2. UNCHANGED <<born, names>> /\ RestOK'
  BY RestStays DEF Inv, CountOpen
<1>3. CASE Contains(table, th[t].id)
  <2>1. /\ th[t].id \in DOMAIN table.map /\ table' = Inc(table, th[t].id, "opens")
        /\ Goto(t, "addhandle")
    BY <1>3 DEF CountOpen, Contains, AddOpen
  <2>2. Phase([th[t] EXCEPT !.pc = "addhandle"])
    BY <1>1 DEF Phase, Thread
  <2>3. Linked' /\ Sound(table', born', refs)
    BY <1>2, <2>1, CountsUp
  <2>4. QED
    BY <1>2, <2>1, <2>2, <2>3, MovesOn, Zenon DEF Steps
<1>4. CASE ~Contains(table, th[t].id)
  <2>1. PICK s \in {"reply", "unlease"} :
            /\ s = IF th[t].op = "create" THEN "reply" ELSE "unlease"
            /\ Goto(t, s) /\ UNCHANGED table
    BY <1>4 DEF CountOpen
  <2>2. Phase([th[t] EXCEPT !.pc = s])
    BY <1>1, <2>1 DEF Phase, Thread
  <2>3. Linked' /\ Sound(table', born', refs)
    BY <1>2, <2>1, TableStays
  <2>4. QED
    BY <1>2, <2>1, <2>2, <2>3, MovesOn, Zenon DEF Steps
<1>5. QED
  BY <1>3, <1>4

\* remove_open.
LEMMA ReleaseOpenStep ==
    ASSUME Inv, NEW t \in Threads, ReleaseOpen(t)
    PROVE  Inv'
<1>1. th[t] \in Thread /\ Phase(th[t]) /\ th[t].pc = "relopen"
  BY DEF Inv, ThreadsOK, ReleaseOpen
<1>2. /\ names' = names /\ born' = born /\ RestOK' /\ Goto(t, "closing")
      /\ table' = RemoveOpen(table, th[t].id)
  BY RestStays DEF Inv, ReleaseOpen
<1>3. Sound(table', born', refs)
  BY <1>2, DecSound, OwnersFinite DEF Inv, Counts, RemoveOpen
<1>4. Linked'
  BY <1>2, RemoveOpenLinks, LinksKept DEF Inv, Sound
<1>5. Phase([th[t] EXCEPT !.pc = "closing"])
  BY <1>1 DEF Phase, Thread
<1>6. QED
  BY <1>2, <1>3, <1>4, <1>5, MovesOn, Zenon DEF Steps

\* A NodeRef is dropped at the end of a handler or of entry_for.
LEMMA UnleaseStep ==
    ASSUME Inv, NEW t \in Threads, Unlease(t)
    PROVE  Inv'
<1> DEFINE l == th[t].lease
           p == <<t, "request">>
<1>1. th[t] \in Thread /\ Phase(th[t]) /\ th[t].pc = "unlease"
  BY DEF Inv, ThreadsOK, Unlease
<1>2. l.record # 0 /\ th[t].flease.record = 0
  BY <1>1 DEF Phase
<1>3. /\ table' = DropRef(table, l.ino, l.record) /\ born' = born /\ names' = names /\ RestOK'
  BY RestStays DEF Inv, Unlease
<1>4. p \in DOMAIN refs /\ refs[p] = l
  BY <1>2, RefsAt, Zenon DEF RefOf
<1>5. Sound(table', born', [refs EXCEPT ![p] = NoReference])
  BY <1>2, <1>3, <1>4, DropRefSound, OwnersFinite, Zenon DEF Inv
<1>6. Linked'
  BY <1>3, DropRefLinks, LinksKept DEF Inv, Sound
<1>7. PICK s \in {"addopen", "reply"} :
          /\ th' = [th EXCEPT ![t].lease = NoRef, ![t].pc = s]
          /\ s = "addopen" => th[t].op = "create"
  BY Zenon DEF Unlease
<1> DEFINE y == [th[t] EXCEPT !.pc = s, !.lease = NoRef]
<1>8. th' = [th EXCEPT ![t] = y]
  BY <1>1, <1>7, Zenon DEF Thread
<1>9. NoRef \in Ref /\ s \in Steps
  BY DEF NoRef, Ref, Steps
<1>10. y \in Thread /\ y.pc = s /\ y.lease = NoRef /\ y.op = th[t].op /\ y.flease = th[t].flease
  <2>1. y \in Thread
    BY <1>1, <1>9, Zenon DEF Thread
  <2>2. QED
    BY <1>1, <2>1 DEF Thread
<1> HIDE DEF y, l
<1>11. Phase(y)
  BY <1>2, <1>7, <1>10 DEF Phase
<1>12. RefOf(y.lease) = NoReference
  BY <1>10, IdleOK
<1>13. QED
  BY <1>3, <1>5, <1>6, <1>8, <1>10, <1>11, <1>12, ChangesRef, Zenon

\* After the last forget: its NodeRef is gone, and a rollback goes on.
LEMMA AfterForgetStep ==
    ASSUME Inv, NEW t \in Threads, AfterForget(t), th[t].pc \in {"forgotten", "sweep"},
           RestOK', Linked',
           Sound(table', born', [refs EXCEPT ![<<t, "forget">>] = NoReference])
    PROVE  Inv'
<1>1. th[t] \in Thread /\ Phase(th[t])
  BY DEF Inv, ThreadsOK
<1>2. PICK s \in {"rollback", "idle"} :
          /\ s = IF th[t].op = "readdirplus" THEN "rollback" ELSE "idle"
          /\ th' = [th EXCEPT ![t].pc = s, ![t].flease = NoRef]
  BY Zenon DEF AfterForget
<1> DEFINE y == [th[t] EXCEPT !.pc = s, !.flease = NoRef]
<1>3. th' = [th EXCEPT ![t] = y]
  BY <1>2, Zenon
<1>4. NoRef \in Ref /\ NoRef.record = 0 /\ s \in Steps
  BY DEF NoRef, Ref, Steps
<1>5. y \in Thread
  BY <1>1, <1>4, Zenon DEF Thread
<1>6. y.pc = s /\ y.flease = NoRef /\ y.op = th[t].op /\ y.lease = th[t].lease
  BY <1>1 DEF Thread
<1> HIDE DEF y
<1>7. Phase(y)
  BY <1>1, <1>2, <1>4, <1>6 DEF Phase
<1>8. RefOf(y.flease) = NoReference
  BY <1>6, IdleOK
<1>9. QED
  BY <1>3, <1>5, <1>6, <1>7, <1>8, ChangesForgetRef, Zenon

\* The NodeRef of fs.forget is dropped.
LEMMA ForgetNotifiedStep ==
    ASSUME Inv, NEW t \in Threads, ForgetNotified(t)
    PROVE  Inv'
<1> DEFINE l == th[t].flease
           p == <<t, "forget">>
<1>1. Phase(th[t]) /\ th[t].pc = "forgotten"
  BY DEF Inv, ThreadsOK, ForgetNotified
<1>2. l.record # 0
  BY <1>1 DEF Phase
<1>3. /\ table' = DropRef(table, l.ino, l.record) /\ born' = born /\ names' = names /\ RestOK'
  BY RestStays DEF Inv, ForgetNotified
<1>4. p \in DOMAIN refs /\ refs[p] = l
  BY <1>2, RefsAt, Zenon DEF RefOf
<1>5. Sound(table', born', [refs EXCEPT ![p] = NoReference])
  BY <1>2, <1>3, <1>4, DropRefSound, OwnersFinite, Zenon DEF Inv
<1>6. Linked'
  BY <1>3, DropRefLinks, LinksKept DEF Inv, Sound
<1>7. QED
  BY <1>1, <1>3, <1>5, <1>6, AfterForgetStep DEF ForgetNotified

\* The second critical section of a forget without a callback finds nothing to
\* reclaim that is not already gone.
LEMMA ForgetSweepStep ==
    ASSUME Inv, NEW t \in Threads, ForgetSweep(t)
    PROVE  Inv'
<1> DEFINE p == <<t, "forget">>
<1>1. Phase(th[t]) /\ th[t].pc = "sweep"
  BY DEF Inv, ThreadsOK, ForgetSweep
<1>2. table' = table /\ UNCHANGED <<born, names>> /\ RestOK'
  BY MaybeDropIdle, RestStays DEF Inv, Sound, ForgetSweep
<1>3. refs[p] = NoReference
  <2>1. th[t].flease.record = 0
    BY <1>1 DEF Phase
  <2>2. QED
    BY <2>1, RefsAt, Zenon DEF RefOf
<1>4. [refs EXCEPT ![p] = NoReference] = refs
  BY <1>3 DEF refs
<1>5. Linked' /\ Sound(table', born', refs)
  BY <1>2, TableStays
<1>6. QED
  BY <1>1, <1>2, <1>4, <1>5, AfterForgetStep DEF ForgetSweep

\* The first critical section of a forget, for a request of its own or in a
\* rollback.
LEMMA ForgetSectionStep ==
    ASSUME Inv, NEW t \in Threads, NEW x \in Thread, Phase(x),
           NEW rest, rest = [th EXCEPT ![t] = x],
           x.lease = th[t].lease, x.flease.record = 0, th[t].flease.record = 0,
           x.op = "readdirplus" \/ (x.op = "none" /\ x.lease = NoRef),
           NEW e \in Nat, NEW k \in Nat, ForgetSection(t, e, k, rest),
           RestOK', UNCHANGED <<born, names>>
    PROVE  Inv'
<1>1. RefOf(x.lease) = RefOf(th[t].lease) /\ RefOf(x.flease) = RefOf(th[t].flease)
  BY DEF RefOf
<1>2. CASE ~Contains(table, e)
  <2>1. th' = [th EXCEPT ![t] = x] /\ UNCHANGED table
    BY <1>2 DEF ForgetSection
  <2>2. QED
    BY <1>1, <2>1, KeepsTable, Zenon
<1>3. CASE Contains(table, e)
  <2> DEFINE p == <<t, "forget">>
             r == IF ForgetsLast(table, e, k) THEN table.map[e].record ELSE 0
             l == [ino |-> e, record |-> r]
             s == IF ForgetsLast(table, e, k) THEN "forgotten" ELSE "sweep"
             y == [x EXCEPT !.pc = s, !.flease = l]
  <2>1. e \in DOMAIN table.map /\ table' = ForgetLookups(table, e, k)
    BY <1>3 DEF ForgetSection, Contains
  <2>2. th' = [rest EXCEPT ![t].pc = s, ![t].flease = l]
    BY <1>3 DEF ForgetSection
  <2>3. table.map[e].record \in Nat \ {0}
    BY <2>1, LiveTyped
  <2>4. r \in Nat /\ (r # 0 <=> s = "forgotten") /\ s \in {"forgotten", "sweep"}
    BY <2>3
  <2>5. p \in DOMAIN refs /\ refs[p] = NoReference /\ refs[p].record = 0
    <3>1. RefOf(th[t].flease) = NoReference
      BY DEF RefOf
    <3>2. NoReference.record = 0
      BY DEF NoReference
    <3>3. QED
      BY <3>1, <3>2, RefsAt, Zenon
  <2>6. Sound(table', born', [refs EXCEPT ![p] = RefOf(l)])
    <3>1. CASE ForgetsLast(table, e, k)
      <4>1. RefOf(l) = [ino |-> e, record |-> table.map[e].record]
        <5>1. l = [ino |-> e, record |-> table.map[e].record] /\ l.record # 0
          BY <2>3, <3>1
        <5>2. QED
          BY <5>1, Zenon DEF RefOf
      <4>2. QED
        BY <2>1, <2>5, <3>1, <4>1, ForgetSound, OwnersFinite, Zenon DEF Inv
    <3>2. CASE ~ForgetsLast(table, e, k)
      <4>1. RefOf(l) = NoReference
        BY <3>2 DEF RefOf
      <4>2. [refs EXCEPT ![p] = NoReference] = refs
        BY <2>5 DEF refs
      <4>3. Sound(table', born', refs)
        BY <2>1, <2>5, <3>2, ForgetSound, OwnersFinite, Zenon DEF Inv
      <4>4. QED
        BY <4>1, <4>2, <4>3, Zenon
    <3>3. QED
      BY <3>1, <3>2
  <2>7. Linked'
    BY <2>1, ForgetLinks, LinksKept, Zenon DEF Inv, Sound
  <2>8. l \in Ref /\ l.record = r
    BY <2>4 DEF Ref
  <2> HIDE DEF r, l, s
  <2>9. th' = [th EXCEPT ![t] = y]
    BY <2>2, Zenon DEF Inv, ThreadsOK
  <2>10. s \in Steps
    BY <2>4 DEF Steps
  <2>11. y \in Thread
    BY <2>8, <2>10, Zenon DEF Thread
  <2>12. y.pc = s /\ y.flease = l /\ y.op = x.op /\ y.lease = x.lease
    BY DEF Thread
  <2> HIDE DEF y
  <2>13. Phase(y)
    <3>1. x.lease = NoRef \/ x.lease.record # 0
      BY DEF Phase
    <3>2. QED
      BY <2>4, <2>8, <2>12, <3>1 DEF Phase
  <2>14. RefOf(y.lease) = RefOf(th[t].lease)
    BY <1>1, <2>12
  <2>15. Sound(table', born', [refs EXCEPT ![p] = RefOf(y.flease)])
    BY <2>6, <2>12
  <2>16. QED
    BY <2>7, <2>9, <2>11, <2>12, <2>13, <2>14, <2>15, ChangesForgetRef, Zenon
<1>4. QED
  BY <1>2, <1>3

\* forget.
LEMMA ForgetStep ==
    ASSUME Inv, NEW t \in Threads, NEW r \in DOMAIN born, NEW k \in 1..MaxRefs, Forget(t, r, k)
    PROVE  Inv'
<1>1. th[t] \in Thread /\ Phase(th[t]) /\ th[t].pc = "idle"
  BY DEF Inv, ThreadsOK, Forget, Start, Idle
<1>2. th[t].op = "none" /\ th[t].lease = NoRef /\ th[t].flease.record = 0
  BY <1>1 DEF Phase
<1>3. th = [th EXCEPT ![t] = th[t]]
  BY DEF Inv, ThreadsOK
<1>4. born[r].ino \in Nat
  <2>1. born \in Seq(FreeEntry)
    BY DEF Inv, Sound, Accounted
  <2>2. born[r] \in FreeEntry
    BY <2>1
  <2>3. QED
    BY <2>2 DEF FreeEntry
<1>5. k \in Nat
  BY RuntimeAssumption
<1>6. RestOK'
  <2>1. krefs \in [Records -> Nat] /\ k <= krefs[r] /\ krefs' = [krefs EXCEPT ![r] = @ - k]
    BY DEF Inv, RestOK, Forget
  <2>2. r \in Records => krefs[r] - k \in Nat
    BY <1>5, <2>1
  <2>3. krefs' \in [Records -> Nat]
    BY <2>1, <2>2, Zenon
  <2>4. QED
    BY <2>3 DEF Inv, RestOK, Forget
<1>7. ForgetSection(t, born[r].ino, k, th) /\ UNCHANGED <<born, names>>
  BY DEF Forget
<1>8. QED
  BY <1>1, <1>2, <1>3, <1>4, <1>5, <1>6, <1>7, ForgetSectionStep

\* One forget of a rollback.
LEMMA PlusRollbackStep ==
    ASSUME Inv, NEW t \in Threads, PlusRollback(t)
    PROVE  Inv'
<1> DEFINE x == [th[t] EXCEPT !.accepted = Tail(th[t].accepted)]
           e == Head(th[t].accepted).ino
           rest == [th EXCEPT ![t].accepted = Tail(@)]
<1>1. th[t] \in Thread /\ Phase(th[t]) /\ th[t].pc = "rollback" /\ th[t].accepted # <<>>
  BY DEF Inv, ThreadsOK, PlusRollback
<1>2. th[t].op = "readdirplus" /\ th[t].flease.record = 0
  BY <1>1 DEF Phase
<1>3. th[t].accepted \in Seq(Ref)
  BY <1>1 DEF Thread
<1>4. Head(th[t].accepted) \in Ref /\ Tail(th[t].accepted) \in Seq(Ref)
  BY <1>1, <1>3
<1>5. e \in Nat
  BY <1>4 DEF Ref
<1>6. x \in Thread
  BY <1>1, <1>4, Zenon DEF Thread
<1>7. /\ x.pc = th[t].pc /\ x.op = th[t].op
      /\ x.lease = th[t].lease /\ x.flease = th[t].flease
  BY <1>1 DEF Thread
<1>8. rest = [th EXCEPT ![t] = x]
  OBVIOUS
<1>9. /\ ForgetSection(t, e, 1, rest) /\ UNCHANGED <<born, names>> /\ RestOK'
  BY RestStays DEF PlusRollback, Inv
<1> HIDE DEF x, e, rest
<1>10. Phase(x)
  BY <1>1, <1>7 DEF Phase
<1>11. QED
  BY <1>2, <1>5, <1>6, <1>7, <1>8, <1>9, <1>10, ForgetSectionStep, Zenon

\* The entries of a readdirplus.
LEMMA PlusEntryStep ==
    ASSUME Inv, NEW t \in Threads, NEW n \in Names, PlusEntry(t, n)
    PROVE  Inv'
<1> DEFINE i == names[n]
           g == [ino |-> i, record |-> table.map[i].record]
           y == [th[t] EXCEPT !.pc = "retain", !.got = g]
<1>1. th[t] \in Thread /\ Phase(th[t]) /\ th[t].pc = "listing"
  BY DEF Inv, ThreadsOK, PlusEntry
<1>2. i \in DOMAIN table.map /\ th' = [th EXCEPT ![t] = y]
  BY Zenon DEF PlusEntry, Contains
<1>3. g \in Ref
  BY <1>2, LiveTyped DEF Ref
<1>4. UNCHANGED <<table, born, names>> /\ RestOK'
  BY RestStays DEF PlusEntry, Inv
<1> HIDE DEF i, g
<1>5. y \in Thread
  BY <1>1, <1>3, Zenon DEF Thread, Steps
<1>6. /\ y.pc = "retain" /\ y.op = th[t].op
      /\ y.lease = th[t].lease /\ y.flease = th[t].flease
  BY <1>1 DEF Thread
<1> HIDE DEF y
<1>7. Phase(y)
  BY <1>1, <1>6 DEF Phase
<1>8. QED
  BY <1>2, <1>4, <1>5, <1>6, <1>7, KeepsTable, Zenon

\* readdirplus retains a lookup of an entry, or leaves out one that is gone.
LEMMA PlusRetainStep ==
    ASSUME Inv, NEW t \in Threads, PlusRetain(t)
    PROVE  Inv'
<1> DEFINE i == th[t].got.ino
           acc == IF Contains(table, i) THEN Append(th[t].accepted, th[t].got)
                                        ELSE th[t].accepted
           y == [th[t] EXCEPT !.pc = "listing", !.got = NoRef, !.accepted = acc]
<1>1. th[t] \in Thread /\ Phase(th[t]) /\ th[t].pc = "retain"
  BY DEF Inv, ThreadsOK, PlusRetain
<1>2. th[t].accepted \in Seq(Ref) /\ th[t].got \in Ref
  BY <1>1 DEF Thread
<1>3. acc \in Seq(Ref) /\ NoRef \in Ref
  <2>1. Append(th[t].accepted, th[t].got) \in Seq(Ref)
    BY <1>2
  <2>2. NoRef \in Ref
    BY DEF NoRef, Ref
  <2>3. QED
    BY <1>2, <2>1, <2>2
<1>4. th' = [th EXCEPT ![t] = y]
  <2>1. CASE Contains(table, i)
    BY <2>1, Zenon DEF PlusRetain
  <2>2. CASE ~Contains(table, i)
    <3>1. y = [th[t] EXCEPT !.pc = "listing", !.got = NoRef]
      BY <1>1, <2>2, Zenon DEF Thread
    <3>2. th' = [th EXCEPT ![t] = [th[t] EXCEPT !.pc = "listing", !.got = NoRef]]
      BY <2>2, Zenon DEF PlusRetain
    <3>3. QED
      BY <3>1, <3>2, Zenon
  <2>3. QED
    BY <2>1, <2>2
<1>5. UNCHANGED <<born, names>> /\ RestOK'
  BY RestStays DEF PlusRetain, Inv
<1>6. Linked' /\ Sound(table', born', refs)
  <2>1. CASE Contains(table, i)
    <3>1. i \in DOMAIN table.map /\ table' = Inc(table, i, "lookups")
      BY <2>1 DEF PlusRetain, Contains, RetainLookup
    <3>2. QED
      BY <1>5, <3>1, CountsUp
  <2>2. CASE ~Contains(table, i)
    BY <1>5, <2>2, TableStays DEF PlusRetain
  <2>3. QED
    BY <2>1, <2>2
<1> HIDE DEF i, acc
<1>7. y \in Thread
  BY <1>1, <1>3, Zenon DEF Thread, Steps
<1>8. /\ y.pc = "listing" /\ y.op = th[t].op
      /\ y.lease = th[t].lease /\ y.flease = th[t].flease
  BY <1>1 DEF Thread
<1> HIDE DEF y
<1>9. Phase(y)
  BY <1>1, <1>8 DEF Phase
<1>10. QED
  BY <1>4, <1>5, <1>6, <1>7, <1>8, <1>9, KeepsRefs, Zenon

\* A panic while a page is filled hands the lookups of the page over to nobody.
LEMMA PlusPanicsStep ==
    ASSUME Inv, NEW t \in Threads, PlusPanics(t)
    PROVE  Inv'
<1> DEFINE y == [th[t] EXCEPT !.pc = "using", !.accepted = <<>>]
<1>1. th[t] \in Thread /\ Phase(th[t]) /\ th[t].pc = "listing"
  BY DEF Inv, ThreadsOK, PlusPanics
<1>2. th' = [th EXCEPT ![t] = y] /\ UNCHANGED <<table, born, names>>
  BY Zenon DEF PlusPanics
<1>3. \A r \in Records : Counted(t, r) \in Nat
  BY CountedNat
<1>4. RestOK'
  BY <1>3 DEF Inv, RestOK, PlusPanics
<1>5. y \in Thread
  <2>1. <<>> \in Seq(Ref) /\ "using" \in Steps
    BY DEF Steps
  <2>2. QED
    BY <1>1, <2>1, Zenon DEF Thread
<1>6. /\ y.pc = "using" /\ y.op = th[t].op
      /\ y.lease = th[t].lease /\ y.flease = th[t].flease
  BY <1>1 DEF Thread
<1> HIDE DEF y
<1>7. Phase(y)
  BY <1>1, <1>6 DEF Phase
<1>8. QED
  BY <1>2, <1>4, <1>5, <1>6, <1>7, KeepsTable, Zenon

\* The rollback of a page that was not sent has forgotten its last entry.
LEMMA RollbackDoneStep ==
    ASSUME Inv, NEW t \in Threads, RollbackDone(t)
    PROVE  Inv'
<1>1. th[t] \in Thread /\ Phase(th[t]) /\ th[t].pc = "rollback"
  BY DEF Inv, ThreadsOK, RollbackDone
<1>2. UNCHANGED <<table, born, names>> /\ RestOK'
  BY RestStays DEF Inv, RollbackDone
<1>3. th[t].flease.record = 0 /\ (th[t].lease = NoRef \/ th[t].lease.record # 0)
  BY <1>1 DEF Phase
<1>4. CASE th[t].lease = NoRef
  BY <1>2, <1>3, <1>4, Finishes DEF RollbackDone
<1>5. CASE th[t].lease # NoRef
  <2>1. Goto(t, "using")
    BY <1>5 DEF RollbackDone
  <2>2. Phase([th[t] EXCEPT !.pc = "using"])
    BY <1>1, <1>3, <1>5 DEF Phase, Thread
  <2>3. Linked' /\ Sound(table', born', refs)
    BY <1>2, TableStays
  <2>4. QED
    BY <1>2, <2>1, <2>2, <2>3, MovesOn, Zenon DEF Steps
<1>6. QED
  BY <1>4, <1>5

------------------------------------------------------------------------------
(* The invariant is inductive.                                               *)

\* Runtime::new: no request is in flight and the table holds the root alone.
LEMMA InitInv == Init => Inv
<1> SUFFICES ASSUME Init PROVE Inv
  OBVIOUS
<1>1. th = [t \in Threads |-> IdleThread]
  BY DEF Init
<1>2. \A t \in Threads : th[t] = IdleThread
  BY <1>1
<1>3. ThreadsOK
  BY <1>1, <1>2, IdleOK DEF ThreadsOK
<1>4. RestOK
  <2>1. <<>> \in Seq(HandleRecord)
    OBVIOUS
  <2>2. QED
    BY <2>1 DEF Init, RestOK
<1>5. \A p \in Owners : refs[p] = NoReference
  <2>1. \A p \in Owners : p[1] \in Threads
    BY DEF Owners
  <2>2. QED
    BY <1>2, <2>1, IdleOK DEF refs
<1>7. DOMAIN table.map = {ROOT} /\ table.map[ROOT].count["links"] = 1
  BY DEF Init, NewTable, NewSlot, Counts
<1>8. Linked
  <2>1. {n \in Names : names[n] = ROOT} = {} /\ \A n \in Names : names[n] = 0
    BY DEF Init, ROOT
  <2>2. Cardinality({}) = 0
    BY FS_EmptySet
  <2>3. \A i \in DOMAIN table.map :
            table.map[i].count["links"] =
                Cardinality({n \in Names : names[n] = i}) + (IF i = ROOT THEN 1 ELSE 0)
    <3>1. Cardinality({n \in Names : names[n] = ROOT}) = 0
      BY <2>1, <2>2
    <3>2. QED
      BY <1>7, <3>1
  <2>4. QED
    BY <1>7, <2>1, <2>3 DEF Linked, LinksExact
<1>9. Sound(table, born, refs)
  <2>1. Sound(NewTable, <<[ino |-> ROOT, generation |-> 0]>>, refs)
    BY <1>5, OwnersFinite, NewTableSound
  <2>2. QED
    BY <2>1 DEF Init
<1>10. QED
  BY <1>3, <1>4, <1>8, <1>9 DEF Inv

\* What a thread does on its own.
LEMMA ContinueInv ==
    ASSUME Inv, NEW t \in Threads, Continue(t)
    PROVE  Inv'
<1>1. CASE \/ EntryFails(t) \/ NodeCallback(t) \/ FetchHandle(t) \/ CheckOpens(t)
           \/ Released(t) \/ PlusEnd(t) \/ PlusReplyFails(t)
  BY <1>1, QuietStep
<1>2. CASE EntryGet(t) \/ ReleaseNode(t)
  BY <1>2, GetStep
<1>3. CASE EntryCount(t)
  BY <1>3, EntryCountStep
<1>4. CASE ForgetNotified(t)
  BY <1>4, ForgetNotifiedStep
<1>5. CASE ForgetSweep(t)
  BY <1>5, ForgetSweepStep
<1>6. CASE CountOpen(t)
  BY <1>6, CountOpenStep
<1>7. CASE AddHandle(t)
  BY <1>7, AddHandleStep
<1>8. CASE Acquire(t) \/ ScanHandles(t) \/ EndUse(t) \/ CloseHandle(t) \/ TakeHandle(t)
  BY <1>8, HandleStep
<1>9. CASE Unlease(t)
  BY <1>9, UnleaseStep
<1>10. CASE Reply(t) \/ ReplyLost(t)
  BY <1>10, ReplyStep
<1>11. CASE ReleaseOpen(t)
  BY <1>11, ReleaseOpenStep
<1>12. CASE \E n \in Names : PlusEntry(t, n)
  BY <1>12, PlusEntryStep
<1>13. CASE PlusRetain(t)
  BY <1>13, PlusRetainStep
<1>14. CASE PlusPanics(t)
  BY <1>14, PlusPanicsStep
<1>15. CASE PlusRollback(t)
  BY <1>15, PlusRollbackStep
<1>16. CASE RollbackDone(t)
  BY <1>16, RollbackDoneStep
<1>17. QED
  BY <1>1, <1>2, <1>3, <1>4, <1>5, <1>6, <1>7, <1>8, <1>9, <1>10, <1>11, <1>12, <1>13,
     <1>14, <1>15, <1>16 DEF Continue

\* The requests of the kernel.
LEMMA RequestInv ==
    ASSUME Inv, NEW t \in Threads, Request(t)
    PROVE  Inv'
<1>1. ROOT \in DOMAIN table.map /\ \A f \in DOMAIN hrec : f \in Nat
  BY DEF Inv, Linked, RestOK
<1>2. CASE \E n \in Names : Lookup(t, n)
  BY <1>2, LookupStep
<1>3. CASE \E n \in Names, o \in {"mknod", "create"} : MakeNode(t, o, n)
  BY <1>3, MakeNodeStep
<1>4. CASE \E i \in DOMAIN table.map, n \in Names : Link(t, i, n)
  BY <1>4, LinkStep
<1>5. CASE \E r \in DOMAIN born, k \in 1..MaxRefs : Forget(t, r, k)
  BY <1>5, ForgetStep
<1>6. ASSUME \E o \in AllOps \ {"create"}, i \in DOMAIN table.map, f \in Nat :
                 LeaseNode(t, o, i, f)
      PROVE  Inv'
  BY <1>6, LeaseNodeStep
<1>7. CASE \E i \in DOMAIN table.map : NodeOp(t, i) \/ OpenNode(t, i)
  BY <1>6, <1>7 DEF NodeOp, OpenNode, AllOps
<1>8. CASE \E i \in DOMAIN table.map, f \in DOMAIN hrec : FileOp(t, i, f)
  BY <1>1, <1>6, <1>8 DEF FileOp, AllOps
<1>9. CASE \E i \in DOMAIN table.map, f \in DOMAIN hrec \cup {0} : Getattr(t, i, f)
  BY <1>1, <1>6, <1>9 DEF Getattr, AllOps
<1>10. CASE \E f \in DOMAIN hrec : Readdir(t, f) \/ Readdirplus(t, f)
  BY <1>1, <1>6, <1>10 DEF Readdir, Readdirplus, AllOps
<1>11. CASE \E f \in DOMAIN hrec : Release(t, f)
  BY <1>11, ReleaseStep
<1>12. QED
  BY <1>2, <1>3, <1>4, <1>5, <1>7, <1>8, <1>9, <1>10, <1>11 DEF Request

\* Every step of a request, of the kernel and of the name space keeps it.
LEMMA NextInv == Inv /\ [Next]_vars => Inv'
<1> SUFFICES ASSUME Inv, [Next]_vars PROVE Inv'
  OBVIOUS
<1>1. CASE \E t \in Threads : Request(t) \/ Continue(t)
  BY <1>1, RequestInv, ContinueInv
<1>2. CASE \E n \in Names : Unlink(n)
  BY <1>2, UnlinkStep
<1>3. CASE \E n, m \in Names : Rename(n, m)
  BY <1>3, RenameStep
<1>4. CASE UNCHANGED vars
  <2>1. th' = th /\ RestOK' /\ UNCHANGED <<table, born, names>>
    BY <1>4, RestStays DEF Inv, vars
  <2>2. QED
    BY <2>1, TableStays, ThreadsStay
<1>5. QED
  BY <1>1, <1>2, <1>3, <1>4 DEF Next

\* In every execution the requests are in step with the table: see Inv.
THEOREM InvHolds == Spec => []Inv
  BY InitInv, NextInv, PTL DEF Spec

------------------------------------------------------------------------------
(* What follows from it.                                                     *)

\* Every component of the state has its type, whatever the threads do.
THEOREM TypeCorrect == Spec => []TypeOK
<1>1. Inv => TypeOK
  <2> SUFFICES ASSUME Inv PROVE TypeOK
    OBVIOUS
  <2>1. table.next_ino \in Nat /\ table.free \in Seq(FreeEntry) /\ born \in Seq(FreeEntry)
    BY DEF Inv, Sound, Typed, Accounted
  <2>2. \A i \in DOMAIN table.map : i \in Nat /\ table.map[i] \in Slot
    BY LiveTyped DEF Inv, Sound, Typed
  <2>3. QED
    BY <2>1, <2>2 DEF Inv, RestOK, ThreadsOK, TypeOK
<1>2. QED
  BY <1>1, InvHolds, PTL

\* No two nodes are ever known by one inode number and generation, however
\* numbers are freed and reused (NodeTable::alloc and maybe_drop).
THEOREM NoTwoNodesAlike == Spec => []IdentityUnique
<1>1. Inv => IdentityUnique
  <2> SUFFICES ASSUME Inv PROVE IdentityUnique
    OBVIOUS
  <2>1. Accounted(table, born)
    BY DEF Inv, Sound
  <2>2. born \in Seq(FreeEntry)
    BY <2>1 DEF Accounted
  <2>3. DOMAIN born = 1..Len(born)
    BY <2>2
  <2>4. QED
    BY <2>1, <2>3 DEF Accounted, IdentityUnique
<1>2. QED
  BY <1>1, InvHolds, PTL

\* While a NodeRef is alive its node is neither reclaimed nor replaced, for
\* any number of threads in any interleaving (Cx::get, Drop for NodeRef).
THEOREM LeasesProtect == Spec => []LeaseProtects
<1>1. Inv => LeaseProtects
  <2> SUFFICES ASSUME Inv, NEW t \in Threads, NEW ref \in {th[t].lease, th[t].flease},
                      ref.record # 0
               PROVE  Contains(table, ref.ino) /\ table.map[ref.ino].record = ref.record
    BY DEF LeaseProtects
  <2>1. RefOf(ref) = ref
    BY DEF RefOf
  <2>2. PICK p \in DOMAIN refs : refs[p] = ref
    BY <2>1, RefsAt, Zenon
  <2>3. QED
    BY <2>2 DEF Inv, Sound, Leased, Contains
<1>2. QED
  BY <1>1, InvHolds, PTL

\* The lease count of a node is the number of NodeRefs alive on it: no handler
\* drops one twice or leaves one behind.
THEOREM LeasesCounted == Spec => []LeasesExact
<1>1. Inv => LeasesExact
  <2> SUFFICES ASSUME Inv, NEW i \in DOMAIN table.map
               PROVE  table.map[i].count["leases"] = Cardinality(Holders(i))
    BY DEF LeasesExact
  <2>1. table.map[i].count["leases"] = Cardinality(Held(refs, i))
    BY DEF Inv, Sound, Leased
  <2>2. Held(refs, i) = Holders(i)
    <3> DEFINE R(p) == IF p[2] = "request" THEN th[p[1]].lease ELSE th[p[1]].flease
    <3>1. \A p \in Owners : refs[p] = RefOf(R(p))
      BY DEF refs
    <3> HIDE DEF R
    <3>2. i # 0 /\ NoReference.record = 0
      BY LiveTyped DEF NoReference
    <3>3. \A p \in Owners :
              (refs[p].ino = i /\ refs[p].record # 0) <=> (R(p).ino = i /\ R(p).record # 0)
      BY <3>1, <3>2 DEF RefOf
    <3>4. Held(refs, i) = {p \in Owners : refs[p].ino = i /\ refs[p].record # 0}
      BY OwnersFinite DEF Held
    <3>5. Holders(i) = {p \in Owners : R(p).ino = i /\ R(p).record # 0}
      BY DEF Holders, R, Owners
    <3>6. QED
      BY <3>3, <3>4, <3>5
  <2>3. QED
    BY <2>1, <2>2
<1>2. QED
  BY <1>1, InvHolds, PTL

\* The link count of a node is the number of its names, so a name never leads
\* to a reclaimed node (Cx::add_link, Cx::remove_link).
THEOREM LinksCounted == Spec => []LinksExact
<1>1. Inv => LinksExact
  BY DEF Inv, Linked
<1>2. QED
  BY <1>1, InvHolds, PTL

\* Every number ever handed out is live with a nonzero count, or free exactly
\* once under a generation it never had: no node is leaked or reused too soon.
THEOREM NumbersKept == Spec => []NumbersAccountedFor
<1>1. Inv => NumbersAccountedFor
  <2> SUFFICES ASSUME Inv PROVE NumbersAccountedFor
    OBVIOUS
  <2> DEFINE L == Len(table.free)
             freed == {table.free[k].ino : k \in DOMAIN table.free}
             f == [k \in 1..L |-> table.free[k].ino]
  <2>1. /\ table.free \in Seq(FreeEntry) /\ L \in Nat /\ DOMAIN table.free = 1..L
        /\ DOMAIN born = 1..Len(born) /\ table.next_ino \in Nat
    BY DEF Inv, Sound, Typed, Accounted
  <2>2. /\ Tidy(table) /\ Accounted(table, born)
    BY DEF Inv, Sound
  <2>3. \A i \in DOMAIN table.map : ~Droppable(table.map[i])
    BY <2>2 DEF Tidy
  <2>4. Cardinality(freed) = L
    <3>1. f \in Surjection(1..L, freed)
      BY <2>1 DEF Surjection
    <3>2. \A j, k \in 1..L : f[j] = f[k] => j = k
      BY <2>2 DEF Accounted
    <3>3. f \in Injection(1..L, freed)
      <4>1. f \in [1..L -> freed]
        BY <3>1 DEF Surjection
      <4>2. QED
        BY <3>2, <4>1, Zenon DEF Injection, IsInjective
    <3> HIDE DEF f, freed, L
    <3>4. IsFiniteSet(1..L) /\ Cardinality(1..L) = L
      BY <2>1, FS_Interval
    <3>5. QED
      BY <3>1, <3>3, <3>4, FS_Surjection
  <2>a. \A k \in 1..L :
            /\ table.free[k].ino \in 1..(table.next_ino - 1)
            /\ table.free[k].ino \notin DOMAIN table.map
    BY <2>2 DEF Accounted
  <2>5. freed \cap DOMAIN table.map = {}
    BY <2>1, <2>a
  <2>6. freed \cup DOMAIN table.map = 1..(table.next_ino - 1)
    <3>1. \A i \in DOMAIN table.map : i \in 1..(table.next_ino - 1)
      BY <2>2 DEF Accounted
    <3>2. \A i \in freed : i \in 1..(table.next_ino - 1)
      BY <2>1, <2>a
    <3>3. ASSUME NEW i \in 1..(table.next_ino - 1), i \notin DOMAIN table.map
          PROVE  i \in freed
      <4>1. PICK k \in 1..L : table.free[k].ino = i
        BY <2>2, <3>3 DEF Accounted
      <4>2. k \in DOMAIN table.free
        BY <2>1
      <4>3. QED
        BY <4>1, <4>2
    <3> HIDE DEF freed
    <3>4. QED
      BY <3>1, <3>2, <3>3
  <2>7. \A k \in DOMAIN table.free, r \in DOMAIN born :
            born[r].ino = table.free[k].ino => born[r].generation < table.free[k].generation
    BY <2>1, <2>2 DEF Accounted
  <2>8. QED
    BY <2>3, <2>4, <2>5, <2>6, <2>7 DEF NumbersAccountedFor
<1>2. QED
  BY <1>1, InvHolds, PTL

==============================================================================
