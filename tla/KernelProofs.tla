----------------------------- MODULE KernelProofs ----------------------------
(***************************************************************************)
(* The rest of the steps, those that hand entries to the kernel or lose     *)
(* them, and the theorems: the accounts are kept (AccountsKept), so what the *)
(* kernel holds is what the table counts (KernelHoldsExact) and no handle is *)
(* left without its node (HandleNeverStranded).                             *)
(***************************************************************************)
EXTENDS KernelSteps

------------------------------------------------------------------------------
(* The steps that hand entries over, or lose them.                           *)

\* A live entry has the record its number was inserted under.
LEMMA LivesGiven ==
    ASSUME Inv, LookupsInv, NEW g, Lives(table, g)
    PROVE  /\ g.record \in Records /\ g.record \in DOMAIN born /\ born[g.record].ino = g.ino
           /\ g.ino \in DOMAIN table.map /\ table.map[g.ino].record = g.record
  BY LiveRecord DEF Lives, LookupsInv

\* Entries are counted by record as they are by number.
LEMMA CountedIsCarried ==
    ASSUME Inv, LookupsInv, NEW t \in Threads, th[t].pc # "retain", NEW i \in DOMAIN table.map
    PROVE  Counted(t, table.map[i].record) = Carried(th[t], i)
<1> DEFINE r == table.map[i].record
           a == th[t].accepted
<1>1. r # 0 /\ i # 0 /\ born[r].ino = i
  BY LiveTyped, LiveRecord DEF LookupsInv
<1>2. ASSUME NEW g, Lives(table, g)
      PROVE  g.record = r <=> g.ino = i
  BY <1>1, <1>2, LivesGiven
<1>3. {k \in DOMAIN a : a[k].record = r} = {k \in DOMAIN a : a[k].ino = i}
  BY <1>2, AllLive
<1>4. th[t].got.record = r <=> th[t].got.ino = i
  <2>1. CASE th[t].got = NoRef
    BY <1>1, <2>1 DEF NoRef
  <2>2. CASE th[t].got # NoRef
    BY <1>2, <2>2, AllLive, Zenon
  <2>3. QED
    BY <2>1, <2>2
<1>5. QED
  BY <1>3, <1>4, Zenon DEF Counted, Carried, Ents

\* A record with an entry counted is live.
LEMMA CountedLive ==
    ASSUME Inv, LookupsInv, NEW t \in Threads, NEW r \in Records, Counted(t, r) # 0
    PROVE  r \in DOMAIN born /\ Lives(table, [ino |-> born[r].ino, record |-> r])
<1>1. PICK g : Lives(table, g) /\ g.record = r
  <2>1. CASE th[t].got.record = r
    <3>1. th[t].got # NoRef
      BY <2>1 DEF NoRef, Records
    <3>2. QED
      BY <2>1, <3>1, AllLive, Zenon
  <2>2. CASE th[t].got.record # r
    <3> DEFINE K == {k \in DOMAIN th[t].accepted : th[t].accepted[k].record = r}
    <3>1. Counted(t, r) = Cardinality(K) + 0
      BY <2>2 DEF Counted
    <3>2. K = {} => Cardinality(K) = 0
      BY FS_EmptySet
    <3> HIDE DEF K
    <3>3. K # {}
      BY <3>1, <3>2
    <3>4. QED
      BY <3>3, AllLive DEF K
  <2>3. QED
    BY <2>1, <2>2
<1>2. QED
  BY <1>1, LivesGiven DEF Lives

\* A step that hands what a request carries over, to the kernel or to nobody.
LEMMA HandsOver ==
    ASSUME Inv, Inv', LookupsInv, NEW t \in Threads, th[t].pc # "retain",
           NEW y \in Thread, Carries(y), th' = [th EXCEPT ![t] = y],
           y.got = NoRef, y.accepted = <<>>, y.pc # "retain",
           UNCHANGED <<table, born, names>>,
           \A r \in Records : krefs'[r] + leaked'[r] = krefs[r] + leaked[r] + Counted(t, r)
    PROVE  LookupsInv'
<1>1. Typed(table) /\ 0 \in Int
  BY DEF Inv, Sound
<1>2. Shift(table, table', "lookups", ROOT, 0)
  BY <1>1, SameTable, SameIsShift, Zenon DEF Counts
<1>3. EntriesLive(y)
  BY DEF EntriesLive
<1>4. \A r \in Records : /\ krefs[r] \in Nat /\ leaked[r] \in Nat /\ Counted(t, r) \in Nat
                         /\ krefs'[r] \in Nat /\ leaked'[r] \in Nat
  BY CountedNat DEF Inv, RestOK
<1>5. GivenLive
  <2> SUFFICES ASSUME NEW r \in Records, krefs'[r] + leaked'[r] # 0
               PROVE  r \in DOMAIN born /\ Lives(table, [ino |-> born[r].ino, record |-> r])
    BY DEF GivenLive
  <2>1. krefs[r] + leaked[r] # 0 \/ Counted(t, r) # 0
    BY <1>4
  <2>2. QED
    BY <2>1, CountedLive, AllLive, Zenon
<1>6. Balanced(th[t], y, ROOT, 0)
  <2> SUFFICES ASSUME NEW i \in DOMAIN table.map
               PROVE  krefs'[table.map[i].record] + leaked'[table.map[i].record] + Carried(y, i) =
                      krefs[table.map[i].record] + leaked[table.map[i].record]
                          + Carried(th[t], i) + (IF i = ROOT THEN 0 ELSE 0)
    BY DEF Balanced
  <2>1. PICK r \in Records : r = table.map[i].record
    BY GivenNat
  <2>2. Carried(y, i) = 0
    <3>1. i # 0
      BY LiveTyped
    <3>2. QED
      BY <3>1, EntsEmpty, CarriedEnts, Zenon
  <2>3. Carried(th[t], i) = Counted(t, r)
    BY <2>1, CountedIsCarried
  <2>4. krefs'[r] + leaked'[r] + 0 = krefs[r] + leaked[r] + Counted(t, r) + 0
    BY <1>4
  <2>5. QED
    BY <2>1, <2>2, <2>3, <2>4, Zenon
<1>7. born' = born /\ names' = names
  OBVIOUS
<1>8. QED
  BY <1>1, <1>2, <1>3, <1>5, <1>6, <1>7, LookupsMove, Zenon

\* The session answers, or fails to.
LEMMA ReplyKernel ==
    ASSUME Inv, Inv', KernelInv, NEW t \in Threads, Reply(t) \/ ReplyLost(t)
    PROVE  KernelInv'
<1>1. LookupsInv /\ OpensInv /\ th[t].pc = "reply"
  BY DEF KernelInv, Reply, ReplyLost
<1>2. \A r \in Records : krefs[r] \in Nat /\ leaked[r] \in Nat /\ Counted(t, r) \in Nat
  BY CountedNat DEF Inv, RestOK
<1>3. /\ \A r \in Records : krefs'[r] + leaked'[r] = krefs[r] + leaked[r] + Counted(t, r)
      /\ th' = [th EXCEPT ![t] = IdleThread]
      /\ UNCHANGED <<table, born, names>> /\ UNCHANGED <<open, hrec>>
  BY <1>2 DEF Reply, ReplyLost, Finish
<1>4. /\ IdleThread \in Thread /\ Carries(IdleThread) /\ IdleThread.got = NoRef
      /\ IdleThread.accepted = <<>> /\ IdleThread.pc = "idle"
  BY IdleOK, RuntimeAssumption DEF IdleThread, Carries, NoRef
<1>5. LookupsInv'
  <2>1. th[t].pc # "retain" /\ IdleThread.pc # "retain"
    BY <1>1, <1>4
  <2>2. QED
    BY <1>1, <1>3, <1>4, <2>1, HandsOver, Zenon
<1>6. OpensInv'
  <2>1. \A j \in Nat : Opener(IdleThread, j) <=> Opener(th[t], j)
    BY <1>1, <1>4 DEF Opener
  <2>2. Same(table, table', "opens") /\ \A f \in open : hrec'[f].node = hrec[f].node
    BY <1>3, SameTable
  <2>3. QED
    BY <1>1, <1>3, <1>4, <2>1, <2>2, OpensQuiet, Zenon
<1>7. QED
  BY <1>5, <1>6 DEF KernelInv

\* A listing callback panics, past the roll back.
LEMMA PlusPanicsKernel ==
    ASSUME Inv, Inv', KernelInv, NEW t \in Threads, PlusPanics(t)
    PROVE  KernelInv'
<1> DEFINE y == [th[t] EXCEPT !.pc = "using", !.accepted = <<>>]
<1>1. /\ LookupsInv /\ OpensInv /\ th[t].pc = "listing" /\ th[t] \in Thread /\ Carries(th[t])
  BY DEF KernelInv, LookupsInv, Inv, ThreadsOK, PlusPanics
<1>2. \A r \in Records : krefs[r] \in Nat /\ leaked[r] \in Nat /\ Counted(t, r) \in Nat
  BY CountedNat DEF Inv, RestOK
<1>3. /\ \A r \in Records : krefs'[r] + leaked'[r] = krefs[r] + leaked[r] + Counted(t, r)
      /\ th' = [th EXCEPT ![t] = y]
      /\ UNCHANGED <<table, born, names>> /\ UNCHANGED <<open, hrec>>
  <2>1. /\ leaked' = [r \in Records |-> leaked[r] + Counted(t, r)] /\ krefs' = krefs
        /\ UNCHANGED <<table, born, names>> /\ UNCHANGED <<open, hrec>>
    BY DEF PlusPanics
  <2>2. th' = [th EXCEPT ![t] = y]
    BY Zenon DEF PlusPanics
  <2>3. ASSUME NEW r \in Records
        PROVE  krefs'[r] + leaked'[r] = krefs[r] + leaked[r] + Counted(t, r)
    BY <1>2, <2>1
  <2>4. QED
    BY <2>1, <2>2, <2>3, Zenon
<1>4. /\ y \in Thread /\ y.pc = "using" /\ y.got = NoRef /\ y.accepted = <<>>
      /\ y.op = th[t].op
  <2>1. "using" \in Steps /\ <<>> \in Seq(Ref) /\ th[t].got = NoRef
    BY <1>1 DEF Steps, Carries
  <2>2. QED
    BY <1>1, <2>1, Zenon DEF Thread
<1> HIDE DEF y
<1>5. Carries(y)
  BY <1>4, RuntimeAssumption DEF Carries
<1>6. LookupsInv'
  <2>1. th[t].pc # "retain" /\ y.pc # "retain"
    BY <1>1, <1>4
  <2>2. QED
    BY <1>1, <1>3, <1>4, <1>5, <2>1, HandsOver, Zenon
<1>7. OpensInv'
  <2>1. \A j \in Nat : Opener(y, j) <=> Opener(th[t], j)
    BY <1>1, <1>4 DEF Opener
  <2>2. Same(table, table', "opens") /\ \A f \in open : hrec'[f].node = hrec[f].node
    BY <1>3, SameTable
  <2>3. QED
    BY <1>1, <1>3, <1>4, <2>1, <2>2, OpensQuiet, Zenon
<1>8. QED
  BY <1>6, <1>7, Zenon DEF KernelInv

------------------------------------------------------------------------------
(* The steps that give lookups back.                                         *)

\* y is x in a forget.
Forgetting(x, y) ==
    /\ y \in Thread /\ y.pc \in {"forgotten", "sweep"}
    /\ y.got = x.got /\ y.accepted = x.accepted /\ y.op = x.op /\ y.id = x.id

\* The first critical section of forget, on a live node with k lookups or more.
LEMMA SectionMoves ==
    ASSUME Inv, NEW t \in Threads, NEW x \in Thread, NEW rest, rest = [th EXCEPT ![t] = x],
           NEW e \in DOMAIN table.map, NEW k \in Nat, k <= table.map[e].count["lookups"],
           ForgetSection(t, e, k, rest)
    PROVE  /\ \E y : Forgetting(x, y) /\ th' = [th EXCEPT ![t] = y]
           /\ Shift(table, table', "lookups", e, -k) /\ Same(table, table', "opens")
<1>1. Typed(table) /\ Accounted(table, born) /\ th \in [Threads -> Thread]
  BY DEF Inv, Sound, ThreadsOK
<1>2. Shift(table, table', "lookups", e, -k) /\ Same(table, table', "opens")
  BY <1>1, ForgetShifts DEF ForgetSection, Contains
<1>3. PICK s \in {"forgotten", "sweep"}, l \in Ref :
          th' = [rest EXCEPT ![t].pc = s, ![t].flease = l]
  <2>1. /\ [ino |-> e, record |-> table.map[e].record] \in Ref
        /\ [ino |-> e, record |-> 0] \in Ref
    BY LiveTyped DEF Ref
  <2>2. QED
    BY <2>1 DEF ForgetSection, Contains
<1> DEFINE y == [x EXCEPT !.pc = s, !.flease = l]
<1>4. th' = [th EXCEPT ![t] = y]
  BY <1>1, <1>3, Zenon
<1>5. Forgetting(x, y)
  BY <1>3, Zenon DEF Forgetting, Thread, Steps
<1>6. QED
  BY <1>2, <1>4, <1>5, Zenon

\* A request in a forget carries what it carried.
LEMMA ForgettingCarries ==
    ASSUME NEW x, NEW y, Carries(x), Forgetting(x, y), x.got = NoRef
    PROVE  Carries(y) /\ (\A i : Carried(y, i) = Carried(x, i)) /\ \A i \in Nat : ~Opener(y, i)
<1>1. Carries(y)
  BY DEF Carries, Forgetting
<1>2. \A i \in Nat : ~Opener(y, i)
  BY DEF Opener, Forgetting
<1>3. ASSUME NEW i PROVE Carried(y, i) = Carried(x, i)
  <2>1. y.pc # "retain" /\ y.got = x.got /\ y.accepted = x.accepted
    BY DEF Forgetting
  <2>2. CASE x.pc # "retain"
    BY <2>1, <2>2, Zenon DEF Carried
  <2>3. CASE x.pc = "retain"
    BY <2>3 DEF Carries
  <2>4. QED
    BY <2>2, <2>3, Zenon
<1>4. QED
  BY <1>1, <1>2, <1>3, Zenon

\* What is on its way can be counted.
LEMMA UnsentNat ==
    ASSUME Inv, LookupsInv, NEW i
    PROVE  /\ Listings(th) /\ Unsent(i) \in Nat
           /\ Unsent(i) = Cardinality(Answers(th, i)) + Cardinality(Places(th, i))
<1>1. Listings(th)
  BY DEF Listings, Inv, ThreadsOK, LookupsInv, Carries
<1>2. PICK u \in Threads : TRUE
  BY RuntimeAssumption
<1>3. Unsent(i) = Cardinality(Answers(th, i)) + Cardinality(Places(th, i))
  BY DEF Unsent, Answers, Places
<1> DEFINE others == {p \in Places(th, i) : p[1] # u}
<1>4. /\ Cardinality(Places(th, i)) = Cardinality(others) + Ents(th[u].accepted, i)
      /\ Cardinality(Answers(th, i)) \in Nat /\ Cardinality(others) \in Nat
      /\ Ents(th[u].accepted, i) \in Nat
  BY <1>1, UnsentSplit, Zenon
<1> HIDE DEF others
<1>5. QED
  BY <1>1, <1>3, <1>4

\* What the table counts covers what the kernel holds and what is on its way.
LEMMA LookupsCover ==
    ASSUME Inv, LookupsInv, NEW i \in DOMAIN table.map
    PROVE  /\ table.map[i].count["lookups"] \in Nat
           /\ krefs[table.map[i].record] <= table.map[i].count["lookups"]
           /\ \A t \in Threads : \A k \in DOMAIN th[t].accepted :
                 th[t].accepted[k].ino = i => 1 <= table.map[i].count["lookups"]
<1> DEFINE r == table.map[i].record
<1>1. PICK k \in Nat, l \in Nat, n \in Nat : krefs[r] = k /\ leaked[r] = l /\ Unsent(i) = n
  <2>1. Unsent(i) \in Nat
    BY UnsentNat, Zenon
  <2>2. QED
    BY <2>1, GivenNat
<1>2. table.map[i].count["lookups"] = k + l + n
  BY <1>1 DEF LookupsInv
<1>3. ASSUME NEW t \in Threads, NEW j \in DOMAIN th[t].accepted, th[t].accepted[j].ino = i
      PROVE  n # 0
  <2>1. Cardinality(Answers(th, i)) + Cardinality(Places(th, i)) \in Nat \ {0}
    BY <1>3, UnsentNat, UnsentCovers
  <2>2. QED
    BY <1>1, <2>1, UnsentNat, Zenon
<1>4. QED
  BY <1>1, <1>2, <1>3

\* forget: the kernel gives back k of the references it holds on a node.
LEMMA ForgetKernel ==
    ASSUME Inv, Inv', KernelInv, NEW t \in Threads, NEW r \in DOMAIN born,
           NEW k \in 1..MaxRefs, Forget(t, r, k)
    PROVE  KernelInv'
<1> DEFINE e == born[r].ino
<1>1. /\ th[t] \in Thread /\ Carries(th[t]) /\ LookupsInv /\ OpensInv
      /\ th \in [Threads -> Thread] /\ krefs \in [Records -> Nat] /\ leaked \in [Records -> Nat]
  BY DEF Inv, ThreadsOK, RestOK, KernelInv, LookupsInv
<1>2. /\ th[t].pc = "idle" /\ k <= krefs[r] /\ krefs' = [krefs EXCEPT ![r] = krefs[r] - k]
      /\ ForgetSection(t, e, k, th) /\ UNCHANGED <<born, names, leaked, open, hrec>>
  BY DEF Forget, Start, Idle
<1>3. r \in Records /\ k \in Nat /\ k # 0
  BY <1>1, BornRecords, RuntimeAssumption
<1>4. krefs[r] \in Nat /\ leaked[r] \in Nat /\ krefs[r] + leaked[r] # 0
  BY <1>1, <1>2, <1>3
<1>5. e \in DOMAIN table.map /\ table.map[e].record = r
  BY <1>1, <1>3, <1>4, AllLive, Zenon DEF Lives
<1>6. k <= table.map[e].count["lookups"]
  BY <1>1, <1>2, <1>3, <1>4, <1>5, LookupsCover
<1>7. th[t].got = NoRef /\ th[t].accepted = <<>>
  BY <1>1, <1>2, Zenon DEF Carries
<1>8. /\ \E y : Forgetting(th[t], y) /\ th' = [th EXCEPT ![t] = y]
      /\ Shift(table, table', "lookups", e, -k) /\ Same(table, table', "opens")
  <2>1. th = [th EXCEPT ![t] = th[t]]
    BY <1>1
  <2>2. QED
    BY <1>1, <1>2, <1>3, <1>5, <1>6, <2>1, SectionMoves, Zenon
<1>9. PICK y : Forgetting(th[t], y) /\ th' = [th EXCEPT ![t] = y]
  BY <1>8, Zenon
<1>10. /\ Carries(y) /\ (\A i : Carried(y, i) = Carried(th[t], i))
       /\ \A i \in Nat : ~Opener(y, i)
  BY <1>1, <1>7, <1>9, ForgettingCarries, Zenon
<1>11. y \in Thread /\ y.got = NoRef /\ y.accepted = <<>> /\ y.pc # "retain"
  BY <1>7, <1>9, Zenon DEF Forgetting
<1>12. GivenLive
  <2> SUFFICES ASSUME NEW q \in Records, krefs'[q] + leaked'[q] # 0
               PROVE  q \in DOMAIN born /\ Lives(table, [ino |-> born[q].ino, record |-> q])
    BY DEF GivenLive
  <2>1. CASE q = r
    BY <1>5, <2>1, Zenon DEF Lives
  <2>2. CASE q # r
    BY <1>1, <1>2, <2>2, AllLive, Zenon
  <2>3. QED
    BY <2>1, <2>2, Zenon
<1>13. Balanced(th[t], y, e, -k)
  <2> SUFFICES ASSUME NEW i \in DOMAIN table.map
               PROVE  krefs'[table.map[i].record] + leaked'[table.map[i].record] + Carried(y, i) =
                      krefs[table.map[i].record] + leaked[table.map[i].record]
                          + Carried(th[t], i) + (IF i = e THEN -k ELSE 0)
    BY DEF Balanced
  <2>1. PICK a \in Nat, b \in Nat, c \in Nat :
            /\ krefs[table.map[i].record] = a /\ leaked[table.map[i].record] = b
            /\ Carried(th[t], i) = c /\ Carried(y, i) = c
    <3>1. Carried(th[t], i) \in Nat
      BY <1>1, <1>7, GivenNat, CarriedEnts, Zenon
    <3>2. QED
      BY <1>1, <1>10, <3>1, GivenNat, Zenon
  <2>2. leaked'[table.map[i].record] = b
    BY <1>2, <2>1, Zenon
  <2>3. CASE i = e
    <3>1. krefs'[table.map[i].record] = a - k
      BY <1>1, <1>2, <1>3, <1>5, <2>1, <2>3, Zenon
    <3>2. QED
      BY <1>3, <2>1, <2>2, <2>3, <3>1
  <2>4. CASE i # e
    <3>1. table.map[i].record # r
      BY <1>1, <2>4, LiveRecord, Zenon DEF LookupsInv
    <3>2. krefs'[table.map[i].record] = a
      BY <1>1, <1>2, <2>1, <3>1, GivenNat
    <3>3. QED
      BY <2>1, <2>2, <2>4, <3>2
  <2>5. QED
    BY <2>3, <2>4, Zenon
<1>14. LookupsInv'
  <2>1. EntriesLive(y) /\ -k \in Int /\ born' = born /\ names' = names
    BY <1>2, <1>3, <1>11 DEF EntriesLive
  <2>2. QED
    BY <1>1, <1>8, <1>9, <1>10, <1>11, <1>12, <1>13, <2>1, LookupsMove, Zenon
<1>15. OpensInv'
  <2>1. \A j \in Nat : Opener(y, j) <=> Opener(th[t], j)
    BY <1>2, <1>10, Zenon DEF Opener
  <2>2. open' = open /\ \A f \in open : hrec'[f].node = hrec[f].node
    BY <1>2, Zenon
  <2>3. QED
    BY <1>1, <1>8, <1>9, <1>11, <2>1, <2>2, OpensQuiet, Zenon
<1>16. QED
  BY <1>14, <1>15, Zenon DEF KernelInv

\* Accounting's roll back forgets the first of the entries it had counted.
LEMMA PlusRollbackKernel ==
    ASSUME Inv, Inv', KernelInv, NEW t \in Threads, PlusRollback(t)
    PROVE  KernelInv'
<1> DEFINE a == th[t].accepted
           e == Head(a).ino
           x == [th[t] EXCEPT !.accepted = Tail(a)]
           rest == [th EXCEPT ![t].accepted = Tail(@)]
<1>1. /\ th[t] \in Thread /\ Carries(th[t]) /\ LookupsInv /\ OpensInv
      /\ th \in [Threads -> Thread]
  BY DEF Inv, ThreadsOK, KernelInv, LookupsInv
<1>2. /\ th[t].pc = "rollback" /\ a # <<>> /\ ForgetSection(t, e, 1, rest)
      /\ UNCHANGED <<born, names, krefs, leaked, open, hrec>>
  BY DEF PlusRollback
<1>3. a \in Seq(Ref) /\ th[t].got = NoRef
  BY <1>1, <1>2, Zenon DEF Thread, Carries
<1>4. /\ Head(a) = a[1] /\ 1 \in DOMAIN a /\ Tail(a) \in Seq(Ref) /\ Len(Tail(a)) = Len(a) - 1
      /\ Len(a) \in Nat /\ \A j \in DOMAIN Tail(a) : j + 1 \in DOMAIN a /\ Tail(a)[j] = a[j + 1]
  BY <1>2, <1>3
<1>5. x \in Thread /\ x.accepted = Tail(a) /\ x.got = NoRef /\ x.pc = "rollback"
      /\ x.op = th[t].op /\ rest = [th EXCEPT ![t] = x]
  BY <1>1, <1>2, <1>3, <1>4, Zenon DEF Thread
<1>6. Carries(x)
  BY <1>1, <1>2, <1>4, <1>5, RuntimeAssumption DEF Carries
<1>7. \A j \in DOMAIN a : Lives(table, a[j])
  BY <1>1, AllLive, Zenon
<1>8. e \in DOMAIN table.map /\ 1 <= table.map[e].count["lookups"] /\ 1 \in Nat
  <2>1. e \in DOMAIN table.map /\ a[1].ino = e
    BY <1>4, <1>7 DEF Lives
  <2>2. QED
    BY <1>1, <1>4, <2>1, LookupsCover, Zenon
<1> HIDE DEF x, rest
<1>9. /\ \E y : Forgetting(x, y) /\ th' = [th EXCEPT ![t] = y]
      /\ Shift(table, table', "lookups", e, -1) /\ Same(table, table', "opens")
  BY <1>2, <1>5, <1>8, SectionMoves, Zenon
<1>10. PICK y : Forgetting(x, y) /\ th' = [th EXCEPT ![t] = y]
  BY <1>9, Zenon
<1>11. /\ Carries(y) /\ (\A i : Carried(y, i) = Carried(x, i)) /\ \A i \in Nat : ~Opener(y, i)
  BY <1>5, <1>6, <1>10, ForgettingCarries, Zenon
<1>12. y \in Thread /\ y.got = NoRef /\ y.accepted = Tail(a) /\ y.pc # "retain"
  BY <1>5, <1>10, Zenon DEF Forgetting
<1>13. Counting(th[t], y, e, -1)
  <2> SUFFICES ASSUME NEW i \in DOMAIN table.map
               PROVE  /\ Carried(y, i) \in Nat /\ Carried(th[t], i) \in Nat
                      /\ Carried(y, i) = Carried(th[t], i) + (IF i = e THEN -1 ELSE 0)
    BY DEF Counting
  <2>1. i # 0
    BY LiveTyped
  <2>2. Carried(th[t], i) = Ents(a, i) /\ Ents(a, i) \in Nat
    BY <1>1, <1>3, <2>1, CarriedEnts, Zenon
  <2>3. Carried(y, i) = Ents(Tail(a), i) /\ Ents(Tail(a), i) \in Nat
    BY <1>12, <2>1, CarriedEnts, Zenon
  <2>4. Ents(a, i) = Ents(Tail(a), i) + (IF e = i THEN 1 ELSE 0)
    BY <1>2, <1>3, EntsTail
  <2>5. QED
    BY <2>2, <2>3, <2>4
<1>14. LookupsInv'
  <2>1. EntriesLive(y)
    BY <1>4, <1>7, <1>12, Zenon DEF EntriesLive
  <2>2. -1 \in Int
    OBVIOUS
  <2>3. UNCHANGED <<born, names, krefs, leaked>>
    BY <1>2
  <2>4. QED
    BY <1>1, <1>9, <1>10, <1>11, <1>12, <1>13, <2>1, <2>2, <2>3, CountsLookups, Zenon
<1>15. OpensInv'
  <2>1. \A j \in Nat : Opener(y, j) <=> Opener(th[t], j)
    BY <1>2, <1>11, Zenon DEF Opener
  <2>2. open' = open /\ \A f \in open : hrec'[f].node = hrec[f].node
    BY <1>2
  <2>3. QED
    BY <1>1, <1>9, <1>10, <1>12, <2>1, <2>2, OpensQuiet, Zenon
<1>16. QED
  BY <1>14, <1>15 DEF KernelInv

------------------------------------------------------------------------------
(* The steps that count handles.                                             *)

\* Cx::add_open: the open is counted before the handle has its number.
LEMMA CountOpenKernel ==
    ASSUME Inv, Inv', KernelInv, NEW t \in Threads, CountOpen(t)
    PROVE  KernelInv'
<1> DEFINE e == th[t].id
<1>1. /\ th[t] \in Thread /\ Carries(th[t]) /\ LookupsInv /\ OpensInv /\ Typed(table)
      /\ ThreadsOK
  BY Zenon DEF Inv, ThreadsOK, KernelInv, LookupsInv, Sound
<1>2. /\ th[t].pc \in {"leased", "addopen"} /\ th[t].accepted = <<>>
      /\ UNCHANGED <<born, names, krefs, leaked, open, hrec>>
  BY <1>1 DEF CountOpen, Carries
<1>3. CASE e \in DOMAIN table.map
  <2> DEFINE y == [th[t] EXCEPT !.pc = "addhandle"]
  <2>1. table' = Inc(table, e, "opens") /\ th' = [th EXCEPT ![t] = y]
    BY <1>3 DEF CountOpen, Contains, AddOpen, Goto
  <2>2. /\ y \in Thread /\ y.pc = "addhandle" /\ y.got = th[t].got
        /\ y.accepted = th[t].accepted /\ y.op = th[t].op /\ y.id = th[t].id
    BY <1>1, Zenon DEF Thread, Steps
  <2> HIDE DEF y
  <2>3. Carries(y)
    BY <1>1, <1>2, <2>2, CarriesOn, Zenon
  <2>4. Shift(table, table', "opens", e, 1) /\ Same(table, table', "lookups")
    BY <1>1, <1>3, <2>1, IncShifts, Zenon DEF Counts
  <2>5. LookupsInv'
    <3>1. (y.pc = "retain" <=> th[t].pc = "retain") /\ UNCHANGED <<born, krefs, leaked>>
          /\ (names' = names \/ NotListed)
      BY <1>2, <2>2
    <3>2. QED
      BY <1>1, <2>1, <2>2, <2>3, <2>4, <3>1, LookupsQuiet, Zenon
  <2>6. OpensInv'
    <3>1. \A i : ~Opener(th[t], i) /\ (Opener(y, i) <=> i = e)
      BY <1>2, <2>2, Zenon DEF Opener
    <3>2. HandlesBalanced(th[t], y, e, 1)
      <4> SUFFICES ASSUME NEW i \in DOMAIN table.map
                   PROVE  Cardinality(HandlesOn(open', hrec', i))
                              + (IF Opener(y, i) THEN 1 ELSE 0) =
                          Cardinality(HandlesOn(open, hrec, i))
                              + (IF Opener(th[t], i) THEN 1 ELSE 0) + (IF i = e THEN 1 ELSE 0)
        BY DEF HandlesBalanced
      <4>1. PICK n \in Nat : /\ Cardinality(HandlesOn(open, hrec, i)) = n
                             /\ Cardinality(HandlesOn(open', hrec', i)) = n
        BY <1>2, HandlesCounted, Zenon DEF Inv, RestOK
      <4>2. QED
        BY <3>1, <4>1
    <3>3. /\ \A f \in open' : hrec'[f].node \in DOMAIN table.map
          /\ \A i \in Nat : Opener(y, i) => i \in DOMAIN table.map
      BY <1>1, <1>2, <1>3, <3>1, Zenon DEF OpensInv
    <3>4. 1 \in Int
      OBVIOUS
    <3>5. QED
      BY <1>1, <2>1, <2>2, <2>4, <3>2, <3>3, <3>4, OpensMove, Zenon
  <2>7. QED
    BY <2>5, <2>6 DEF KernelInv
<1>4. CASE e \notin DOMAIN table.map
  <2>1. PICK s \in {"reply", "unlease"} : Goto(t, s) /\ UNCHANGED table
    BY <1>4, Zenon DEF CountOpen, Contains
  <2>2. Untouched
    BY <1>2, <2>1, TableUntouched, Zenon
  <2>3. s \in Plain \ {"addopen", "entry", "attr"} /\ th[t].pc \in Plain
    BY <1>2, <2>1, Zenon DEF Plain, Steps
  <2>4. PICK y : Quietly(t, y)
    BY <1>1, <1>2, <2>1, <2>3, GotoQuiet, Zenon
  <2>5. QED
    BY <2>2, <2>4, QuietKernel, Zenon
<1>5. QED
  BY <1>3, <1>4, Zenon

\* Cx::add_file and Cx::add_dir: the open in hand becomes a handle.
LEMMA AddHandleKernel ==
    ASSUME Inv, Inv', KernelInv, NEW t \in Threads, AddHandle(t)
    PROVE  KernelInv'
<1> DEFINE e == th[t].id
           f == Len(hrec) + 1
           s == IF th[t].op = "create" THEN "reply" ELSE "unlease"
           y == [th[t] EXCEPT !.pc = s, !.fh = f]
<1>1. /\ th[t] \in Thread /\ Carries(th[t]) /\ LookupsInv /\ OpensInv /\ Typed(table)
      /\ hrec \in Seq(HandleRecord) /\ open \in SUBSET DOMAIN hrec
      /\ hrec' \in Seq(HandleRecord) /\ open' \in SUBSET DOMAIN hrec'
  BY DEF Inv, ThreadsOK, KernelInv, LookupsInv, Sound, RestOK
<1>2. /\ th[t].pc = "addhandle" /\ th[t].accepted = <<>> /\ f \in Nat
      /\ hrec' = Append(hrec, NewHandle(e)) /\ open' = open \cup {f}
      /\ UNCHANGED <<table, born, names, krefs, leaked>>
  BY <1>1 DEF AddHandle, Carries
<1>3. th' = [th EXCEPT ![t] = y]
  BY Zenon DEF AddHandle
<1>4. s \in {"reply", "unlease"}
  OBVIOUS
<1> HIDE DEF s
<1>5. /\ y \in Thread /\ y.pc = s /\ y.got = th[t].got
      /\ y.accepted = th[t].accepted /\ y.op = th[t].op /\ y.id = th[t].id
  <2>1. s \in Steps
    BY <1>4, Zenon DEF Steps
  <2>2. QED
    BY <1>1, <1>2, <2>1, Zenon DEF Thread
<1> HIDE DEF y
<1>6. Carries(y)
  BY <1>1, <1>2, <1>4, <1>5, CarriesOn, Zenon
<1>7. LookupsInv'
  <2>1. /\ y.pc = "retain" <=> th[t].pc = "retain"
        /\ UNCHANGED <<born, krefs, leaked>> /\ (names' = names \/ NotListed)
    BY <1>2, <1>4, <1>5, Zenon
  <2>2. Same(table, table', "lookups")
    BY <1>2, SameTable
  <2>3. QED
    BY <1>1, <1>3, <1>5, <1>6, <2>1, <2>2, LookupsQuiet, Zenon
<1>8. OpensInv'
  <2>1. \A i : ~Opener(y, i) /\ (Opener(th[t], i) <=> i = e)
    BY <1>2, <1>4, <1>5, Zenon DEF Opener
  <2>2. /\ f \notin open /\ hrec'[f].node = e
        /\ \A g \in open : hrec'[g].node = hrec[g].node
    BY <1>1, <1>2 DEF NewHandle
  <2>3. e \in DOMAIN table.map
    BY <1>1, <1>2, Zenon DEF OpensInv, Opener, Thread
  <2>4. HandlesBalanced(th[t], y, ROOT, 0)
    <3> SUFFICES ASSUME NEW i \in DOMAIN table.map
                 PROVE  Cardinality(HandlesOn(open', hrec', i))
                            + (IF Opener(y, i) THEN 1 ELSE 0) =
                        Cardinality(HandlesOn(open, hrec, i))
                            + (IF Opener(th[t], i) THEN 1 ELSE 0) + (IF i = ROOT THEN 0 ELSE 0)
      BY DEF HandlesBalanced
    <3> DEFINE H == HandlesOn(open, hrec, i)
               H2 == HandlesOn(open', hrec', i)
    <3>1. /\ H2 = IF i = e THEN H \cup {f} ELSE H
          /\ f \notin H
      BY <1>2, <2>2, Zenon DEF HandlesOn
    <3>2. IsFiniteSet(H) /\ Cardinality(H) \in Nat
      BY <1>1, HandlesCounted, Zenon
    <3> HIDE DEF H, H2
    <3>3. Cardinality(H \cup {f}) = Cardinality(H) + 1
      BY <3>1, <3>2, FS_AddElement, Zenon
    <3>4. PICK n \in Nat : Cardinality(H) = n /\ Cardinality(H2) = IF i = e THEN n + 1 ELSE n
      BY <3>1, <3>2, <3>3, Zenon
    <3>5. Cardinality(H2) + (IF Opener(y, i) THEN 1 ELSE 0) =
          Cardinality(H) + (IF Opener(th[t], i) THEN 1 ELSE 0) + (IF i = ROOT THEN 0 ELSE 0)
      BY <2>1, <3>4
    <3>6. QED
      BY <3>5, Zenon DEF H, H2
  <2>5. /\ \A g \in open' : hrec'[g].node \in DOMAIN table.map
        /\ \A i \in Nat : Opener(y, i) => i \in DOMAIN table.map
    BY <1>1, <1>2, <2>1, <2>2, <2>3, Zenon DEF OpensInv
  <2>6. Shift(table, table', "opens", ROOT, 0) /\ 0 \in Int
    <3>1. Same(table, table', "opens") /\ "opens" \in Counts
      BY <1>2, SameTable, Zenon DEF Counts
    <3>2. QED
      BY <1>1, <3>1, SameIsShift
  <2>7. QED
    BY <1>1, <1>3, <1>5, <2>4, <2>5, <2>6, OpensMove, Zenon
<1>9. QED
  BY <1>7, <1>8 DEF KernelInv

\* release and releasedir take the handle out of the table: its open is in the
\* hands of the request.
LEMMA ReleaseKernel ==
    ASSUME Inv, Inv', KernelInv, NEW t \in Threads, NEW f \in DOMAIN hrec, Release(t, f)
    PROVE  KernelInv'
<1> DEFINE e == hrec[f].node
           y == [IdleThread EXCEPT !.pc = "relnode", !.op = "release", !.id = e, !.fh = f]
<1>1. /\ th[t] \in Thread /\ Carries(th[t]) /\ LookupsInv /\ OpensInv /\ Typed(table)
      /\ hrec \in Seq(HandleRecord) /\ open \in SUBSET DOMAIN hrec
  BY DEF Inv, ThreadsOK, KernelInv, LookupsInv, Sound, RestOK
<1>2. /\ th[t].pc = "idle" /\ f \in open /\ open' = open \ {f} /\ th' = [th EXCEPT ![t] = y]
      /\ UNCHANGED <<table, born, names, krefs, leaked, hrec>>
  BY DEF Release, Start, Idle
<1>3. f \in Nat /\ e \in Nat
  <2>1. hrec[f] \in HandleRecord /\ f \in Nat
    BY <1>1
  <2>2. QED
    BY <2>1 DEF HandleRecord
<1>4. /\ y \in Thread /\ y.pc = "relnode" /\ y.got = NoRef /\ y.accepted = <<>>
      /\ y.op = "release" /\ y.id = e
  BY <1>3, IdleOK, Zenon DEF IdleThread, Thread, Steps, AllOps
<1> HIDE DEF y
<1>5. th[t].got = NoRef /\ th[t].accepted = <<>>
  BY <1>1, <1>2, Zenon DEF Carries
<1>6. Carries(y)
  BY <1>4, RuntimeAssumption DEF Carries
<1>7. LookupsInv'
  <2>1. /\ y.pc = "retain" <=> th[t].pc = "retain"
        /\ y.got = th[t].got /\ y.accepted = th[t].accepted
        /\ UNCHANGED <<born, krefs, leaked>> /\ (names' = names \/ NotListed)
    BY <1>2, <1>4, <1>5
  <2>2. Same(table, table', "lookups")
    BY <1>2, SameTable
  <2>3. QED
    BY <1>1, <1>2, <1>4, <1>6, <2>1, <2>2, LookupsQuiet, Zenon
<1>8. OpensInv'
  <2>1. \A i : ~Opener(th[t], i) /\ (Opener(y, i) <=> i = e)
    BY <1>2, <1>4, Zenon DEF Opener
  <2>2. HandlesBalanced(th[t], y, ROOT, 0)
    <3> SUFFICES ASSUME NEW i \in DOMAIN table.map
                 PROVE  Cardinality(HandlesOn(open', hrec', i))
                            + (IF Opener(y, i) THEN 1 ELSE 0) =
                        Cardinality(HandlesOn(open, hrec, i))
                            + (IF Opener(th[t], i) THEN 1 ELSE 0) + (IF i = ROOT THEN 0 ELSE 0)
      BY DEF HandlesBalanced
    <3> DEFINE H == HandlesOn(open, hrec, i)
               H2 == HandlesOn(open', hrec', i)
    <3>1. IF i = e THEN f \in H /\ H2 = H \ {f} ELSE H2 = H
      BY <1>2 DEF HandlesOn
    <3>2. IsFiniteSet(H) /\ Cardinality(H) \in Nat
      BY <1>1, HandlesCounted
    <3> HIDE DEF H, H2
    <3>3. f \in H => Cardinality(H \ {f}) = Cardinality(H) - 1
      BY <3>2, FS_RemoveElement, Zenon
    <3>4. PICK n \in Nat : Cardinality(H) = n /\ Cardinality(H2) = IF i = e THEN n - 1 ELSE n
      BY <3>1, <3>2, <3>3, Zenon
    <3>5. Cardinality(H2) + (IF Opener(y, i) THEN 1 ELSE 0) =
          Cardinality(H) + (IF Opener(th[t], i) THEN 1 ELSE 0) + (IF i = ROOT THEN 0 ELSE 0)
      BY <2>1, <3>4
    <3>6. QED
      BY <3>5 DEF H, H2
  <2>3. /\ \A g \in open' : hrec'[g].node \in DOMAIN table.map
        /\ \A i \in Nat : Opener(y, i) => i \in DOMAIN table.map
    BY <1>1, <1>2, <2>1, Zenon DEF OpensInv
  <2>4. Shift(table, table', "opens", ROOT, 0) /\ 0 \in Int
    <3>1. Same(table, table', "opens") /\ "opens" \in Counts
      BY <1>2, SameTable, Zenon DEF Counts
    <3>2. QED
      BY <1>1, <3>1, SameIsShift
  <2>5. QED
    BY <1>1, <1>2, <1>4, <2>2, <2>3, <2>4, OpensMove, Zenon
<1>9. QED
  BY <1>7, <1>8, Zenon DEF KernelInv

\* Cx::remove_open: the request gives back the open it has in hand.
LEMMA ReleaseOpenKernel ==
    ASSUME Inv, Inv', KernelInv, NEW t \in Threads, ReleaseOpen(t)
    PROVE  KernelInv'
<1> DEFINE e == th[t].id
           y == [th[t] EXCEPT !.pc = "closing"]
<1>1. /\ th[t] \in Thread /\ Carries(th[t]) /\ LookupsInv /\ OpensInv /\ Typed(table)
      /\ Accounted(table, born) /\ th \in [Threads -> Thread]
      /\ hrec \in Seq(HandleRecord) /\ open \in SUBSET DOMAIN hrec
  BY Zenon DEF Inv, ThreadsOK, KernelInv, LookupsInv, Sound, RestOK
<1>2. /\ th[t].pc = "relopen" /\ th' = [th EXCEPT ![t] = y]
      /\ table' = MaybeDrop(Dec(table, e, "opens", 1), e)
      /\ UNCHANGED <<born, names, krefs, leaked, open, hrec>>
  BY DEF ReleaseOpen, RemoveOpen, Goto
<1>3. /\ y \in Thread /\ y.pc = "closing" /\ y.got = th[t].got
      /\ y.accepted = th[t].accepted /\ y.op = th[t].op /\ y.id = th[t].id
  BY <1>1, Zenon DEF Thread, Steps
<1> HIDE DEF y
<1>4. th[t].got = NoRef /\ th[t].accepted = <<>>
  BY <1>1, <1>2, Zenon DEF Carries
<1>5. Carries(y)
  BY <1>1, <1>2, <1>3, <1>4, CarriesOn, Zenon
<1>6. e \in DOMAIN table.map
  BY <1>1, <1>2, Zenon DEF OpensInv, Opener, Thread
<1>7. 1 <= table.map[e].count["opens"]
  <2>1. th = [th EXCEPT ![t] = th[t]]
    BY <1>1
  <2>2. OpenersChange(th, th, t, th[t], e)
    BY <1>1, <2>1, OpenersMove, Zenon
  <2>3. Opener(th[t], e)
    BY <1>2 DEF Opener
  <2>4. Cardinality(Openers(th, e)) \in Nat /\ Cardinality(Openers(th, e)) # 0
    BY <2>2, <2>3, Zenon DEF OpenersChange
  <2>5. Cardinality(HandlesOn(open, hrec, e)) \in Nat
    BY <1>1, HandlesCounted, Zenon
  <2>6. table.map[e].count["opens"]
            = Cardinality(HandlesOn(open, hrec, e)) + Cardinality(Openers(th, e))
    BY <1>1, <1>6, Zenon DEF OpensInv, OpensExact, HandlesOn, Openers, Opener
  <2>7. QED
    BY <2>4, <2>5, <2>6
<1>8. Shift(table, table', "opens", e, -1) /\ Same(table, table', "lookups")
  BY <1>1, <1>2, <1>6, <1>7, DecDropShifts, Zenon DEF Counts
<1>9. LookupsInv'
  <2>1. /\ y.pc = "retain" <=> th[t].pc = "retain"
        /\ UNCHANGED <<born, krefs, leaked>> /\ (names' = names \/ NotListed)
    BY <1>2, <1>3
  <2>2. QED
    BY <1>1, <1>2, <1>3, <1>5, <1>8, <2>1, LookupsQuiet, Zenon
<1>10. OpensInv'
  <2>1. \A i : ~Opener(y, i) /\ (Opener(th[t], i) <=> i = e)
    BY <1>2, <1>3, Zenon DEF Opener
  <2>2. HandlesBalanced(th[t], y, e, -1)
    <3> SUFFICES ASSUME NEW i \in DOMAIN table.map
                 PROVE  Cardinality(HandlesOn(open', hrec', i))
                            + (IF Opener(y, i) THEN 1 ELSE 0) =
                        Cardinality(HandlesOn(open, hrec, i))
                            + (IF Opener(th[t], i) THEN 1 ELSE 0) + (IF i = e THEN -1 ELSE 0)
      BY Zenon DEF HandlesBalanced
    <3>1. PICK n \in Nat : /\ Cardinality(HandlesOn(open, hrec, i)) = n
                           /\ Cardinality(HandlesOn(open', hrec', i)) = n
      BY <1>1, <1>2, HandlesCounted, Zenon
    <3>2. QED
      BY <2>1, <3>1
  <2>3. /\ \A g \in open' : hrec'[g].node \in DOMAIN table.map
        /\ \A i \in Nat : Opener(y, i) => i \in DOMAIN table.map
    BY <1>1, <1>2, <2>1, Zenon DEF OpensInv
  <2>4. -1 \in Int
    OBVIOUS
  <2>5. QED
    BY <1>1, <1>2, <1>3, <1>8, <2>2, <2>3, <2>4, OpensMove, Zenon
<1>11. QED
  BY <1>9, <1>10 DEF KernelInv

------------------------------------------------------------------------------
(* A new node, and the whole.                                                *)

\* Nobody has an entry for, or an open of, a number that is not live.
LEMMA NobodyHas ==
    ASSUME KernelInv, NEW h \in [Threads -> Thread], NEW i \in Nat, i \notin DOMAIN table.map,
           i # 0,
           \A u \in Threads : /\ h[u].got = NoRef \/ Lives(table, h[u].got)
                              /\ \A k \in DOMAIN h[u].accepted : Lives(table, h[u].accepted[k])
                              /\ Opener(h[u], i) => i \in DOMAIN table.map
    PROVE  /\ Cardinality(Answers(h, i)) = 0 /\ Cardinality(Places(h, i)) = 0
           /\ Cardinality(Openers(h, i)) = 0 /\ Cardinality(HandlesOn(open, hrec, i)) = 0
<1>1. Answers(h, i) = {}
  BY DEF Answers, Lives, NoRef
<1>2. Places(h, i) = {}
  BY DEF Places, Lives
<1>3. Openers(h, i) = {} /\ HandlesOn(open, hrec, i) = {}
  BY DEF Openers, HandlesOn, KernelInv, OpensInv
<1>4. QED
  BY <1>1, <1>2, <1>3, FS_EmptySet, Zenon

\* mknod, mkdir, symlink and create: the kernel has nothing of a new node yet.
LEMMA MakeNodeKernel ==
    ASSUME Inv, Inv', KernelInv, NEW t \in Threads, NEW o \in {"mknod", "create"},
           NEW n \in Names, MakeNode(t, o, n)
    PROVE  KernelInv'
<1>0. PICK h, a, q : h = th' /\ a = Alloc(table) /\ q = Len(born) + 1
  OBVIOUS
<1> DEFINE y == [IdleThread EXCEPT !.pc = "entry", !.op = o, !.id = a.ino, !.meant = q]
<1>1. /\ th \in [Threads -> Thread] /\ h \in [Threads -> Thread] /\ LookupsInv /\ OpensInv
      /\ Typed(table) /\ Accounted(table, born) /\ born \in Seq(FreeEntry)
      /\ krefs \in [Records -> Nat] /\ leaked \in [Records -> Nat] /\ Len(born) \in Nat
  <2>1. /\ Accounted(table, born) /\ Typed(table) /\ ThreadsOK /\ RestOK /\ ThreadsOK'
    BY Zenon DEF Inv, Sound
  <2>2. born \in Seq(FreeEntry) /\ Len(born) \in Nat
    BY <2>1 DEF Accounted
  <2>3. QED
    BY <1>0, <2>1, <2>2, Zenon DEF KernelInv, ThreadsOK, RestOK
<1>2. /\ th[t].pc = "idle" /\ NotListed /\ Len(born) < MaxRecords
      /\ table' = Insert(table, q) /\ born' = Append(born, a) /\ h = [th EXCEPT ![t] = y]
      /\ UNCHANGED <<krefs, leaked, open, hrec>>
  BY <1>0 DEF MakeNode, Start, Idle, ExclusiveAllowed, EntryCallback
<1>3. /\ a \in FreeEntry /\ a.ino \notin DOMAIN table.map
      /\ DOMAIN table'.map = DOMAIN table.map \cup {a.ino}
      /\ table'.map[a.ino] = NewSlot(q, a.generation)
      /\ \A i \in DOMAIN table.map : table'.map[i] = table.map[i]
  <2> DEFINE t2 == Insert(table, Len(born) + 1)
             b == Alloc(table)
  <2>1. /\ b \in FreeEntry /\ b.ino \notin DOMAIN table.map
        /\ DOMAIN t2.map = DOMAIN table.map \cup {b.ino}
        /\ t2.map[b.ino] = NewSlot(Len(born) + 1, b.generation)
        /\ \A i \in DOMAIN table.map : t2.map[i] = table.map[i]
    BY <1>1, InsertAccounted, Zenon
  <2>2. table' = t2
    BY <1>0, <1>2, Zenon
  <2> HIDE DEF t2
  <2>3. QED
    BY <1>0, <2>1, <2>2, Zenon
<1>4. a.ino \in Nat /\ q \in Nat
  BY <1>0, <1>1, <1>3 DEF FreeEntry
<1>5. a.ino # 0
  <2>1. a.ino \in 1..(table'.next_ino - 1)
    BY <1>3, Zenon DEF Inv, Sound, Accounted
  <2>2. QED
    BY <1>4, <2>1
<1>6. /\ y \in Thread /\ y.pc = "entry" /\ y.got = NoRef /\ y.accepted = <<>> /\ y.op = o
  BY <1>4, IdleOK, Zenon DEF IdleThread, Thread, Steps, AllOps
<1> HIDE DEF y
<1>7. Carries(y) /\ Carries(th[t]) /\ th[t].got = NoRef /\ th[t].accepted = <<>>
  <2>1. Carries(y)
    BY <1>6, RuntimeAssumption DEF Carries
  <2>2. Carries(th[t])
    BY <1>1, Zenon DEF LookupsInv
  <2>3. QED
    BY <1>2, <2>1, <2>2, Zenon DEF Carries
<1>8. ASSUME NEW u \in Threads
      PROVE  /\ h[u].got = NoRef \/ Lives(table, h[u].got)
             /\ \A k \in DOMAIN h[u].accepted : Lives(table, h[u].accepted[k])
             /\ \A i \in Nat : Opener(h[u], i) => i \in DOMAIN table.map
             /\ Carries(h[u]) /\ h[u].pc # "retain"
  <2>1. CASE u = t
    BY <1>1, <1>2, <1>6, <1>7, <2>1 DEF Opener
  <2>2. CASE u # t
    <3>1. h[u] = th[u] /\ th[u].pc # "retain"
      BY <1>1, <1>2, <2>2, Zenon DEF NotListed
    <3>2. QED
      BY <1>1, <3>1, Zenon DEF LookupsInv, OpensInv
  <2>3. QED
    BY <2>1, <2>2, Zenon
<1>9. \A g : Lives(table, g) => Lives(table', g)
  BY <1>3 DEF Lives
<1>10. /\ Cardinality(Answers(h, a.ino)) = 0 /\ Cardinality(Places(h, a.ino)) = 0
       /\ Cardinality(Openers(h, a.ino)) = 0 /\ Cardinality(HandlesOn(open, hrec, a.ino)) = 0
  <2>1. \A u \in Threads : /\ h[u].got = NoRef \/ Lives(table, h[u].got)
                           /\ \A k \in DOMAIN h[u].accepted : Lives(table, h[u].accepted[k])
                           /\ Opener(h[u], a.ino) => a.ino \in DOMAIN table.map
    BY <1>4, <1>8, Zenon
  <2>2. QED
    BY <1>1, <1>3, <1>4, <1>5, <2>1, NobodyHas, Zenon
<1>11. \A i : Unsent(i)' = Cardinality(Answers(h, i)) + Cardinality(Places(h, i))
  BY <1>0 DEF Unsent, Answers, Places
<1>12. LookupsInv'
  <2>1. ASSUME NEW i \in DOMAIN table.map
        PROVE  table'.map[i].count["lookups"] =
                   krefs'[table'.map[i].record] + leaked'[table'.map[i].record] + Unsent(i)'
    <3>1. Listings(th) /\ Len(y.accepted) <= MaxPage
      BY <1>1, <1>7, Zenon DEF Listings, LookupsInv, Carries
    <3>2. i # 0
      BY LiveTyped, Zenon
    <3>3. Carried(y, i) = Carried(th[t], i)
      BY <1>2, <1>6, <1>7, Zenon DEF Carried
    <3>4. /\ Unsent(i) \in Nat /\ Unsent(i)' \in Nat
          /\ Carried(th[t], i) \in Nat /\ Carried(y, i) \in Nat
          /\ Unsent(i)' + Carried(th[t], i) = Unsent(i) + Carried(y, i)
      BY <1>0, <1>2, <1>6, <3>1, UnsentMoves, Zenon
    <3>5. Unsent(i)' = Unsent(i)
      BY <3>3, <3>4
    <3>6. table.map[i].count["lookups"] =
              krefs[table.map[i].record] + leaked[table.map[i].record] + Unsent(i)
      BY <1>1, Zenon DEF LookupsInv
    <3>7. QED
      BY <1>2, <1>3, <3>5, <3>6, Zenon
  <2>2. table'.map[a.ino].count["lookups"] =
            krefs'[table'.map[a.ino].record] + leaked'[table'.map[a.ino].record] + Unsent(a.ino)'
    <3>1. table'.map[a.ino].count["lookups"] = 0 /\ table'.map[a.ino].record = q
      BY <1>3 DEF NewSlot, Counts
    <3>2. q \in Records /\ q \notin DOMAIN born
      BY <1>0, <1>1, <1>2, RuntimeAssumption DEF Records
    <3>3. krefs[q] + leaked[q] = 0 /\ krefs[q] \in Nat /\ leaked[q] \in Nat
      BY <1>1, <3>2, Zenon DEF LookupsInv
    <3>4. Unsent(a.ino)' = 0
      BY <1>10, <1>11
    <3>5. QED
      BY <1>2, <3>1, <3>3, <3>4
  <2>3. \A i \in DOMAIN table'.map : table'.map[i].count["lookups"] =
            krefs'[table'.map[i].record] + leaked'[table'.map[i].record] + Unsent(i)'
    BY <1>3, <2>1, <2>2, Zenon
  <2>4. /\ \A u \in Threads : Carries(th'[u])
        /\ \A u \in Threads :
              /\ th'[u].got # NoRef => Lives(table', th'[u].got)
              /\ \A k \in DOMAIN th'[u].accepted : Lives(table', th'[u].accepted[k])
              /\ th'[u].pc = "retain" => \E m \in Names : names'[m] = th'[u].got.ino
    BY <1>0, <1>8, <1>9, Zenon
  <2>5. /\ Len(born') = q /\ q <= MaxRecords
        /\ \A r \in DOMAIN born : r \in DOMAIN born' /\ born'[r] = born[r]
    <3>1. born \in Seq(FreeEntry) /\ a \in FreeEntry /\ born' = Append(born, a)
      BY <1>1, <1>2, <1>3, Zenon
    <3>2. q = Len(born) + 1 /\ Len(born) < MaxRecords
      BY <1>0, <1>2, Zenon
    <3>3. QED
      BY <3>1, <3>2, RuntimeAssumption
  <2>6. /\ Len(born') <= MaxRecords
        /\ \A r \in Records : krefs'[r] + leaked'[r] # 0 =>
              r \in DOMAIN born' /\ Lives(table', [ino |-> born'[r].ino, record |-> r])
    <3> SUFFICES ASSUME NEW r \in Records, krefs'[r] + leaked'[r] # 0
                 PROVE  r \in DOMAIN born' /\ Lives(table', [ino |-> born'[r].ino, record |-> r])
      BY <2>5, Zenon
    <3>1. r \in DOMAIN born /\ Lives(table, [ino |-> born[r].ino, record |-> r])
      BY <1>1, <1>2, Zenon DEF LookupsInv
    <3>2. QED
      BY <1>9, <2>5, <3>1, Zenon
  <2>7. QED
    BY <2>3, <2>4, <2>6, Zenon DEF LookupsInv, Carries, Lives
<1>13. OpensInv'
  <2>1. \A i : Openers(h, i) = Openers(th, i)
    BY <1>1, <1>2, <1>6, Zenon DEF Openers, Opener
  <2>2. \A i \in DOMAIN table'.map : table'.map[i].count["opens"]
            = Cardinality(HandlesOn(open, hrec, i)) + Cardinality(Openers(h, i))
    <3>1. ASSUME NEW i \in DOMAIN table.map
          PROVE  table'.map[i].count["opens"]
                     = Cardinality(HandlesOn(open, hrec, i)) + Cardinality(Openers(h, i))
      BY <1>1, <1>3, <2>1, Zenon DEF OpensInv, OpensExact, HandlesOn, Openers, Opener
    <3>2. table'.map[a.ino].count["opens"] = 0
      BY <1>3 DEF NewSlot, Counts
    <3>3. table'.map[a.ino].count["opens"]
              = Cardinality(HandlesOn(open, hrec, a.ino)) + Cardinality(Openers(h, a.ino))
      BY <1>10, <3>2
    <3>4. QED
      BY <1>3, <3>1, <3>3, Zenon
  <2>3. OpensExact'
    <3>1. \A i \in DOMAIN table'.map :
              table'.map[i].count["opens"] =
                  Cardinality({f \in open' : hrec'[f].node = i})
                  + Cardinality({u \in Threads :
                        th'[u].id = i /\ th'[u].pc \in {"addhandle", "relnode", "relopen"}})
      <4>1. open' = open /\ hrec' = hrec
        BY <1>2, Zenon
      <4>2. \A i \in DOMAIN table'.map : table'.map[i].count["opens"]
                = Cardinality(HandlesOn(open', hrec', i)) + Cardinality(Openers(th', i))
        BY <1>0, <2>2, <4>1, Zenon
      <4>3. QED
        BY <4>2, Zenon DEF HandlesOn, Openers, Opener
    <3>2. QED
      BY <3>1, Zenon DEF OpensExact
  <2>4. /\ \A f \in open' : hrec'[f].node \in DOMAIN table'.map
        /\ \A u \in Threads, i \in Nat : Opener(th'[u], i) => i \in DOMAIN table'.map
    BY <1>0, <1>1, <1>2, <1>3, <1>8, Zenon DEF OpensInv
  <2>5. QED
    BY <2>3, <2>4, Zenon DEF OpensInv, Opener
<1>14. QED
  BY <1>12, <1>13, Zenon DEF KernelInv

\* At the start the kernel holds nothing.
LEMMA InitKernel == Init => KernelInv
<1> SUFFICES ASSUME Init PROVE KernelInv
  BY Zenon
<1>1. /\ \A u \in Threads : th[u] = IdleThread
      /\ \A u \in Threads : /\ th[u].got = NoRef /\ th[u].accepted = <<>> /\ th[u].pc = "idle"
                            /\ th[u].op = "none"
  BY DEF Init, IdleThread
<1>2. th \in [Threads -> Thread]
  BY IdleOK, Zenon DEF Init
<1>3. /\ DOMAIN table.map = {ROOT} /\ table.map[ROOT].record = 1
      /\ table.map[ROOT].count["lookups"] = 0 /\ table.map[ROOT].count["opens"] = 0
      /\ ROOT = 1
  BY Zenon DEF Init, NewTable, NewSlot, Counts, ROOT
<1>4. \A u \in Threads : Carries(th[u])
  BY <1>1, RuntimeAssumption DEF Carries
<1>5. Len(born) <= MaxRecords
  BY RuntimeAssumption DEF Init
<1>6. 1 \in Records /\ \A r \in Records : krefs[r] = 0 /\ leaked[r] = 0
  BY RuntimeAssumption DEF Init, Records
<1>7. Unsent(ROOT) = 0
  <2>1. {u \in Threads : th[u].got.ino = ROOT /\ th[u].pc # "retain"} = {}
    BY <1>1, <1>3 DEF NoRef
  <2>2. {p \in Threads \X (1..MaxPage) :
            p[2] \in DOMAIN th[p[1]].accepted /\ th[p[1]].accepted[p[2]].ino = ROOT} = {}
    BY <1>1
  <2>3. Unsent(ROOT) = Cardinality({}) + Cardinality({})
    BY <2>1, <2>2, Zenon DEF Unsent
  <2>4. QED
    BY <2>3, FS_EmptySet
<1>8. LookupsInv
  BY <1>1, <1>3, <1>4, <1>5, <1>6, <1>7 DEF LookupsInv
<1>9. OpensExact
  <2>1. {f \in open : hrec[f].node = ROOT} = {}
    BY DEF Init
  <2>2. {u \in Threads :
            th[u].id = ROOT /\ th[u].pc \in {"addhandle", "relnode", "relopen"}} = {}
    BY <1>1
  <2>3. Cardinality({f \in open : hrec[f].node = ROOT})
        + Cardinality({u \in Threads :
              th[u].id = ROOT /\ th[u].pc \in {"addhandle", "relnode", "relopen"}})
        = Cardinality({}) + Cardinality({})
    BY <2>1, <2>2, Zenon
  <2>4. Cardinality({}) + Cardinality({}) = 0
    BY FS_EmptySet
  <2>5. QED
    BY <1>3, <2>3, <2>4, Zenon DEF OpensExact
<1>10. OpensInv
  BY <1>1, <1>9, Zenon DEF OpensInv, Opener, Init
<1>11. QED
  BY <1>8, <1>10, Zenon DEF KernelInv

\* What a thread does on its own once it has a request.
LEMMA ContinueKernel ==
    ASSUME Inv, Inv', KernelInv, NEW t \in Threads, Continue(t)
    PROVE  KernelInv'
<1>1. CASE \/ EntryFails(t) \/ NodeCallback(t) \/ FetchHandle(t) \/ CheckOpens(t)
           \/ Released(t) \/ PlusEnd(t) \/ PlusReplyFails(t)
  BY <1>1, QuietStepKernel, Zenon
<1>2. CASE EntryGet(t) \/ ReleaseNode(t)
  BY <1>2, GetStepKernel, Zenon
<1>3. CASE EntryCount(t)
  BY <1>3, EntryCountKernel, Zenon
<1>4. CASE ForgetNotified(t) \/ ForgetSweep(t)
  BY <1>4, AfterForgetKernel, Zenon
<1>5. CASE CountOpen(t)
  BY <1>5, CountOpenKernel, Zenon
<1>6. CASE AddHandle(t)
  BY <1>6, AddHandleKernel, Zenon
<1>7. CASE Acquire(t) \/ ScanHandles(t) \/ EndUse(t) \/ CloseHandle(t) \/ TakeHandle(t)
  BY <1>7, HandleStepKernel, Zenon
<1>8. CASE Unlease(t)
  BY <1>8, UnleaseKernel, Zenon
<1>9. CASE Reply(t) \/ ReplyLost(t)
  BY <1>9, ReplyKernel, Zenon
<1>10. CASE ReleaseOpen(t)
  BY <1>10, ReleaseOpenKernel, Zenon
<1>11. CASE \E n \in Names : PlusEntry(t, n)
  BY <1>11, PlusEntryKernel, Zenon
<1>12. CASE PlusRetain(t)
  BY <1>12, PlusRetainKernel, Zenon
<1>13. CASE PlusPanics(t)
  BY <1>13, PlusPanicsKernel, Zenon
<1>14. CASE PlusRollback(t)
  BY <1>14, PlusRollbackKernel, Zenon
<1>15. CASE RollbackDone(t)
  BY <1>15, RollbackDoneKernel, Zenon
<1>16. QED
  BY <1>1, <1>2, <1>3, <1>4, <1>5, <1>6, <1>7, <1>8, <1>9, <1>10, <1>11, <1>12, <1>13,
     <1>14, <1>15 DEF Continue

\* The requests of the kernel.
LEMMA RequestKernel ==
    ASSUME Inv, Inv', KernelInv, NEW t \in Threads, Request(t)
    PROVE  KernelInv'
<1>1. 0 \in Nat /\ \A f \in DOMAIN hrec : f \in Nat
  BY DEF Inv, RestOK
<1>2. CASE \E n \in Names : Lookup(t, n)
  BY <1>2, LookupKernel, Zenon
<1>3. CASE \E n \in Names, o \in {"mknod", "create"} : MakeNode(t, o, n)
  BY <1>3, MakeNodeKernel, Zenon
<1>4. CASE \E i \in DOMAIN table.map, n \in Names : Link(t, i, n)
  BY <1>4, LinkKernel, Zenon
<1>5. CASE \E r \in DOMAIN born, k \in 1..MaxRefs : Forget(t, r, k)
  BY <1>5, ForgetKernel, Zenon
<1>6. ASSUME NEW o \in {"nodeop", "getattr", "open", "fileop", "readdir", "readdirplus"},
             NEW i, NEW f \in Nat, LeaseNode(t, o, i, f)
      PROVE  KernelInv'
  <2>1. o \in AllOps
    BY DEF AllOps
  <2>2. QED
    BY <1>6, <2>1, LeaseNodeKernel, Zenon
<1>7. CASE \E i \in DOMAIN table.map : NodeOp(t, i) \/ OpenNode(t, i)
  BY <1>1, <1>6, <1>7, Zenon DEF NodeOp, OpenNode
<1>8. CASE \E i \in DOMAIN table.map, f \in DOMAIN hrec : FileOp(t, i, f)
  BY <1>1, <1>6, <1>8, Zenon DEF FileOp
<1>9. CASE \E i \in DOMAIN table.map, f \in DOMAIN hrec \cup {0} : Getattr(t, i, f)
  BY <1>1, <1>6, <1>9, Zenon DEF Getattr
<1>10. CASE \E f \in DOMAIN hrec : Readdir(t, f) \/ Readdirplus(t, f)
  BY <1>1, <1>6, <1>10, Zenon DEF Readdir, Readdirplus
<1>11. CASE \E f \in DOMAIN hrec : Release(t, f)
  BY <1>11, ReleaseKernel, Zenon
<1>12. QED
  BY <1>2, <1>3, <1>4, <1>5, <1>7, <1>8, <1>9, <1>10, <1>11, Zenon DEF Request

\* Every step keeps the accounts.
LEMMA NextKernel == Inv /\ Inv' /\ KernelInv /\ [Next]_vars => KernelInv'
<1> SUFFICES ASSUME Inv, Inv', KernelInv, [Next]_vars PROVE KernelInv'
  OBVIOUS
<1>1. CASE \E t \in Threads : Request(t) \/ Continue(t)
  BY <1>1, RequestKernel, ContinueKernel, Zenon
<1>2. CASE (\E n \in Names : Unlink(n)) \/ (\E n, m \in Names : Rename(n, m))
  BY <1>2, NamesKernel, Zenon
<1>3. CASE UNCHANGED vars
  <2>1. PICK t \in Threads : TRUE
    BY RuntimeAssumption
  <2>2. Untouched /\ th' = th
    BY <1>3, TableUntouched, Zenon DEF vars
  <2>3. Quietly(t, th[t])
    BY <2>2, NothingQuiet, Zenon
  <2>4. QED
    BY <2>2, <2>3, QuietKernel, Zenon
<1>4. QED
  BY <1>1, <1>2, <1>3, Zenon DEF Next

\* In every execution the accounts of the kernel's references and handles are
\* kept: see LookupsInv and OpensInv.
THEOREM AccountsKept == Spec => []KernelInv
  BY InitKernel, NextKernel, InvHolds, PTL DEF Spec

\* The lookup count of a node is exactly the references the kernel holds on it,
\* those on their way to it, and those of entries it never saw; the open count
\* is exactly its handles; and a node the kernel knows is live: for any number
\* of threads, nodes and names, through forgets, roll backs, panics and lost
\* replies (Cx::retain_lookup, Runtime::forget, add_open, remove_open).
THEOREM KernelCounted == Spec => []KernelHoldsExact
<1>1. Inv /\ KernelInv => KernelHoldsExact
  <2> SUFFICES ASSUME Inv, KernelInv PROVE KernelHoldsExact
    OBVIOUS
  <2>1. LookupsInv /\ OpensExact /\ krefs \in [Records -> Nat] /\ leaked \in [Records -> Nat]
    BY Zenon DEF KernelInv, OpensInv, Inv, RestOK
  <2>2. ASSUME NEW r \in DOMAIN born, krefs[r] > 0
        PROVE  Contains(table, born[r].ino) /\ table.map[born[r].ino].record = r
    <3>1. r \in Records
      BY <2>1, BornRecords, Zenon
    <3>2. krefs[r] + leaked[r] # 0
      BY <2>1, <2>2, <3>1
    <3>3. QED
      <4>1. Lives(table, [ino |-> born[r].ino, record |-> r])
        BY <2>1, <3>1, <3>2, Zenon DEF LookupsInv
      <4>2. QED
        BY <4>1 DEF Lives, Contains
  <2>3. ASSUME NEW i \in DOMAIN table.map
        PROVE  table.map[i].count["lookups"] =
                   krefs[table.map[i].record] + Unsent(i) + leaked[table.map[i].record]
    <3>1. PICK k \in Nat, l \in Nat :
              krefs[table.map[i].record] = k /\ leaked[table.map[i].record] = l
      BY <2>1, GivenNat, Zenon
    <3>2. table.map[i].count["lookups"] = k + l + Unsent(i)
      BY <2>1, <3>1, Zenon DEF LookupsInv
    <3>3. Unsent(i) \in Nat
      BY <2>1, UnsentNat, Zenon
    <3> HIDE DEF Unsent
    <3>4. QED
      BY <3>1, <3>2, <3>3
  <2>4. QED
    BY <2>1, <2>2, <2>3, Zenon DEF KernelHoldsExact, LookupsExact
<1>2. QED
  BY <1>1, InvHolds, AccountsKept, PTL

\* Neither early return that could strand a handle is ever taken: release finds
\* the node of the handle it has removed, and create finds the node it has just
\* answered with when it counts the open (Runtime::release, Runtime::create).
THEOREM NothingStranded == Spec => []HandleNeverStranded
<1>1. Inv /\ KernelInv => HandleNeverStranded
  <2> SUFFICES ASSUME Inv, KernelInv, NEW t \in Threads
               PROVE  /\ th[t].pc = "relnode" => Contains(table, th[t].id)
                      /\ th[t].pc = "addopen" =>
                            /\ Contains(table, th[t].id)
                            /\ table.map[th[t].id].record = th[t].got.record
    BY DEF HandleNeverStranded
  <2>1. th[t] \in Thread /\ Carries(th[t]) /\ LookupsInv /\ OpensInv
    BY Zenon DEF Inv, ThreadsOK, KernelInv, LookupsInv
  <2>2. th[t].pc = "relnode" => Contains(table, th[t].id)
    BY <2>1 DEF OpensInv, Opener, Thread, Contains
  <2>3. th[t].pc = "addopen" => th[t].got # NoRef /\ th[t].got.ino = th[t].id
    BY <2>1, Zenon DEF Carries
  <2>4. th[t].got # NoRef => Lives(table, th[t].got)
    BY <2>1, AllLive
  <2>5. QED
    BY <2>2, <2>3, <2>4, Zenon DEF Lives, Contains
<1>2. QED
  BY <1>1, InvHolds, AccountsKept, PTL

==============================================================================
