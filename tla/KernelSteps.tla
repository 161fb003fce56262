----------------------------- MODULE KernelSteps -----------------------------
(***************************************************************************)
(* What the kernel is owed. A node counts one lookup for every reference the *)
(* kernel holds, for every reply that was lost, and for every entry a request *)
(* has counted and not sent (LookupsInv); it counts one open for every handle *)
(* of the registry and for every open that is not answered yet (OpensInv). In *)
(* between, where a request stands tells what it has counted (Carries). Here *)
(* are the sums this needs, and the steps that count nothing or one node.   *)
(***************************************************************************)
EXTENDS RuntimeProofs

\* An entry leads to the very node it was made for.
Lives(t, g) == g.ino \in DOMAIN t.map /\ t.map[g.ino].record = g.record

\* What a request may have counted, by where it stands.
Carries(x) ==
    /\ Len(x.accepted) <= MaxPage
    /\ x.pc = "retain" => Len(x.accepted) < MaxPage /\ x.got # NoRef
    /\ \A k \in DOMAIN x.accepted : x.accepted[k].record # 0
    /\ x.got = NoRef \/ (x.got.ino # 0 /\ x.got.record # 0)
    /\ x.got # NoRef => x.pc \in {"unlease", "addopen", "addhandle", "reply", "retain"}
    /\ x.got # NoRef /\ x.pc # "retain" => x.got.ino = x.id /\ x.op # "readdirplus"
    /\ x.pc = "addopen" => x.got # NoRef
    /\ x.pc \in {"entry", "attr"} => x.op # "readdirplus"
    /\ x.accepted # <<>> =>
          /\ x.op = "readdirplus"
          /\ x.pc \in {"listing", "retain", "using", "unlease", "reply", "rollback",
                       "forgotten", "sweep"}

\* The lookups are those of the kernel, those on their way to it, and those of
\* entries it never saw; all of them are of live nodes.
LookupsInv ==
    /\ \A u \in Threads : Carries(th[u])
    /\ Len(born) <= MaxRecords
    /\ \A r \in Records : krefs[r] + leaked[r] # 0 =>
          r \in DOMAIN born /\ Lives(table, [ino |-> born[r].ino, record |-> r])
    /\ \A u \in Threads :
          /\ th[u].got # NoRef => Lives(table, th[u].got)
          /\ \A k \in DOMAIN th[u].accepted : Lives(table, th[u].accepted[k])
          /\ th[u].pc = "retain" => \E n \in Names : names[n] = th[u].got.ino
    /\ \A i \in DOMAIN table.map :
          table.map[i].count["lookups"] =
              krefs[table.map[i].record] + leaked[table.map[i].record] + Unsent(i)

\* The handle of a request that has counted an open and not yet a handle, or
\* that has taken a handle and not yet given back its open.
Opener(x, i) == x.id = i /\ x.pc \in {"addhandle", "relnode", "relopen"}

\* The opens are the handles of live nodes, in the table or in hand.
OpensInv ==
    /\ \A f \in open : hrec[f].node \in DOMAIN table.map
    /\ \A u \in Threads, i \in Nat : Opener(th[u], i) => i \in DOMAIN table.map
    /\ OpensExact

------------------------------------------------------------------------------
(* What the table operations do to one of the counts.                        *)

\* t2 has count c as t has it: a slot stays with its record and its count, or
\* had none and goes.
Same(t, t2, c) ==
    /\ \A i \in DOMAIN t2.map :
          /\ i \in DOMAIN t.map
          /\ t2.map[i].record = t.map[i].record
          /\ t2.map[i].count[c] = t.map[i].count[c]
    /\ \A i \in DOMAIN t.map : i \in DOMAIN t2.map \/ t.map[i].count[c] = 0

\* The same with count c of slot e changed by d.
Shift(t, t2, c, e, d) ==
    /\ \A i \in DOMAIN t2.map :
          /\ i \in DOMAIN t.map
          /\ t2.map[i].record = t.map[i].record
          /\ t2.map[i].count[c] = IF i = e THEN t.map[i].count[c] + d ELSE t.map[i].count[c]
    /\ \A i \in DOMAIN t.map :
          \/ i \in DOMAIN t2.map
          \/ (IF i = e THEN t.map[i].count[c] + d ELSE t.map[i].count[c]) = 0

\* A step that leaves the table alone.
LEMMA SameTable == ASSUME NEW t, NEW c PROVE Same(t, t, c)
  BY DEF Same

\* Changing another count leaves this one alone.
LEMMA RecountedSame ==
    ASSUME NEW t, NEW t2, NEW e \in DOMAIN t.map, Recounted(t, t2, e), NEW c,
           t2.map[e].count[c] = t.map[e].count[c]
    PROVE  Same(t, t2, c)
  BY DEF Same, Recounted

\* Changing this one shifts it.
LEMMA RecountedShift ==
    ASSUME NEW t, NEW t2, NEW e \in DOMAIN t.map, Recounted(t, t2, e), NEW c, NEW d \in Int,
           t2.map[e].count[c] = t.map[e].count[c] + d
    PROVE  Shift(t, t2, c, e, d)
  BY DEF Shift, Recounted

\* Two operations, the second of which leaves the count alone.
LEMMA SameTwice ==
    ASSUME NEW t, NEW t1, NEW t2, NEW c, Same(t, t1, c), Same(t1, t2, c)
    PROVE  Same(t, t2, c)
  BY DEF Same

\* A count that changes and then stays has changed.
LEMMA ShiftThenSame ==
    ASSUME NEW t, NEW t1, NEW t2, NEW c, NEW e, NEW d, Shift(t, t1, c, e, d), Same(t1, t2, c)
    PROVE  Shift(t, t2, c, e, d)
<1>1. \A i \in DOMAIN t2.map :
          /\ i \in DOMAIN t1.map /\ i \in DOMAIN t.map
          /\ t2.map[i].record = t.map[i].record
          /\ t2.map[i].count[c] = IF i = e THEN t.map[i].count[c] + d ELSE t.map[i].count[c]
  BY DEF Same, Shift
<1>2. ASSUME NEW i \in DOMAIN t.map, i \notin DOMAIN t2.map
      PROVE  (IF i = e THEN t.map[i].count[c] + d ELSE t.map[i].count[c]) = 0
  <2>1. CASE i \in DOMAIN t1.map
    BY <1>2, <2>1 DEF Same, Shift
  <2>2. CASE i \notin DOMAIN t1.map
    BY <2>2 DEF Shift
  <2>3. QED
    BY <2>1, <2>2
<1>3. QED
  BY <1>1, <1>2 DEF Shift

\* maybe_drop takes a slot only when all counts are zero.
LEMMA MaybeDropSame ==
    ASSUME NEW t, NEW b, NEW e, Typed(t), Accounted(t, b), NEW c \in Counts
    PROVE  Same(t, MaybeDrop(t, e), c)
<1>1. \A i \in DOMAIN MaybeDrop(t, e).map :
          i \in DOMAIN t.map /\ MaybeDrop(t, e).map[i] = t.map[i]
  BY DEF MaybeDrop, Contains
<1>2. \A i \in DOMAIN t.map : i \in DOMAIN MaybeDrop(t, e).map \/ (i = e /\ Droppable(t.map[e]))
  BY MaybeDropAccounted, Zenon
<1>3. Droppable(t.map[e]) => t.map[e].count[c] = 0
  BY DEF Droppable
<1>4. QED
  BY <1>1, <1>2, <1>3 DEF Same

\* Cx::get, add_link, retain_lookup and add_open.
LEMMA IncShifts ==
    ASSUME NEW t, Typed(t), NEW e \in DOMAIN t.map, NEW c \in Counts
    PROVE  /\ Shift(t, Inc(t, e, c), c, e, 1)
           /\ \A d \in Counts : d # c => Same(t, Inc(t, e, c), d)
<1>1. /\ Recounted(t, Inc(t, e, c), e)
      /\ Inc(t, e, c).map[e].count[c] = t.map[e].count[c] + 1
      /\ \A d \in Counts : d # c => Inc(t, e, c).map[e].count[d] = t.map[e].count[d]
  BY IncCounts
<1>2. QED
  BY <1>1, RecountedSame, RecountedShift

\* A count goes down by no more than it is.
LEMMA DecShifts ==
    ASSUME NEW t, NEW b, Typed(t), Accounted(t, b), NEW e \in DOMAIN t.map, NEW c \in Counts,
           NEW n \in Nat
    PROVE  /\ Typed(Dec(t, e, c, n)) /\ Accounted(Dec(t, e, c, n), b)
           /\ e \in DOMAIN Dec(t, e, c, n).map
           /\ n <= t.map[e].count[c] => Shift(t, Dec(t, e, c, n), c, e, -n)
           /\ \A d \in Counts : d # c => Same(t, Dec(t, e, c, n), d)
<1> DEFINE t1 == Dec(t, e, c, n)
<1>1. /\ Typed(t1) /\ Recounted(t, t1, e)
      /\ t1.map[e].count[c] = IF t.map[e].count[c] > n THEN t.map[e].count[c] - n ELSE 0
      /\ \A d \in Counts : d # c => t1.map[e].count[d] = t.map[e].count[d]
  BY DecCounts
<1>2. t.map[e].count[c] \in Nat
  BY DEF Typed, Slot
<1> HIDE DEF t1
<1>3. Accounted(t1, b) /\ e \in DOMAIN t1.map
  BY <1>1, RecountedAccounted DEF Recounted
<1>4. ASSUME n <= t.map[e].count[c] PROVE Shift(t, t1, c, e, -n)
  <2>1. t1.map[e].count[c] = t.map[e].count[c] + (-n) /\ -n \in Int
    BY <1>1, <1>2, <1>4
  <2>2. QED
    BY <1>1, <2>1, RecountedShift
<1>5. \A d \in Counts : d # c => Same(t, t1, d)
  BY <1>1, RecountedSame
<1>6. QED
  BY <1>1, <1>3, <1>4, <1>5 DEF t1

\* A count goes down and the slot is examined: Drop for NodeRef, remove_link
\* and remove_open.
LEMMA DecDropShifts ==
    ASSUME NEW t, NEW b, Typed(t), Accounted(t, b), NEW e \in DOMAIN t.map, NEW c \in Counts
    PROVE  /\ 1 <= t.map[e].count[c] => Shift(t, MaybeDrop(Dec(t, e, c, 1), e), c, e, -1)
           /\ \A d \in Counts : d # c => Same(t, MaybeDrop(Dec(t, e, c, 1), e), d)
<1> DEFINE t1 == Dec(t, e, c, 1)
<1>1. /\ Typed(t1) /\ Accounted(t1, b)
      /\ 1 <= t.map[e].count[c] => Shift(t, t1, c, e, -1)
      /\ \A d \in Counts : d # c => Same(t, t1, d)
  BY DecShifts
<1> HIDE DEF t1
<1>2. \A d \in Counts : Same(t1, MaybeDrop(t1, e), d)
  BY <1>1, MaybeDropSame
<1>3. 1 <= t.map[e].count[c] => Shift(t, MaybeDrop(t1, e), c, e, -1)
  BY <1>1, <1>2, ShiftThenSame
<1>4. \A d \in Counts : d # c => Same(t, MaybeDrop(t1, e), d)
  BY <1>1, <1>2, SameTwice
<1>5. QED
  BY <1>3, <1>4 DEF t1

\* Drop for NodeRef changes only the leases.
LEMMA DropRefSame ==
    ASSUME NEW t, NEW b, Typed(t), Accounted(t, b), NEW e, NEW r, NEW c \in Counts, c # "leases"
    PROVE  Same(t, DropRef(t, e, r), c)
<1>1. CASE Contains(t, e) /\ t.map[e].record = r
  BY <1>1, DecDropShifts DEF DropRef, Contains, Counts
<1>2. CASE ~(Contains(t, e) /\ t.map[e].record = r)
  BY <1>2, MaybeDropSame DEF DropRef
<1>3. QED
  BY <1>1, <1>2

\* The first critical section of forget takes lookups, and perhaps a lease.
LEMMA ForgetShifts ==
    ASSUME NEW t, NEW b, Typed(t), Accounted(t, b), NEW e \in DOMAIN t.map, NEW n \in Nat
    PROVE  /\ n <= t.map[e].count["lookups"] =>
                 Shift(t, ForgetLookups(t, e, n), "lookups", e, -n)
           /\ Same(t, ForgetLookups(t, e, n), "opens")
<1> DEFINE t1 == Dec(t, e, "lookups", n)
<1>1. /\ Typed(t1) /\ e \in DOMAIN t1.map
      /\ n <= t.map[e].count["lookups"] => Shift(t, t1, "lookups", e, -n)
      /\ Same(t, t1, "opens")
  BY DecShifts DEF Counts
<1>2. ForgetLookups(t, e, n) = t1 \/ ForgetLookups(t, e, n) = Get(t1, e)
  BY DEF ForgetLookups
<1> HIDE DEF t1
<1>3. Same(t1, Get(t1, e), "lookups") /\ Same(t1, Get(t1, e), "opens")
  BY <1>1, IncShifts DEF Get, Counts
<1>4. QED
  BY <1>1, <1>2, <1>3, SameTwice, ShiftThenSame

------------------------------------------------------------------------------
(* What a step of one thread does to the entries on their way.               *)

\* The entries for number i in a listing.
Ents(a, i) == Cardinality({k \in DOMAIN a : a[k].ino = i})

\* The entries for number i that a request has counted.
Carried(x, i) == Ents(x.accepted, i) + (IF x.got.ino = i /\ x.pc # "retain" THEN 1 ELSE 0)

\* Two sets of threads that differ in one thread at most.
LEMMA OneThread ==
    ASSUME NEW S \in SUBSET Threads, NEW S2 \in SUBSET Threads, NEW t \in Threads,
           S \ {t} = S2 \ {t}
    PROVE  /\ Cardinality(S) \in Nat /\ Cardinality(S2) \in Nat
           /\ Cardinality(S2) + (IF t \in S THEN 1 ELSE 0)
                  = Cardinality(S) + (IF t \in S2 THEN 1 ELSE 0)
<1>1. ASSUME NEW T \in SUBSET Threads
      PROVE  /\ Cardinality(T) \in Nat /\ Cardinality(T \ {t}) \in Nat
             /\ Cardinality(T) = Cardinality(T \ {t}) + (IF t \in T THEN 1 ELSE 0)
  <2>1. IsFiniteSet(T) /\ IsFiniteSet(T \ {t})
    BY RuntimeAssumption, FS_Subset
  <2>2. Cardinality(T) \in Nat /\ Cardinality(T \ {t}) \in Nat
    BY <2>1, FS_CardinalityType
  <2>3. CASE t \in T
    BY <2>1, <2>2, <2>3, FS_RemoveElement
  <2>4. CASE t \notin T
    <3>1. Cardinality(T \ {t}) = Cardinality(T)
      BY <2>1, <2>4, FS_RemoveElement
    <3>2. QED
      BY <2>2, <2>4, <3>1
  <2>5. QED
    BY <2>2, <2>3, <2>4
<1>2. /\ Cardinality(S) \in Nat /\ Cardinality(S \ {t}) \in Nat
      /\ Cardinality(S) = Cardinality(S \ {t}) + (IF t \in S THEN 1 ELSE 0)
  BY <1>1
<1>3. /\ Cardinality(S2) \in Nat
      /\ Cardinality(S2) = Cardinality(S2 \ {t}) + (IF t \in S2 THEN 1 ELSE 0)
  BY <1>1
<1>4. Cardinality(S2 \ {t}) = Cardinality(S \ {t})
  BY Zenon
<1>5. QED
  BY <1>2, <1>3, <1>4

\* The places of a listing are finitely many.
LEMMA EntsNat ==
    ASSUME NEW a \in Seq(Ref), NEW i
    PROVE  /\ IsFiniteSet({k \in DOMAIN a : a[k].ino = i}) /\ Ents(a, i) \in Nat
           /\ \A k \in DOMAIN a : a[k].ino = i => Ents(a, i) # 0
<1> DEFINE K == {k \in DOMAIN a : a[k].ino = i}
<1>1. DOMAIN a = 1..Len(a) /\ Len(a) \in Nat
  OBVIOUS
<1>2. IsFiniteSet(1..Len(a))
  BY <1>1, FS_Interval
<1>3. IsFiniteSet(K)
  BY <1>1, <1>2, FS_Subset
<1>4. Cardinality(K) \in Nat /\ (Cardinality(K) = 0 <=> K = {})
  BY <1>3, FS_CardinalityType, FS_EmptySet
<1>5. QED
  BY <1>3, <1>4, Zenon DEF Ents

\* An empty listing has no entry.
LEMMA EntsEmpty == ASSUME NEW i PROVE Ents(<<>>, i) = 0
<1>1. {k \in DOMAIN << >> : << >>[k].ino = i} = {}
  OBVIOUS
<1>2. QED
  BY <1>1, FS_EmptySet DEF Ents

\* Accounting::add accepts one entry more.
LEMMA EntsAppend ==
    ASSUME NEW a \in Seq(Ref), NEW g \in Ref, NEW i
    PROVE  Ents(Append(a, g), i) = Ents(a, i) + (IF g.ino = i THEN 1 ELSE 0)
<1> DEFINE b == Append(a, g)
           K == {k \in DOMAIN a : a[k].ino = i}
           L == {k \in DOMAIN b : b[k].ino = i}
<1>1. /\ Len(a) \in Nat /\ DOMAIN a = 1..Len(a) /\ DOMAIN b = 1..(Len(a) + 1)
      /\ b[Len(a) + 1] = g /\ \A k \in 1..Len(a) : b[k] = a[k]
  OBVIOUS
<1>2. IsFiniteSet(K) /\ Cardinality(K) \in Nat
  BY EntsNat, Zenon DEF Ents
<1>a. Ents(a, i) = Cardinality(K) /\ Ents(b, i) = Cardinality(L)
  BY DEF Ents
<1>3. PICK n : n = Len(a) + 1 /\ n \notin K
  BY <1>1
<1> HIDE DEF b
<1>4. CASE g.ino = i
  <2>1. L = K \cup {n}
    BY <1>1, <1>3, <1>4
  <2> HIDE DEF K, L
  <2>2. Cardinality(K \cup {n}) = Cardinality(K) + 1
    BY <1>2, <1>3, FS_AddElement, Zenon
  <2>3. QED
    BY <1>2, <1>a, <1>4, <2>1, <2>2 DEF b
<1>5. CASE g.ino # i
  <2>1. L = K
    BY <1>1, <1>3, <1>5
  <2> HIDE DEF K, L
  <2>2. QED
    BY <1>2, <1>a, <1>5, <2>1 DEF b
<1>6. QED
  BY <1>4, <1>5

\* A roll back takes the first entry.
LEMMA EntsTail ==
    ASSUME NEW a \in Seq(Ref), a # <<>>, NEW i
    PROVE  Ents(a, i) = Ents(Tail(a), i) + (IF Head(a).ino = i THEN 1 ELSE 0)
<1> DEFINE b == Tail(a)
           K == {k \in DOMAIN a : a[k].ino = i}
           L == {k \in DOMAIN b : b[k].ino = i}
           f == [k \in L |-> k + 1]
<1>1. /\ Len(a) \in Nat \ {0} /\ DOMAIN a = 1..Len(a) /\ DOMAIN b = 1..(Len(a) - 1)
      /\ b \in Seq(Ref) /\ \A k \in 1..(Len(a) - 1) : b[k] = a[k + 1]
      /\ Head(a) = a[1]
  OBVIOUS
<1>2. IsFiniteSet(K) /\ IsFiniteSet(L) /\ Cardinality(K) \in Nat /\ Cardinality(L) \in Nat
  BY <1>1, EntsNat, Zenon DEF Ents
<1>a. Ents(a, i) = Cardinality(K) /\ Ents(b, i) = Cardinality(L)
  BY DEF Ents
<1> HIDE DEF b
<1>3. Cardinality(K \ {1}) = Cardinality(L)
  <2>1. \A k \in L : k \in Nat /\ k + 1 \in K \ {1}
    BY <1>1
  <2>2. \A m \in K \ {1} : m - 1 \in L /\ m = (m - 1) + 1
    BY <1>1
  <2> HIDE DEF K, L
  <2>3. f \in [L -> K \ {1}] /\ \A m \in K \ {1} : \E k \in L : f[k] = m
    BY <2>1, <2>2
  <2>4. \A j, k \in L : f[j] = f[k] => j = k
    BY <2>1
  <2> HIDE DEF f
  <2>5. f \in Bijection(L, K \ {1})
    BY <2>3, <2>4, Zenon DEF Bijection, Injection, Surjection, IsInjective
  <2>6. QED
    BY <1>2, <2>5, FS_Bijection, Zenon DEF ExistsBijection
<1>4. CASE a[1].ino = i
  <2>1. 1 \in K
    BY <1>1, <1>4
  <2> HIDE DEF K, L
  <2>2. Cardinality(K \ {1}) = Cardinality(K) - 1
    BY <1>2, <2>1, FS_RemoveElement, Zenon
  <2>3. QED
    BY <1>1, <1>2, <1>a, <1>3, <1>4, <2>2 DEF b
<1>5. CASE a[1].ino # i
  <2>1. 1 \notin K
    BY <1>5
  <2> HIDE DEF K, L
  <2>2. Cardinality(K \ {1}) = Cardinality(K)
    BY <1>2, <2>1, FS_RemoveElement, Zenon
  <2>3. QED
    BY <1>1, <1>2, <1>a, <1>3, <1>5, <2>2 DEF b
<1>6. QED
  BY <1>4, <1>5

\* The places of the entries for number i in all listings being answered, and
\* those of thread t among them.
Places(h, i) ==
    {p \in Threads \X (1..MaxPage) :
        p[2] \in DOMAIN h[p[1]].accepted /\ h[p[1]].accepted[p[2]].ino = i}

\* The requests that have counted a lookup of i for the entry they answer.
Answers(h, i) == {t \in Threads : h[t].got.ino = i /\ h[t].pc # "retain"}

\* The places of i in the page that thread t fills.
PlacesOf(t, a, i) ==
    {p \in Threads \X (1..MaxPage) : p[1] = t /\ p[2] \in DOMAIN a /\ a[p[2]].ino = i}

\* The places of one listing are counted by Ents.
LEMMA PlacesCounted ==
    ASSUME NEW t \in Threads, NEW a \in Seq(Ref), Len(a) <= MaxPage, NEW i
    PROVE  IsFiniteSet(PlacesOf(t, a, i)) /\ Cardinality(PlacesOf(t, a, i)) = Ents(a, i)
<1> DEFINE K == {k \in DOMAIN a : a[k].ino = i}
           R == PlacesOf(t, a, i)
           f == [k \in K |-> <<t, k>>]
<1>1. DOMAIN a \subseteq 1..MaxPage
  BY RuntimeAssumption
<1>2. IsFiniteSet(K) /\ Ents(a, i) = Cardinality(K)
  BY EntsNat, Zenon DEF Ents
<1>3. \A k \in K : <<t, k>> \in R
  BY <1>1 DEF PlacesOf
<1>4. \A p \in R : p[2] \in K /\ p = <<t, p[2]>>
  BY DEF PlacesOf
<1> HIDE DEF K, R
<1>5. f \in [K -> R] /\ \A p \in R : \E k \in K : f[k] = p
  BY <1>3, <1>4
<1>6. \A j, k \in K : f[j] = f[k] => j = k
  OBVIOUS
<1> HIDE DEF f
<1>7. f \in Bijection(K, R)
  BY <1>5, <1>6, Zenon DEF Bijection, Injection, Surjection, IsInjective
<1>8. IsFiniteSet(R) /\ Cardinality(R) = Cardinality(K)
  BY <1>2, <1>7, FS_Bijection, Zenon DEF ExistsBijection
<1>9. QED
  BY <1>2, <1>8 DEF R

\* Places are counted listing by listing.
LEMMA PlacesSplit ==
    ASSUME NEW P \in SUBSET (Threads \X (1..MaxPage)), NEW t \in Threads
    PROVE  LET own == {p \in P : p[1] = t}
               others == {p \in P : p[1] # t}
           IN  /\ Cardinality(P) = Cardinality(others) + Cardinality(own)
               /\ Cardinality(P) \in Nat /\ Cardinality(others) \in Nat
               /\ Cardinality(own) \in Nat
<1> DEFINE own == {p \in P : p[1] = t}
           others == {p \in P : p[1] # t}
<1>1. IsFiniteSet(1..MaxPage)
  BY RuntimeAssumption, FS_Interval
<1>2. IsFiniteSet(Threads \X (1..MaxPage))
  BY <1>1, RuntimeAssumption, FS_Product
<1>3. IsFiniteSet(P)
  BY <1>2, FS_Subset
<1>4. IsFiniteSet(own) /\ IsFiniteSet(others)
  <2>1. own \subseteq P /\ others \subseteq P
    OBVIOUS
  <2>2. QED
    BY <1>3, <2>1, FS_Subset, Zenon
<1>5. own \cap others = {} /\ others \cup own = P
  OBVIOUS
<1> HIDE DEF own, others
<1>6. Cardinality(others \cup own) = Cardinality(others) + Cardinality(own)
                                     - Cardinality(others \cap own)
  BY <1>4, FS_Union
<1>7. Cardinality(others \cap own) = 0
  <2>1. others \cap own = {}
    BY <1>5
  <2>2. QED
    BY <2>1, FS_EmptySet
<1>8. Cardinality(P) \in Nat /\ Cardinality(own) \in Nat /\ Cardinality(others) \in Nat
  BY <1>3, <1>4, FS_CardinalityType
<1>9. Cardinality(P) = Cardinality(others \cup own)
  BY <1>5, Zenon
<1>10. QED
  BY <1>6, <1>7, <1>8, <1>9 DEF own, others

\* h: what the threads are serving. Their listings are within the bound.
Listings(h) == h \in [Threads -> Thread] /\ \A u \in Threads : Len(h[u].accepted) <= MaxPage

\* The entries for number i on their way are those of one thread and those of
\* the others.
LEMMA UnsentSplit ==
    ASSUME NEW h, Listings(h), NEW t \in Threads, NEW i
    PROVE  LET others == {p \in Places(h, i) : p[1] # t}
           IN  /\ Cardinality(Places(h, i)) = Cardinality(others) + Ents(h[t].accepted, i)
               /\ Cardinality(Answers(h, i)) \in Nat /\ Cardinality(others) \in Nat
               /\ Ents(h[t].accepted, i) \in Nat
<1> DEFINE own == {p \in Places(h, i) : p[1] = t}
           others == {p \in Places(h, i) : p[1] # t}
<1>1. h[t].accepted \in Seq(Ref) /\ Len(h[t].accepted) <= MaxPage
  BY DEF Listings, Thread
<1>2. Places(h, i) \in SUBSET (Threads \X (1..MaxPage))
  BY DEF Places
<1>3. /\ Cardinality(Places(h, i)) = Cardinality(others) + Cardinality(own)
      /\ Cardinality(others) \in Nat
  BY <1>2, PlacesSplit
<1>4. own = PlacesOf(t, h[t].accepted, i)
  BY DEF Places, PlacesOf
<1>5. Cardinality(own) = Ents(h[t].accepted, i)
  BY <1>1, <1>4, PlacesCounted, Zenon
<1>6. Ents(h[t].accepted, i) \in Nat
  BY <1>1, EntsNat, Zenon
<1>7. IsFiniteSet(Answers(h, i))
  BY RuntimeAssumption, FS_Subset DEF Answers
<1>8. Cardinality(Answers(h, i)) \in Nat
  BY <1>7, FS_CardinalityType
<1> HIDE DEF own, others
<1>9. QED
  BY <1>3, <1>5, <1>6, <1>8 DEF others

\* A step of one thread changes them by what it carries before and after.
LEMMA UnsentMoves ==
    ASSUME Listings(th), NEW t \in Threads, NEW y \in Thread, Len(y.accepted) <= MaxPage,
           th' = [th EXCEPT ![t] = y], NEW i
    PROVE  /\ Unsent(i) \in Nat /\ Unsent(i)' \in Nat
           /\ Carried(th[t], i) \in Nat /\ Carried(y, i) \in Nat
           /\ Unsent(i)' + Carried(th[t], i) = Unsent(i) + Carried(y, i)
<1>0. PICK h : h = th'
  OBVIOUS
<1> DEFINE others == {p \in Places(th, i) : p[1] # t}
           others2 == {p \in Places(h, i) : p[1] # t}
           S == Answers(th, i)
           S2 == Answers(h, i)
           has(x) == IF x.got.ino = i /\ x.pc # "retain" THEN 1 ELSE 0
<1>1. Listings(h) /\ h[t] = y /\ \A u \in Threads : u # t => h[u] = th[u]
  BY <1>0 DEF Listings
<1>2. /\ Cardinality(Places(th, i)) = Cardinality(others) + Ents(th[t].accepted, i)
      /\ Cardinality(S) \in Nat /\ Cardinality(others) \in Nat /\ Ents(th[t].accepted, i) \in Nat
  BY UnsentSplit
<1>3. /\ Cardinality(Places(h, i)) = Cardinality(others2) + Ents(y.accepted, i)
      /\ Cardinality(S2) \in Nat /\ Cardinality(others2) \in Nat /\ Ents(y.accepted, i) \in Nat
  BY <1>1, UnsentSplit
<1>4. Cardinality(others2) = Cardinality(others)
  <2>1. others2 = others
    BY <1>1 DEF Places
  <2>2. QED
    BY <2>1, Zenon
<1>5. Cardinality(S2) + has(th[t]) = Cardinality(S) + has(y)
  <2>1. S \in SUBSET Threads /\ S2 \in SUBSET Threads /\ S \ {t} = S2 \ {t}
    BY <1>1 DEF Answers
  <2>2. has(th[t]) = (IF t \in S THEN 1 ELSE 0) /\ has(y) = (IF t \in S2 THEN 1 ELSE 0)
    BY <1>1 DEF Answers
  <2> HIDE DEF S, S2, has
  <2>3. QED
    BY <2>1, <2>2, OneThread
<1>6. Unsent(i) = Cardinality(S) + Cardinality(Places(th, i))
  BY DEF Unsent, Answers, Places
<1>7. Unsent(i)' = Cardinality(S2) + Cardinality(Places(h, i))
  BY <1>0 DEF Unsent, Answers, Places
<1>8. Carried(th[t], i) = Ents(th[t].accepted, i) + has(th[t])
  BY DEF Carried
<1>9. Carried(y, i) = Ents(y.accepted, i) + has(y)
  BY DEF Carried
<1>10. has(y) \in Nat /\ has(th[t]) \in Nat
  OBVIOUS
<1> HIDE DEF S, S2, has, others, others2
<1>11. Unsent(i) \in Nat /\ Unsent(i)' \in Nat
  BY <1>2, <1>3, <1>6, <1>7
<1>12. Carried(th[t], i) \in Nat /\ Carried(y, i) \in Nat
  BY <1>2, <1>3, <1>8, <1>9, <1>10
<1>13. PICK a \in Nat, b \in Nat, c \in Nat, d \in Nat, e \in Nat, f \in Nat, g \in Nat :
           /\ Cardinality(S) = a /\ Cardinality(S2) = b /\ Cardinality(others) = c
           /\ Ents(th[t].accepted, i) = d /\ Ents(y.accepted, i) = e
           /\ has(th[t]) = f /\ has(y) = g
  BY <1>2, <1>3, <1>10, Zenon
<1>14. Unsent(i) = a + (c + d)
  BY <1>2, <1>6, <1>13, Zenon
<1>15. Unsent(i)' = b + (c + e)
  BY <1>3, <1>4, <1>7, <1>13, Zenon
<1>16. Carried(th[t], i) = d + f /\ Carried(y, i) = e + g /\ b + f = a + g
  BY <1>5, <1>8, <1>9, <1>13, Zenon
<1>17. (b + (c + e)) + (d + f) = (a + (c + d)) + (e + g)
  <2>1. b + f = a + g
    BY <1>16
  <2>2. QED
    BY <2>1
<1>18. QED
  BY <1>11, <1>12, <1>14, <1>15, <1>16, <1>17, Zenon

\* What a request carries is on its way.
LEMMA UnsentCovers ==
    ASSUME NEW h, Listings(h), NEW t \in Threads, NEW i,
           \/ \E k \in DOMAIN h[t].accepted : h[t].accepted[k].ino = i
           \/ h[t].got.ino = i /\ h[t].pc # "retain"
    PROVE  Cardinality(Answers(h, i)) + Cardinality(Places(h, i)) \in Nat \ {0}
<1> DEFINE others == {p \in Places(h, i) : p[1] # t}
<1>1. /\ Cardinality(Places(h, i)) = Cardinality(others) + Ents(h[t].accepted, i)
      /\ Cardinality(Answers(h, i)) \in Nat /\ Cardinality(others) \in Nat
      /\ Ents(h[t].accepted, i) \in Nat
  BY UnsentSplit
<1>2. CASE \E k \in DOMAIN h[t].accepted : h[t].accepted[k].ino = i
  <2>1. h[t].accepted \in Seq(Ref)
    BY DEF Listings, Thread
  <2>2. Ents(h[t].accepted, i) # 0
    BY <1>2, <2>1, EntsNat, Zenon
  <2> HIDE DEF others
  <2>3. QED
    BY <1>1, <2>2
<1>3. CASE h[t].got.ino = i /\ h[t].pc # "retain"
  <2>1. t \in Answers(h, i)
    BY <1>3 DEF Answers
  <2>2. IsFiniteSet(Answers(h, i))
    BY RuntimeAssumption, FS_Subset DEF Answers
  <2>3. Cardinality(Answers(h, i)) # 0
    BY <2>1, <2>2, FS_EmptySet
  <2> HIDE DEF others
  <2>4. QED
    BY <1>1, <2>3
<1>4. QED
  BY <1>2, <1>3

------------------------------------------------------------------------------
(* The lookups: the steps in general.                                        *)

\* A live number has a record within the bound, and counts.
LEMMA LiveRecord ==
    ASSUME Inv, Len(born) <= MaxRecords, NEW i \in DOMAIN table.map
    PROVE  /\ table.map[i].record \in Records /\ table.map[i].record \in DOMAIN born
           /\ born[table.map[i].record].ino = i
           /\ \A c \in Counts : table.map[i].count[c] \in Nat
<1>1. Typed(table) /\ Accounted(table, born)
  BY DEF Inv, Sound
<1>2. /\ table.map[i].record \in 1..Len(born) /\ born \in Seq(FreeEntry)
      /\ born[table.map[i].record] = [ino |-> i, generation |-> table.map[i].generation]
  BY <1>1 DEF Accounted
<1>3. \A c \in Counts : table.map[i].count[c] \in Nat
  BY <1>1 DEF Typed, Slot
<1>4. QED
  BY <1>2, <1>3, RuntimeAssumption DEF Records

\* The same count is a count shifted by nothing.
LEMMA SameIsShift ==
    ASSUME NEW t, NEW t2, Typed(t), NEW c \in Counts, NEW e, Same(t, t2, c)
    PROVE  Shift(t, t2, c, e, 0)
<1>1. \A i \in DOMAIN t.map : t.map[i].count[c] \in Nat
  BY DEF Typed, Slot
<1>2. QED
  BY <1>1 DEF Same, Shift

\* What the kernel holds, with what it never saw, and what the request carries
\* change together by d for node e: the request was x and is y.
Balanced(x, y, e, d) ==
    \A i \in DOMAIN table.map :
        krefs'[table.map[i].record] + leaked'[table.map[i].record] + Carried(y, i) =
        krefs[table.map[i].record] + leaked[table.map[i].record] + Carried(x, i)
            + (IF i = e THEN d ELSE 0)

\* What the kernel will hold is of nodes that are live before the step.
GivenLive ==
    \A r \in Records : krefs'[r] + leaked'[r] # 0 =>
        r \in DOMAIN born /\ Lives(table, [ino |-> born[r].ino, record |-> r])

\* So is what the request will carry.
EntriesLive(y) ==
    /\ y.got # NoRef => Lives(table, y.got)
    /\ \A k \in DOMAIN y.accepted : Lives(table, y.accepted[k])
    /\ y.pc = "retain" => \E n \in Names : names'[n] = y.got.ino

\* A step of one thread that changes the lookups of at most one node: what the
\* kernel holds, what is on its way and what the table counts change alike.
LEMMA LookupsMove ==
    ASSUME Inv, Inv', LookupsInv, NEW t \in Threads, NEW y \in Thread, Carries(y),
           th' = [th EXCEPT ![t] = y], born' = born,
           NEW e, NEW d \in Int, Shift(table, table', "lookups", e, d),
           Balanced(th[t], y, e, d), GivenLive, EntriesLive(y), names' = names \/ NotListed
    PROVE  LookupsInv'
<1> DEFINE G(i) == krefs[table.map[i].record] + leaked[table.map[i].record]
           G2(i) == krefs'[table.map[i].record] + leaked'[table.map[i].record]
           U(i) == Unsent(i)
           U2(i) == Unsent(i)'
           n(i) == table.map[i].count["lookups"]
<1>0. PICK h : h = th'
  OBVIOUS
<1>1. /\ th \in [Threads -> Thread] /\ Len(born) <= MaxRecords
      /\ krefs \in [Records -> Nat] /\ leaked \in [Records -> Nat]
      /\ krefs' \in [Records -> Nat] /\ leaked' \in [Records -> Nat]
  BY Zenon DEF Inv, ThreadsOK, RestOK, LookupsInv
<1>2. Listings(th) /\ Len(y.accepted) <= MaxPage /\ Listings(h)
  BY <1>0, <1>1 DEF Listings, LookupsInv, Carries
<1>3. h[t] = y /\ \A u \in Threads : u # t => h[u] = th[u]
  BY <1>0, <1>1
<1>4. ASSUME NEW i \in DOMAIN table.map
      PROVE  /\ G2(i) \in Nat /\ U2(i) \in Nat /\ n(i) \in Nat
             /\ G2(i) + U2(i) = IF i = e THEN n(i) + d ELSE n(i)
  <2>1. table.map[i].record \in Records /\ n(i) \in Nat
    BY <1>1, LiveRecord DEF Counts
  <2>2. G(i) \in Nat /\ G2(i) \in Nat
    <3>1. \A r \in Records : krefs[r] + leaked[r] \in Nat /\ krefs'[r] + leaked'[r] \in Nat
      BY <1>1
    <3>2. QED
      BY <2>1, <3>1, Zenon
  <2>3. /\ U(i) \in Nat /\ U2(i) \in Nat /\ Carried(th[t], i) \in Nat /\ Carried(y, i) \in Nat
        /\ U2(i) + Carried(th[t], i) = U(i) + Carried(y, i)
    BY <1>2, UnsentMoves, Zenon
  <2>4. n(i) = G(i) + U(i)
    BY DEF LookupsInv
  <2>5. G2(i) + Carried(y, i) = G(i) + Carried(th[t], i) + (IF i = e THEN d ELSE 0)
    BY DEF Balanced
  <2> HIDE DEF G, G2, U, U2, n
  <2>6. QED
    BY <2>1, <2>2, <2>3, <2>4, <2>5
<1>5. ASSUME NEW i \in DOMAIN table.map, G2(i) # 0 \/ U2(i) # 0
      PROVE  i \in DOMAIN table'.map /\ table'.map[i].record = table.map[i].record
  <2>1. (IF i = e THEN n(i) + d ELSE n(i)) # 0
    <3> HIDE DEF G2, U2, n
    <3>1. QED
      BY <1>4, <1>5
  <2>2. QED
    BY <2>1 DEF Shift
<1>6. ASSUME NEW g, Lives(table, g), U2(g.ino) # 0
      PROVE  Lives(table', g)
  BY <1>5, <1>6 DEF Lives
<1>7. ASSUME NEW i \in DOMAIN table'.map
      PROVE  table'.map[i].count["lookups"] =
                 krefs'[table'.map[i].record] + leaked'[table'.map[i].record] + U2(i)
  <2>1. /\ i \in DOMAIN table.map /\ table'.map[i].record = table.map[i].record
        /\ table'.map[i].count["lookups"] = IF i = e THEN n(i) + d ELSE n(i)
    BY DEF Shift
  <2>2. krefs'[table'.map[i].record] + leaked'[table'.map[i].record] = G2(i)
    BY <2>1
  <2> HIDE DEF G2, U2, n
  <2>3. QED
    BY <1>4, <2>1, <2>2
<1>8. ASSUME NEW r \in Records, krefs'[r] + leaked'[r] # 0
      PROVE  r \in DOMAIN born /\ Lives(table', [ino |-> born[r].ino, record |-> r])
  <2>1. r \in DOMAIN born /\ Lives(table, [ino |-> born[r].ino, record |-> r])
    BY <1>8 DEF GivenLive
  <2>2. PICK i \in DOMAIN table.map : i = born[r].ino /\ table.map[i].record = r
    BY <2>1 DEF Lives
  <2>3. G2(i) # 0
    BY <1>8, <2>2
  <2>4. i \in DOMAIN table'.map /\ table'.map[i].record = r
    BY <1>5, <2>2, <2>3, Zenon
  <2>5. QED
    BY <2>1, <2>2, <2>4, Zenon DEF Lives
<1>9. ASSUME NEW u \in Threads
      PROVE  /\ h[u].got # NoRef => Lives(table, h[u].got)
             /\ \A k \in DOMAIN h[u].accepted : Lives(table, h[u].accepted[k])
             /\ h[u].pc = "retain" => \E m \in Names : names'[m] = h[u].got.ino
             /\ Carries(h[u])
  <2>1. CASE u = t
    BY <1>3, <2>1 DEF EntriesLive
  <2>2. CASE u # t
    <3>1. h[u] = th[u] /\ (th[u].pc = "retain" => names' = names)
      BY <1>3, <2>2 DEF NotListed
    <3>2. QED
      BY <3>1 DEF LookupsInv
  <2>3. QED
    BY <2>1, <2>2
<1>10. \A i : U2(i) = Cardinality(Answers(h, i)) + Cardinality(Places(h, i))
  BY <1>0 DEF Unsent, Answers, Places
<1>11. ASSUME NEW u \in Threads, NEW k \in DOMAIN h[u].accepted
       PROVE  Lives(table', h[u].accepted[k])
  <2>1. U2(h[u].accepted[k].ino) # 0
    BY <1>2, <1>10, UnsentCovers, Zenon
  <2>2. QED
    BY <1>6, <1>9, <2>1, Zenon
<1>12. ASSUME NEW u \in Threads, h[u].got # NoRef
       PROVE  Lives(table', h[u].got)
  <2>1. CASE h[u].pc # "retain"
    <3>1. U2(h[u].got.ino) # 0
      BY <1>2, <1>10, <2>1, UnsentCovers, Zenon
    <3>2. QED
      BY <1>6, <1>9, <1>12, <3>1, Zenon
  <2>2. CASE h[u].pc = "retain"
    <3>1. PICK m \in Names : names'[m] = h[u].got.ino
      BY <1>9, <2>2, Zenon
    <3>2. h[u].got.ino # 0
      BY <1>9, <1>12, Zenon DEF Carries
    <3>3. h[u].got.ino \in DOMAIN table'.map
      BY <3>1, <3>2 DEF Inv, Linked, LinksExact, Contains
    <3>4. QED
      BY <1>9, <1>12, <3>3, Zenon DEF Lives, Shift
  <2>3. QED
    BY <2>1, <2>2, Zenon
<1> HIDE DEF U2
<1>13. QED
  <2>1. \A i \in DOMAIN table'.map : table'.map[i].count["lookups"] =
            krefs'[table'.map[i].record] + leaked'[table'.map[i].record] + Unsent(i)'
    BY <1>7 DEF U2
  <2>2. /\ \A u \in Threads : Carries(th'[u])
        /\ \A u \in Threads :
              /\ th'[u].got # NoRef => Lives(table', th'[u].got)
              /\ \A k \in DOMAIN th'[u].accepted : Lives(table', th'[u].accepted[k])
              /\ th'[u].pc = "retain" => \E m \in Names : names'[m] = th'[u].got.ino
    BY <1>0, <1>9, <1>11, <1>12
  <2>3. /\ Len(born') <= MaxRecords
        /\ \A r \in Records : krefs'[r] + leaked'[r] # 0 =>
              r \in DOMAIN born' /\ Lives(table', [ino |-> born'[r].ino, record |-> r])
    BY <1>1, <1>8
  <2>4. QED
    BY <2>1, <2>2, <2>3, Zenon DEF LookupsInv, Carries, Lives

------------------------------------------------------------------------------
(* The opens: the steps in general.                                          *)

\* The handles on node i in the handle table, and the threads that have an
\* open of i in hand.
HandlesOn(o, hr, i) == {f \in o : hr[f].node = i}

\* The requests that have counted an open they have not answered yet.
Openers(h, i) == {u \in Threads : Opener(h[u], i)}

\* Handles can be counted.
LEMMA HandlesCounted ==
    ASSUME NEW hr \in Seq(HandleRecord), NEW o \in SUBSET DOMAIN hr, NEW i
    PROVE  /\ IsFiniteSet(HandlesOn(o, hr, i)) /\ Cardinality(HandlesOn(o, hr, i)) \in Nat
           /\ \A f \in o : hr[f].node = i => Cardinality(HandlesOn(o, hr, i)) # 0
<1>1. DOMAIN hr = 1..Len(hr) /\ Len(hr) \in Nat
  OBVIOUS
<1>2. IsFiniteSet(1..Len(hr))
  BY <1>1, FS_Interval
<1>3. IsFiniteSet(HandlesOn(o, hr, i))
  BY <1>1, <1>2, FS_Subset DEF HandlesOn
<1>4. /\ Cardinality(HandlesOn(o, hr, i)) \in Nat
      /\ Cardinality(HandlesOn(o, hr, i)) = 0 <=> HandlesOn(o, hr, i) = {}
  BY <1>3, FS_CardinalityType, FS_EmptySet
<1>5. QED
  BY <1>3, <1>4, Zenon DEF HandlesOn

\* h is g but for thread t, which serves y.
OpenersChange(g, h, t, y, i) ==
    /\ Cardinality(Openers(g, i)) \in Nat /\ Cardinality(Openers(h, i)) \in Nat
    /\ Cardinality(Openers(h, i)) + (IF Opener(g[t], i) THEN 1 ELSE 0)
           = Cardinality(Openers(g, i)) + (IF Opener(y, i) THEN 1 ELSE 0)
    /\ \A u \in Threads : Opener(h[u], i) => Cardinality(Openers(h, i)) # 0

\* A step of one thread changes its own part of them.
LEMMA OpenersMove ==
    ASSUME NEW g \in [Threads -> Thread], NEW t \in Threads, NEW y \in Thread, NEW i,
           NEW h, h = [g EXCEPT ![t] = y]
    PROVE  OpenersChange(g, h, t, y, i)
<1> DEFINE S == Openers(g, i)
           S2 == Openers(h, i)
<1>1. /\ S \in SUBSET Threads /\ S2 \in SUBSET Threads /\ S \ {t} = S2 \ {t}
      /\ (t \in S <=> Opener(g[t], i)) /\ (t \in S2 <=> Opener(y, i))
      /\ \A u \in Threads : Opener(h[u], i) => u \in S2
  BY DEF Openers
<1> HIDE DEF S, S2
<1>2. /\ Cardinality(S) \in Nat /\ Cardinality(S2) \in Nat
      /\ Cardinality(S2) + (IF t \in S THEN 1 ELSE 0) = Cardinality(S) + (IF t \in S2 THEN 1 ELSE 0)
  BY <1>1, OneThread
<1>3. IsFiniteSet(S2)
  BY <1>1, RuntimeAssumption, FS_Subset
<1>4. Cardinality(S2) = 0 <=> S2 = {}
  BY <1>3, FS_EmptySet
<1>5. \A u \in Threads : Opener(h[u], i) => Cardinality(S2) # 0
  BY <1>1, <1>4
<1>6. QED
  BY <1>1, <1>2, <1>5, Zenon DEF OpenersChange, S, S2

\* The handles in the table and the open the request has in hand, which was x
\* and is y, change together by d for node e.
HandlesBalanced(x, y, e, d) ==
    \A i \in DOMAIN table.map :
        Cardinality(HandlesOn(open', hrec', i)) + (IF Opener(y, i) THEN 1 ELSE 0) =
        Cardinality(HandlesOn(open, hrec, i)) + (IF Opener(x, i) THEN 1 ELSE 0)
            + (IF i = e THEN d ELSE 0)

\* A step of one thread that changes the opens of at most one node: what the
\* handle table and the threads have in hand and what the table counts change
\* alike.
LEMMA OpensMove ==
    ASSUME Inv, Inv', OpensInv, NEW t \in Threads, NEW y \in Thread,
           th' = [th EXCEPT ![t] = y],
           NEW e, NEW d \in Int, Shift(table, table', "opens", e, d),
           HandlesBalanced(th[t], y, e, d),
           \A f \in open' : hrec'[f].node \in DOMAIN table.map,
           \A i \in Nat : Opener(y, i) => i \in DOMAIN table.map
    PROVE  OpensInv'
<1> DEFINE F(i) == Cardinality(HandlesOn(open, hrec, i))
           F2(i) == Cardinality(HandlesOn(open', hrec', i))
           n(i) == table.map[i].count["opens"]
<1>0. PICK h : h = th'
  OBVIOUS
<1>1. /\ th \in [Threads -> Thread]
      /\ hrec \in Seq(HandleRecord) /\ open \in SUBSET DOMAIN hrec
      /\ hrec' \in Seq(HandleRecord) /\ open' \in SUBSET DOMAIN hrec'
  BY DEF Inv, ThreadsOK, RestOK
<1>2. h[t] = y /\ h = [th EXCEPT ![t] = y] /\ \A u \in Threads : u # t => h[u] = th[u]
  BY <1>0, <1>1
<1>a. \A i : OpenersChange(th, h, t, y, i)
  BY <1>1, <1>2, OpenersMove, Zenon
<1>3. \A i \in DOMAIN table.map : n(i) = F(i) + Cardinality(Openers(th, i))
  BY Zenon DEF OpensInv, OpensExact, HandlesOn, Openers, Opener
<1>4. ASSUME NEW i \in DOMAIN table.map
      PROVE  /\ F2(i) \in Nat /\ Cardinality(Openers(h, i)) \in Nat /\ n(i) \in Nat
             /\ F2(i) + Cardinality(Openers(h, i)) = IF i = e THEN n(i) + d ELSE n(i)
  <2>1. F(i) \in Nat /\ F2(i) \in Nat
    BY <1>1, HandlesCounted
  <2>2. /\ Cardinality(Openers(th, i)) \in Nat /\ Cardinality(Openers(h, i)) \in Nat
        /\ Cardinality(Openers(h, i)) + (IF Opener(th[t], i) THEN 1 ELSE 0)
                  = Cardinality(Openers(th, i)) + (IF Opener(y, i) THEN 1 ELSE 0)
    BY <1>a, Zenon DEF OpenersChange
  <2>3. F2(i) + (IF Opener(y, i) THEN 1 ELSE 0)
            = F(i) + (IF Opener(th[t], i) THEN 1 ELSE 0) + (IF i = e THEN d ELSE 0)
    BY DEF HandlesBalanced
  <2>4. n(i) = F(i) + Cardinality(Openers(th, i))
    BY <1>3
  <2> HIDE DEF F, F2, n
  <2>5. QED
    BY <2>1, <2>2, <2>3, <2>4
<1>5. ASSUME NEW i \in DOMAIN table.map, F2(i) # 0 \/ Cardinality(Openers(h, i)) # 0
      PROVE  i \in DOMAIN table'.map
  <2>1. (IF i = e THEN n(i) + d ELSE n(i)) # 0
    <3> HIDE DEF F2, n
    <3>1. QED
      BY <1>4, <1>5
  <2>2. QED
    BY <2>1 DEF Shift
<1>6. ASSUME NEW f \in open'
      PROVE  hrec'[f].node \in DOMAIN table'.map
  <2>1. PICK i \in DOMAIN table.map : i = hrec'[f].node
    OBVIOUS
  <2>2. F2(i) # 0
    BY <1>1, <2>1, HandlesCounted
  <2>3. QED
    BY <1>5, <2>1, <2>2
<1>7. ASSUME NEW u \in Threads, NEW i \in Nat, Opener(h[u], i)
      PROVE  i \in DOMAIN table'.map
  <2>1. i \in DOMAIN table.map
    BY <1>2, <1>7 DEF OpensInv
  <2>2. Cardinality(Openers(h, i)) # 0
    BY <1>a, <1>7, Zenon DEF OpenersChange
  <2>3. QED
    BY <1>5, <2>1, <2>2
<1>8. \A i \in DOMAIN table'.map :
          table'.map[i].count["opens"] = F2(i) + Cardinality(Openers(h, i))
  <2> SUFFICES ASSUME NEW i \in DOMAIN table'.map
               PROVE  table'.map[i].count["opens"] = F2(i) + Cardinality(Openers(h, i))
    OBVIOUS
  <2>1. /\ i \in DOMAIN table.map
        /\ table'.map[i].count["opens"] = IF i = e THEN n(i) + d ELSE n(i)
    BY DEF Shift
  <2> HIDE DEF F2, n
  <2>2. QED
    BY <1>4, <2>1
<1>9. \A u \in Threads, i \in Nat : Opener(th'[u], i) => i \in DOMAIN table'.map
  BY <1>0, <1>7
<1>10. OpensExact'
  <2>1. \A i \in DOMAIN table'.map :
            table'.map[i].count["opens"] =
                Cardinality({f \in open' : hrec'[f].node = i})
                + Cardinality({u \in Threads :
                      th'[u].id = i /\ th'[u].pc \in {"addhandle", "relnode", "relopen"}})
    BY <1>0, <1>8 DEF HandlesOn, Openers, Opener
  <2>2. QED
    BY <2>1 DEF OpensExact
<1>11. QED
  BY <1>6, <1>9, <1>10 DEF OpensInv, Opener

\* A step that leaves the opens alone.
LEMMA OpensQuiet ==
    ASSUME Inv, Inv', OpensInv, NEW t \in Threads, NEW y \in Thread,
           th' = [th EXCEPT ![t] = y], Same(table, table', "opens"),
           open' = open, \A f \in open : hrec'[f].node = hrec[f].node,
           \A i \in Nat : Opener(y, i) <=> Opener(th[t], i)
    PROVE  OpensInv'
<1>1. Typed(table) /\ "opens" \in Counts
  BY DEF Inv, Sound, Counts
<1>2. Shift(table, table', "opens", ROOT, 0)
  BY <1>1, SameIsShift
<1>3. \A i \in DOMAIN table.map : HandlesOn(open', hrec', i) = HandlesOn(open, hrec, i)
  BY DEF HandlesOn
<1>4. \A i \in DOMAIN table.map : Cardinality(HandlesOn(open, hrec, i)) \in Nat /\ i \in Nat
  BY HandlesCounted, LiveTyped DEF Inv, RestOK
<1>5. HandlesBalanced(th[t], y, ROOT, 0)
  BY <1>3, <1>4 DEF HandlesBalanced
<1>6. \A f \in open' : hrec'[f].node \in DOMAIN table.map
  BY DEF OpensInv
<1>7. \A i \in Nat : Opener(y, i) => i \in DOMAIN table.map
  BY DEF OpensInv
<1>8. 0 \in Int
  OBVIOUS
<1>9. QED
  BY <1>2, <1>5, <1>6, <1>7, <1>8, OpensMove, Zenon

\* A step that leaves the lookups alone.
LEMMA LookupsQuiet ==
    ASSUME Inv, Inv', LookupsInv, NEW t \in Threads, NEW y \in Thread, Carries(y),
           th' = [th EXCEPT ![t] = y], UNCHANGED <<born, krefs, leaked>>,
           Same(table, table', "lookups"),
           y.got = th[t].got, y.accepted = th[t].accepted,
           y.pc = "retain" <=> th[t].pc = "retain",
           names' = names \/ NotListed
    PROVE  LookupsInv'
<1>1. Typed(table) /\ "lookups" \in Counts /\ 0 \in Int
  BY DEF Inv, Sound, Counts
<1>2. Shift(table, table', "lookups", ROOT, 0)
  BY <1>1, SameIsShift, Zenon
<1>3. GivenLive
  BY DEF LookupsInv, GivenLive
<1>4. EntriesLive(y)
  BY DEF LookupsInv, EntriesLive, NotListed
<1>5. ASSUME NEW i \in DOMAIN table.map
      PROVE  krefs'[table.map[i].record] + leaked'[table.map[i].record] + Carried(y, i) =
             krefs[table.map[i].record] + leaked[table.map[i].record] + Carried(th[t], i)
                 + (IF i = ROOT THEN 0 ELSE 0)
  <2>1. Carried(y, i) = Carried(th[t], i)
    BY DEF Carried
  <2>2. Carried(th[t], i) \in Nat
    <3>1. th[t].accepted \in Seq(Ref)
      BY DEF Inv, ThreadsOK, Thread
    <3>2. Ents(th[t].accepted, i) \in Nat
      BY <3>1, EntsNat, Zenon
    <3>3. QED
      BY <3>2 DEF Carried
  <2>3. table.map[i].record \in Records
    BY LiveRecord, Zenon DEF LookupsInv
  <2>4. \A r \in Records : krefs[r] \in Nat /\ leaked[r] \in Nat
    BY DEF Inv, RestOK
  <2>5. PICK k \in Nat, l \in Nat :
            krefs[table.map[i].record] = k /\ leaked[table.map[i].record] = l
    BY <2>3, <2>4, Zenon
  <2>6. QED
    BY <2>1, <2>2, <2>5
<1>6. born' = born /\ Balanced(th[t], y, ROOT, 0)
  BY <1>5 DEF Balanced
<1>7. QED
  BY <1>1, <1>2, <1>3, <1>4, <1>6, LookupsMove, Zenon

------------------------------------------------------------------------------
(* The steps, one by one.                                                    *)

\* The inductive invariant, on top of Inv.
KernelInv == LookupsInv /\ OpensInv

\* Thread t goes on to y with the entries and the open it had.
Quietly(t, y) ==
    /\ y \in Thread /\ Carries(y) /\ th' = [th EXCEPT ![t] = y]
    /\ y.got = th[t].got /\ y.accepted = th[t].accepted
    /\ y.pc = "retain" <=> th[t].pc = "retain"
    /\ \A i \in Nat : Opener(y, i) <=> Opener(th[t], i)

\* Neither the node table's lookups and opens nor what they count changes.
Untouched ==
    /\ UNCHANGED <<born, krefs, leaked, open>>
    /\ Same(table, table', "lookups") /\ Same(table, table', "opens")
    /\ \A f \in open : hrec'[f].node = hrec[f].node
    /\ names' = names \/ NotListed

\* Such a step keeps the accounts.
LEMMA QuietKernel ==
    ASSUME Inv, Inv', KernelInv, NEW t \in Threads, NEW y, Quietly(t, y), Untouched
    PROVE  KernelInv'
<1>1. LookupsInv'
  BY LookupsQuiet, Zenon DEF KernelInv, Quietly, Untouched
<1>2. OpensInv'
  BY OpensQuiet, Zenon DEF KernelInv, Quietly, Untouched
<1>3. QED
  BY <1>1, <1>2 DEF KernelInv

\* The same table counts the same.
LEMMA TableUntouched ==
    ASSUME UNCHANGED <<table, born, names, krefs, leaked, open>>,
           \A f \in open : hrec'[f].node = hrec[f].node
    PROVE  Untouched
  BY SameTable DEF Untouched

\* The steps before and after which a request has no open in hand and no entry
\* to count.
Plain == Steps \ {"retain", "addhandle", "relnode", "relopen"}

\* What Carries says of the next step of a request.
LEMMA CarriesOn ==
    ASSUME NEW x, Carries(x), NEW y,
           y.got = x.got, y.accepted = x.accepted, y.op = x.op, y.id = x.id,
           x.pc # "retain", y.pc # "retain", y.pc = "addopen" => y.got # NoRef,
           y.pc # "entry", y.pc = "attr" => x.pc = "entry",
           x.got # NoRef => y.pc \in {"unlease", "addopen", "addhandle", "reply"},
           x.accepted # <<>> => y.pc \in {"listing", "using", "unlease", "reply", "rollback",
                                          "forgotten", "sweep"}
    PROVE  Carries(y)
  BY DEF Carries

\* A request goes on from one plain step to another.
LEMMA PlainQuiet ==
    ASSUME NEW t \in Threads, NEW y \in Thread, Carries(y), th' = [th EXCEPT ![t] = y],
           y.got = th[t].got, y.accepted = th[t].accepted, y.pc \in Plain, th[t].pc \in Plain
    PROVE  Quietly(t, y)
<1>1. \A i \in Nat : ~Opener(y, i) /\ ~Opener(th[t], i)
  BY DEF Opener, Plain
<1>2. y.pc # "retain" /\ th[t].pc # "retain"
  BY DEF Plain
<1>3. QED
  BY <1>1, <1>2 DEF Quietly

\* A request only goes on.
LEMMA GotoQuiet ==
    ASSUME ThreadsOK, NEW t \in Threads,
           NEW s \in Plain \ {"addopen", "entry", "attr"}, th[t].pc \in Plain,
           Goto(t, s), Carries(th[t]),
           th[t].got # NoRef => s \in {"unlease", "addhandle", "reply"},
           th[t].accepted # <<>> => s \in {"listing", "using", "unlease", "reply", "rollback",
                                           "forgotten", "sweep"}
    PROVE  \E y : Quietly(t, y)
<1> DEFINE y == [th[t] EXCEPT !.pc = s]
<1>1. th[t] \in Thread /\ y \in Thread
  BY Zenon DEF ThreadsOK, Thread, Plain
<1>2. /\ y.pc = s /\ y.got = th[t].got /\ y.accepted = th[t].accepted
      /\ y.op = th[t].op /\ y.id = th[t].id
  BY <1>1 DEF Thread
<1>3. th' = [th EXCEPT ![t] = y]
  BY DEF Goto
<1> HIDE DEF y
<1>4. Carries(y)
  BY <1>2, CarriesOn DEF Plain
<1>5. QED
  BY <1>1, <1>2, <1>3, <1>4, PlainQuiet, Zenon

\* EntryFails, NodeCallback, FetchHandle, CheckOpens, Released, PlusEnd and
\* PlusReplyFails.
LEMMA QuietStepKernel ==
    ASSUME Inv, Inv', KernelInv, NEW t \in Threads,
           \/ EntryFails(t) \/ NodeCallback(t) \/ FetchHandle(t) \/ CheckOpens(t)
           \/ Released(t) \/ PlusEnd(t) \/ PlusReplyFails(t)
    PROVE  KernelInv'
<1>1. ThreadsOK /\ th[t] \in Thread /\ Carries(th[t])
  BY Zenon DEF Inv, ThreadsOK, KernelInv, LookupsInv
<1>2. Untouched
  BY TableUntouched, Zenon
     DEF EntryFails, NodeCallback, FetchHandle, CheckOpens, Released, PlusEnd, PlusReplyFails
<1>3. PICK s \in {"unlease", "acquire", "scan", "using", "rollback"} :
          /\ Goto(t, s)
          /\ \/ s \in {"unlease", "acquire", "scan"} /\ th[t].pc \in {"attr", "leased", "taken"}
             \/ /\ s \in {"using", "rollback"}
                /\ \/ th[t].pc = "listing"
                   \/ th[t].pc = "reply" /\ th[t].op = "readdirplus"
  BY DEF EntryFails, NodeCallback, FetchHandle, CheckOpens, Released, PlusEnd,
                  PlusReplyFails
<1>4. s \in Plain \ {"addopen", "entry", "attr"} /\ th[t].pc \in Plain
  BY <1>3, Zenon DEF Plain, Steps
<1>5. th[t].got = NoRef
  BY <1>1, <1>3, Zenon DEF Carries
<1>6. th[t].accepted # <<>> => s \in {"using", "rollback"}
  BY <1>1, <1>3 DEF Carries
<1>7. PICK y : Quietly(t, y)
  BY <1>1, <1>3, <1>4, <1>5, <1>6, GotoQuiet
<1>8. QED
  BY <1>2, <1>7, QuietKernel, Zenon

\* A handle keeps its node.
LEMMA NodeKept ==
    ASSUME RestOK, NEW f,
           \/ hrec' = hrec
           \/ hrec' = [hrec EXCEPT ![f].active = @ + 1]
           \/ hrec' = [hrec EXCEPT ![f].active = IF @ > 0 THEN @ - 1 ELSE 0]
           \/ hrec' = [hrec EXCEPT ![f].closing = TRUE]
           \/ hrec' = [hrec EXCEPT ![f].taken = TRUE]
    PROVE  \A g \in open : hrec'[g].node = hrec[g].node
<1> SUFFICES ASSUME NEW g \in open PROVE hrec'[g].node = hrec[g].node
  OBVIOUS
<1>1. g \in DOMAIN hrec /\ hrec[g] \in HandleRecord
  BY DEF RestOK
<1>2. QED
  BY <1>1 DEF HandleRecord

\* A handle is leased, given back, closed or taken.
LEMMA HandleStepKernel ==
    ASSUME Inv, Inv', KernelInv, NEW t \in Threads,
           Acquire(t) \/ ScanHandles(t) \/ EndUse(t) \/ CloseHandle(t) \/ TakeHandle(t)
    PROVE  KernelInv'
<1>1. ThreadsOK /\ th[t] \in Thread /\ Carries(th[t]) /\ RestOK
  BY DEF Inv, ThreadsOK, KernelInv, LookupsInv
<1>2. PICK f : \/ hrec' = hrec
               \/ hrec' = [hrec EXCEPT ![f].active = @ + 1]
               \/ hrec' = [hrec EXCEPT ![f].active = IF @ > 0 THEN @ - 1 ELSE 0]
               \/ hrec' = [hrec EXCEPT ![f].closing = TRUE]
               \/ hrec' = [hrec EXCEPT ![f].taken = TRUE]
  BY DEF Acquire, ScanHandles, EndUse, CloseHandle, TakeHandle
<1>3. \A g \in open : hrec'[g].node = hrec[g].node
  BY <1>1, <1>2, NodeKept, Zenon
<1>4. Untouched
  BY <1>3, TableUntouched DEF Acquire, ScanHandles, EndUse, CloseHandle, TakeHandle
<1>5. ASSUME NEW s \in {"unlease", "listing", "using", "waiting", "taken"}, Goto(t, s),
             th[t].pc \in {"acquire", "scan", "using", "closing", "waiting"},
             th[t].pc = "using" => s = "unlease"
      PROVE  KernelInv'
  <2>1. th[t].got = NoRef /\ (th[t].accepted # <<>> => s = "unlease")
    BY <1>1, <1>5, Zenon DEF Carries
  <2>2. s \in Plain \ {"addopen", "entry", "attr"} /\ th[t].pc \in Plain
    BY <1>5 DEF Plain, Steps
  <2>3. PICK y : Quietly(t, y)
    BY <1>1, <1>5, <2>1, <2>2, GotoQuiet, Zenon
  <2>4. QED
    BY <1>4, <2>3, QuietKernel, Zenon
<1>6. CASE Acquire(t) \/ EndUse(t) \/ CloseHandle(t) \/ TakeHandle(t)
  BY <1>5, <1>6 DEF Acquire, EndUse, CloseHandle, TakeHandle
<1>7. CASE ScanHandles(t) /\ Goto(t, "unlease")
  BY <1>5, <1>7 DEF ScanHandles
<1>8. CASE ScanHandles(t) /\ ~Goto(t, "unlease")
  <2>1. PICK g \in open : th' = [th EXCEPT ![t].pc = "using", ![t].fh = g]
    BY <1>8 DEF ScanHandles
  <2> DEFINE y == [th[t] EXCEPT !.pc = "using", !.fh = g]
  <2>2. g \in Nat
    BY <1>1 DEF RestOK
  <2>3. /\ y \in Thread /\ y.pc = "using" /\ y.got = th[t].got /\ y.accepted = th[t].accepted
        /\ y.op = th[t].op /\ y.id = th[t].id
    BY <1>1, <2>2, Zenon DEF Thread, Steps
  <2>4. th' = [th EXCEPT ![t] = y]
    BY <2>1, Zenon
  <2>5. th[t].pc = "scan" /\ th[t].got = NoRef /\ th[t].accepted = <<>>
    BY <1>1, <1>8 DEF ScanHandles, Carries
  <2> HIDE DEF y
  <2>6. Carries(y)
    BY <1>1, <2>3, <2>5, CarriesOn
  <2>7. Quietly(t, y)
    BY <2>3, <2>4, <2>5, <2>6, PlainQuiet, Zenon DEF Plain, Steps
  <2>8. QED
    BY <1>4, <2>7, QuietKernel, Zenon
<1>9. QED
  BY <1>6, <1>7, <1>8, Zenon

\* A request ends that carries nothing.
LEMMA FinishQuiet ==
    ASSUME NEW t \in Threads, th[t].pc \in Plain, Finish(t),
           th[t].got = NoRef, th[t].accepted = <<>>
    PROVE  Quietly(t, IdleThread)
<1>1. /\ IdleThread \in Thread /\ Carries(IdleThread) /\ IdleThread.got = NoRef
      /\ IdleThread.accepted = <<>> /\ IdleThread.pc \in Plain
  BY IdleOK, RuntimeAssumption DEF IdleThread, Carries, NoRef, Plain, Steps
<1>2. QED
  BY <1>1, PlainQuiet, Zenon DEF Finish

\* Cx::get changes only the leases.
LEMMA GetUntouched ==
    ASSUME Inv, NEW i \in DOMAIN table.map, table' = Get(table, i),
           UNCHANGED <<born, names, krefs, leaked, open, hrec>>
    PROVE  Untouched
<1>1. Typed(table)
  BY DEF Inv, Sound
<1>2. Same(table, table', "lookups") /\ Same(table, table', "opens")
  BY <1>1, IncShifts DEF Get, Counts
<1>3. QED
  BY <1>2 DEF Untouched

\* entry_for and release lease a node; a missing one ends the request. The
\* open a release has in hand keeps its node, so release does find it.
LEMMA GetStepKernel ==
    ASSUME Inv, Inv', KernelInv, NEW t \in Threads, EntryGet(t) \/ ReleaseNode(t)
    PROVE  KernelInv'
<1>1. ThreadsOK /\ th[t] \in Thread /\ Carries(th[t])
  BY Zenon DEF Inv, ThreadsOK, KernelInv, LookupsInv
<1>2. /\ th[t].pc \in {"entry", "relnode"} /\ th[t].got = NoRef /\ th[t].accepted = <<>>
  BY <1>1 DEF EntryGet, ReleaseNode, Carries
<1>3. CASE th[t].id \in DOMAIN table.map
  <2> DEFINE i == th[t].id
             l == [ino |-> i, record |-> table.map[i].record]
             s == IF th[t].pc = "entry" THEN "attr" ELSE "relopen"
             y == [th[t] EXCEPT !.pc = s, !.lease = l]
  <2>1. l \in Ref
    BY <1>3, LiveTyped DEF Ref
  <2>2. /\ y \in Thread /\ y.pc = s /\ y.got = th[t].got /\ y.accepted = th[t].accepted
        /\ y.op = th[t].op /\ y.id = th[t].id
    BY <1>1, <2>1, Zenon DEF Thread, Steps
  <2>3. th' = [th EXCEPT ![t] = y] /\ table' = Get(table, i)
    BY <1>3, Zenon DEF EntryGet, ReleaseNode, Contains
  <2>4. Untouched
    BY <1>3, <2>3, GetUntouched, Zenon DEF EntryGet, ReleaseNode
  <2> HIDE DEF y
  <2>5. Carries(y)
    BY <1>1, <1>2, <2>2, CarriesOn
  <2>6. \A j \in Nat : Opener(y, j) <=> Opener(th[t], j)
    BY <1>2, <2>2 DEF Opener
  <2>7. Quietly(t, y)
    BY <1>2, <2>2, <2>3, <2>5, <2>6 DEF Quietly
  <2>8. QED
    BY <2>4, <2>7, QuietKernel, Zenon
<1>4. CASE th[t].id \notin DOMAIN table.map
  <2>1. Finish(t) /\ Untouched
    BY <1>4, TableUntouched DEF EntryGet, ReleaseNode, Contains
  <2>2. th[t].pc # "relnode"
    BY <1>1, <1>4 DEF KernelInv, OpensInv, Opener, Thread
  <2>3. th[t].pc \in Plain
    BY <1>2, <2>2 DEF Plain, Steps
  <2>4. Quietly(t, IdleThread)
    BY <1>2, <2>1, <2>3, FinishQuiet
  <2>5. QED
    BY <2>1, <2>4, QuietKernel, Zenon
<1>5. QED
  BY <1>3, <1>4

\* A request starts, carrying nothing.
LEMMA StartQuiet ==
    ASSUME KernelInv, NEW t \in Threads, Idle(t), NEW y \in Thread, th' = [th EXCEPT ![t] = y],
           y.got = NoRef, y.accepted = <<>>, y.pc \in Plain \ {"addopen"},
           y.op # "readdirplus" \/ y.pc = "leased"
    PROVE  Quietly(t, y)
<1>1. th[t].got = NoRef /\ th[t].accepted = <<>> /\ th[t].pc \in Plain
  BY DEF KernelInv, LookupsInv, Carries, Idle, Plain, Steps
<1>2. Carries(y)
  BY RuntimeAssumption DEF Carries, Plain
<1>3. QED
  BY <1>1, <1>2, PlainQuiet, Zenon

\* Requests on a node.
LEMMA LeaseNodeKernel ==
    ASSUME Inv, Inv', KernelInv, NEW t \in Threads, NEW o \in AllOps, NEW i, NEW f \in Nat,
           LeaseNode(t, o, i, f)
    PROVE  KernelInv'
<1> DEFINE l == [ino |-> i, record |-> table.map[i].record]
           y == [IdleThread EXCEPT !.pc = "leased", !.op = o, !.id = i, !.fh = f, !.lease = l]
<1>1. /\ i \in DOMAIN table.map /\ table' = Get(table, i) /\ th' = [th EXCEPT ![t] = y]
      /\ UNCHANGED <<born, names, krefs, leaked, open, hrec>> /\ Idle(t)
  BY DEF LeaseNode, Contains, Start
<1>2. l \in Ref /\ i \in Nat
  BY <1>1, LiveTyped DEF Ref
<1>3. y \in Thread /\ y.got = NoRef /\ y.accepted = <<>> /\ y.pc = "leased"
  BY <1>2, IdleOK, Zenon DEF IdleThread, Thread, Steps
<1> HIDE DEF y
<1>4. y.pc \in Plain \ {"addopen"}
  BY <1>3 DEF Plain, Steps
<1>5. Quietly(t, y)
  BY <1>1, <1>3, <1>4, StartQuiet, Zenon
<1>6. Untouched
  BY <1>1, GetUntouched
<1>7. QED
  BY <1>5, <1>6, QuietKernel, Zenon

\* A callback has returned an entry.
LEMMA CallbackKernel ==
    ASSUME Inv, Inv', KernelInv, NEW t \in Threads, Idle(t),
           NEW o \in AllOps \ {"readdirplus"}, NEW i \in Nat, NEW r \in Nat,
           EntryCallback(t, o, i, r)
    PROVE  \E y : Quietly(t, y)
<1> DEFINE y == [IdleThread EXCEPT !.pc = "entry", !.op = o, !.id = i, !.meant = r]
<1>1. y \in Thread /\ y.got = NoRef /\ y.accepted = <<>> /\ y.pc = "entry" /\ y.op = o
  BY IdleOK, Zenon DEF IdleThread, Thread, Steps
<1>2. th' = [th EXCEPT ![t] = y]
  BY DEF EntryCallback
<1> HIDE DEF y
<1>3. y.pc \in Plain \ {"addopen"}
  BY <1>1 DEF Plain, Steps
<1>4. QED
  BY <1>1, <1>2, <1>3, StartQuiet, Zenon

\* lookup.
LEMMA LookupKernel ==
    ASSUME Inv, Inv', KernelInv, NEW t \in Threads, NEW n \in Names, Lookup(t, n)
    PROVE  KernelInv'
<1>1. /\ names[n] \in DOMAIN table.map /\ Idle(t) /\ "lookup" \in AllOps \ {"readdirplus"}
  BY Zenon DEF Inv, Linked, LinksExact, Contains, Lookup, Start, AllOps
<1>2. names[n] \in Nat /\ table.map[names[n]].record \in Nat
  BY <1>1, LiveTyped, Zenon
<1>3. PICK y : Quietly(t, y)
  BY <1>1, <1>2, CallbackKernel, Zenon DEF Lookup
<1>4. Untouched
  BY TableUntouched, Zenon DEF Lookup
<1>5. QED
  BY <1>3, <1>4, QuietKernel, Zenon

\* link adds a link.
LEMMA LinkKernel ==
    ASSUME Inv, Inv', KernelInv, NEW t \in Threads, NEW i \in DOMAIN table.map,
           NEW n \in Names, Link(t, i, n)
    PROVE  KernelInv'
<1>1. /\ Idle(t) /\ "link" \in AllOps \ {"readdirplus"} /\ i \in Nat /\ table.map[i].record \in Nat
  BY LiveTyped, Zenon DEF Link, Start, AllOps
<1>2. PICK y : Quietly(t, y)
  BY <1>1, CallbackKernel DEF Link
<1>3. Typed(table) /\ table' = Inc(table, i, "links")
  BY DEF Inv, Sound, Link, AddLink, Contains
<1>4. Same(table, table', "lookups") /\ Same(table, table', "opens")
  BY <1>3, IncShifts DEF Counts
<1>5. Untouched
  BY <1>4, Zenon DEF Untouched, Link, ExclusiveAllowed
<1>6. QED
  BY <1>2, <1>5, QuietKernel, Zenon

\* A thread that does nothing.
LEMMA NothingQuiet ==
    ASSUME Inv, KernelInv, NEW t \in Threads, th' = th
    PROVE  Quietly(t, th[t])
<1>1. th \in [Threads -> Thread] /\ Carries(th[t])
  BY Zenon DEF Inv, ThreadsOK, KernelInv, LookupsInv
<1>2. th[t] \in Thread /\ th' = [th EXCEPT ![t] = th[t]]
  BY <1>1, Zenon
<1>3. QED
  BY <1>1, <1>2, Zenon DEF Quietly

\* unlink, and a rename over another name, take a link.
LEMMA NamesKernel ==
    ASSUME Inv, Inv', KernelInv,
           (\E n \in Names : Unlink(n)) \/ (\E n, m \in Names : Rename(n, m))
    PROVE  KernelInv'
<1>1. PICK t \in Threads : TRUE
  BY RuntimeAssumption
<1>2. Quietly(t, th[t])
  BY <1>1, NothingQuiet DEF Unlink, Rename
<1>3. Typed(table) /\ Accounted(table, born)
  BY Zenon DEF Inv, Sound
<1>4. ASSUME NEW n \in Names, names[n] # 0, table' = RemoveLink(table, names[n])
      PROVE  Same(table, table', "lookups") /\ Same(table, table', "opens")
  <2>1. names[n] \in DOMAIN table.map
    BY <1>4 DEF Inv, Linked, LinksExact, Contains
  <2>2. QED
    BY <1>3, <1>4, <2>1, DecDropShifts, Zenon DEF RemoveLink, Counts
<1>5. Same(table, table', "lookups") /\ Same(table, table', "opens")
  <2>1. CASE table' = table
    BY <2>1, SameTable
  <2>2. CASE table' # table
    BY <1>4, <2>2 DEF Unlink, Rename
  <2>3. QED
    BY <2>1, <2>2
<1>6. Untouched
  BY <1>5 DEF Untouched, Unlink, Rename, ExclusiveAllowed
<1>7. QED
  BY <1>2, <1>6, QuietKernel, Zenon

\* A NodeRef is dropped at the end of a handler or of entry_for.
LEMMA UnleaseKernel ==
    ASSUME Inv, Inv', KernelInv, NEW t \in Threads, Unlease(t)
    PROVE  KernelInv'
<1> DEFINE s == IF th[t].op = "create" /\ th[t].got # NoRef THEN "addopen" ELSE "reply"
           y == [th[t] EXCEPT !.lease = NoRef, !.pc = s]
<1>1. th[t] \in Thread /\ Carries(th[t]) /\ Typed(table) /\ Accounted(table, born)
  BY Zenon DEF Inv, ThreadsOK, KernelInv, LookupsInv, Sound
<1>2. /\ y \in Thread /\ y.pc = s /\ y.got = th[t].got /\ y.accepted = th[t].accepted
      /\ y.op = th[t].op /\ y.id = th[t].id
  <2>1. s \in Steps /\ NoRef \in Ref
    BY DEF Steps, NoRef, Ref
  <2> HIDE DEF s
  <2>2. QED
    BY <1>1, <2>1, Zenon DEF Thread
<1>3. th' = [th EXCEPT ![t] = y]
  BY Zenon DEF Unlease
<1>4. th[t].pc = "unlease" /\ s \in Plain /\ th[t].pc \in Plain
  BY DEF Unlease, Plain, Steps
<1> HIDE DEF y
<1>5. Carries(y)
  <2>1. s = "addopen" => th[t].got # NoRef /\ th[t].accepted = <<>>
    BY <1>1 DEF Carries
  <2>2. QED
    BY <1>1, <1>2, <1>4, <2>1, CarriesOn
<1>6. Quietly(t, y)
  BY <1>2, <1>3, <1>4, <1>5, PlainQuiet, Zenon
<1>7. Same(table, table', "lookups") /\ Same(table, table', "opens")
  BY <1>1, DropRefSame DEF Unlease, Counts
<1>8. Untouched
  BY <1>7 DEF Untouched, Unlease
<1>9. QED
  BY <1>6, <1>8, QuietKernel, Zenon

\* The end of a forget.
LEMMA AfterForgetKernel ==
    ASSUME Inv, Inv', KernelInv, NEW t \in Threads, ForgetNotified(t) \/ ForgetSweep(t)
    PROVE  KernelInv'
<1> DEFINE s == IF th[t].op = "readdirplus" THEN "rollback" ELSE "idle"
           y == [th[t] EXCEPT !.pc = s, !.flease = NoRef]
<1>1. th[t] \in Thread /\ Carries(th[t]) /\ Typed(table) /\ Accounted(table, born)
  BY Zenon DEF Inv, ThreadsOK, KernelInv, LookupsInv, Sound
<1>2. /\ y \in Thread /\ y.pc = s /\ y.got = th[t].got /\ y.accepted = th[t].accepted
      /\ y.op = th[t].op /\ y.id = th[t].id
  <2>1. s \in Steps /\ NoRef \in Ref
    BY DEF Steps, NoRef, Ref
  <2> HIDE DEF s
  <2>2. QED
    BY <1>1, <2>1, Zenon DEF Thread
<1>3. th' = [th EXCEPT ![t] = y]
  BY Zenon DEF ForgetNotified, ForgetSweep, AfterForget
<1>4. th[t].pc \in {"forgotten", "sweep"} /\ s \in Plain /\ th[t].pc \in Plain
  BY Zenon DEF ForgetNotified, ForgetSweep, Plain, Steps
<1> HIDE DEF y
<1>5. Carries(y)
  <2>1. th[t].got = NoRef /\ (th[t].accepted # <<>> => s = "rollback")
    BY <1>1, <1>4 DEF Carries
  <2>2. QED
    BY <1>1, <1>2, <1>4, <2>1, CarriesOn, Zenon
<1>6. Quietly(t, y)
  BY <1>2, <1>3, <1>4, <1>5, PlainQuiet, Zenon
<1>7. Same(table, table', "lookups") /\ Same(table, table', "opens")
  BY <1>1, DropRefSame, MaybeDropSame, Zenon DEF ForgetNotified, ForgetSweep, Counts
<1>8. Untouched
  BY <1>7 DEF Untouched, ForgetNotified, ForgetSweep
<1>9. QED
  BY <1>6, <1>8, QuietKernel, Zenon

\* The end of a roll back.
LEMMA RollbackDoneKernel ==
    ASSUME Inv, Inv', KernelInv, NEW t \in Threads, RollbackDone(t)
    PROVE  KernelInv'
<1>1. ThreadsOK /\ th[t] \in Thread /\ Carries(th[t])
  BY Zenon DEF Inv, ThreadsOK, KernelInv, LookupsInv
<1>2. /\ th[t].pc \in Plain /\ th[t].got = NoRef /\ th[t].accepted = <<>>
      /\ "using" \in Plain \ {"addopen", "entry", "attr"}
  BY <1>1 DEF RollbackDone, Carries, Plain, Steps
<1>3. Untouched
  BY TableUntouched DEF RollbackDone
<1>4. \E y : Quietly(t, y)
  <2>1. CASE Finish(t)
    BY <1>2, <2>1, FinishQuiet, Zenon
  <2>2. CASE Goto(t, "using")
    BY <1>1, <1>2, <2>2, GotoQuiet
  <2>3. QED
    BY <2>1, <2>2 DEF RollbackDone
<1>5. QED
  BY <1>3, <1>4, QuietKernel, Zenon

------------------------------------------------------------------------------
(* The steps that count lookups.                                             *)

\* What the kernel holds of a live node, and what it never saw, are numbers.
LEMMA GivenNat ==
    ASSUME Inv, LookupsInv, NEW i \in DOMAIN table.map
    PROVE  /\ table.map[i].record \in Records /\ i # 0
           /\ krefs[table.map[i].record] \in Nat /\ leaked[table.map[i].record] \in Nat
<1>1. table.map[i].record \in Records
  BY LiveRecord DEF LookupsInv
<1>2. i # 0
  BY LiveTyped
<1>3. QED
  BY <1>1, <1>2, Zenon DEF Inv, RestOK

\* What the kernel holds is of live nodes; so is what a request carries.
LEMMA AllLive ==
    ASSUME LookupsInv, NEW t \in Threads
    PROVE  /\ \A r \in Records : krefs[r] + leaked[r] # 0 =>
                 r \in DOMAIN born /\ Lives(table, [ino |-> born[r].ino, record |-> r])
           /\ th[t].got # NoRef => Lives(table, th[t].got)
           /\ \A k \in DOMAIN th[t].accepted : Lives(table, th[t].accepted[k])
  BY Zenon DEF LookupsInv

\* Every node there has been has a place in the kernel's accounts.
LEMMA BornRecords ==
    ASSUME Inv, LookupsInv
    PROVE  Len(born) \in Nat /\ DOMAIN born \subseteq Records
<1>1. Accounted(table, born) /\ Len(born) <= MaxRecords
  BY Zenon DEF Inv, Sound, LookupsInv
<1>2. born \in Seq(FreeEntry)
  BY <1>1 DEF Accounted
<1>3. QED
  BY <1>1, <1>2, RuntimeAssumption DEF Records

\* The request, which was x and is y, carries d entries for node e more.
Counting(x, y, e, d) ==
    \A i \in DOMAIN table.map :
        /\ Carried(y, i) \in Nat /\ Carried(x, i) \in Nat
        /\ Carried(y, i) = Carried(x, i) + (IF i = e THEN d ELSE 0)

\* A step that counts d lookups of node e, which the kernel does not learn of.
LEMMA CountsLookups ==
    ASSUME Inv, Inv', LookupsInv, NEW t \in Threads, NEW y \in Thread, Carries(y),
           th' = [th EXCEPT ![t] = y], UNCHANGED <<born, names, krefs, leaked>>,
           NEW e, NEW d \in Int, Shift(table, table', "lookups", e, d),
           Counting(th[t], y, e, d), EntriesLive(y)
    PROVE  LookupsInv'
<1>1. GivenLive
  BY AllLive, Zenon DEF GivenLive
<1>2. ASSUME NEW i \in DOMAIN table.map
      PROVE  krefs'[table.map[i].record] + leaked'[table.map[i].record] + Carried(y, i) =
             krefs[table.map[i].record] + leaked[table.map[i].record] + Carried(th[t], i)
                 + (IF i = e THEN d ELSE 0)
  <2>1. PICK k \in Nat, l \in Nat :
            krefs[table.map[i].record] = k /\ leaked[table.map[i].record] = l
    BY GivenNat, Zenon
  <2>2. QED
    BY <2>1 DEF Counting
<1>3. Balanced(th[t], y, e, d)
  BY <1>2 DEF Balanced
<1>4. born' = born /\ names' = names
  OBVIOUS
<1>5. QED
  BY <1>1, <1>3, <1>4, LookupsMove, Zenon

\* What a request carries that has no entry of its own.
LEMMA CarriedEnts ==
    ASSUME NEW x \in Thread, NEW i, i # 0, x.got = NoRef \/ x.pc = "retain"
    PROVE  Carried(x, i) = Ents(x.accepted, i) /\ Ents(x.accepted, i) \in Nat
<1>1. Ents(x.accepted, i) \in Nat
  BY EntsNat, Zenon DEF Thread
<1>2. QED
  BY <1>1 DEF Carried, NoRef

\* entry_for counts a lookup for the entry it is about to answer.
LEMMA EntryCountKernel ==
    ASSUME Inv, Inv', KernelInv, NEW t \in Threads, EntryCount(t)
    PROVE  KernelInv'
<1> DEFINE i == th[t].id
           g == [ino |-> i, record |-> table.map[i].record]
           y == [th[t] EXCEPT !.pc = "unlease", !.got = g]
<1>1. /\ ThreadsOK /\ th[t] \in Thread /\ Carries(th[t]) /\ LookupsInv /\ OpensInv
      /\ Typed(table)
  BY Zenon DEF Inv, ThreadsOK, KernelInv, LookupsInv, Sound
<1>2. /\ th[t].pc = "attr" /\ th[t].pc \in Plain
      /\ "unlease" \in Plain \ {"addopen", "entry", "attr"}
      /\ th[t].got = NoRef /\ th[t].accepted = <<>>
  BY <1>1 DEF EntryCount, Carries, Plain, Steps
<1>3. CASE i \notin DOMAIN table.map
  <2>1. Goto(t, "unlease") /\ Untouched
    BY <1>3, TableUntouched DEF EntryCount, Contains
  <2>2. PICK x : Quietly(t, x)
    BY <1>1, <1>2, <2>1, GotoQuiet, Zenon
  <2>3. QED
    BY <2>1, <2>2, QuietKernel, Zenon
<1>4. CASE i \in DOMAIN table.map
  <2>1. g \in Ref /\ g.ino # 0 /\ g.record # 0 /\ g # NoRef
    BY <1>4, LiveTyped, Zenon DEF Ref, NoRef
  <2>2. /\ y \in Thread /\ y.pc = "unlease" /\ y.got = g /\ y.accepted = <<>>
        /\ y.op = th[t].op /\ y.id = i
    BY <1>1, <1>2, <2>1, Zenon DEF Thread, Steps
  <2>3. /\ th' = [th EXCEPT ![t] = y] /\ table' = Inc(table, i, "lookups")
        /\ UNCHANGED <<born, names, krefs, leaked, open, hrec>>
    BY <1>4, Zenon DEF EntryCount, Contains, RetainLookup
  <2>4. Shift(table, table', "lookups", i, 1) /\ Same(table, table', "opens")
    BY <1>1, <1>4, <2>3, IncShifts DEF Counts
  <2>5. Lives(table, g)
    BY <1>4 DEF Lives
  <2> HIDE DEF y
  <2>6. Carries(y)
    <3>1. th[t].op # "readdirplus"
      BY <1>1, <1>2, Zenon DEF Carries
    <3>2. Len(y.accepted) <= MaxPage /\ DOMAIN y.accepted = {}
      BY <2>2, RuntimeAssumption
    <3>3. y.got.ino = y.id /\ y.op # "readdirplus" /\ y.got.ino # 0 /\ y.got.record # 0
      BY <2>1, <2>2, <3>1
    <3>4. y.pc = "unlease" /\ y.accepted = <<>>
      BY <2>2
    <3>5. QED
      BY <3>2, <3>3, <3>4 DEF Carries
  <2>7. ASSUME NEW j \in DOMAIN table.map
        PROVE  /\ Carried(y, j) \in Nat /\ Carried(th[t], j) \in Nat
               /\ Carried(y, j) = Carried(th[t], j) + (IF j = i THEN 1 ELSE 0)
    <3>1. j # 0
      BY LiveTyped, Zenon
    <3>2. Carried(th[t], j) = 0 /\ Carried(y, j) = IF j = i THEN 1 ELSE 0
      BY <1>2, <2>2, <3>1, EntsEmpty DEF Carried, NoRef
    <3>3. QED
      BY <3>2
  <2>8. LookupsInv'
    <3>1. EntriesLive(y)
      BY <2>2, <2>5 DEF EntriesLive
    <3>2. 1 \in Int /\ Counting(th[t], y, i, 1)
      BY <2>7 DEF Counting
    <3>3. QED
      BY <1>1, <2>2, <2>3, <2>4, <2>6, <3>1, <3>2, CountsLookups, Zenon
  <2>9. OpensInv'
    <3>1. \A j \in Nat : Opener(y, j) <=> Opener(th[t], j)
      BY <1>2, <2>2 DEF Opener
    <3>2. QED
      BY <1>1, <2>2, <2>3, <2>4, <3>1, OpensQuiet, Zenon
  <2>10. QED
    BY <2>8, <2>9 DEF KernelInv
<1>5. QED
  BY <1>3, <1>4

\* Accounting::add: the buffer has taken an entry that is not counted yet.
LEMMA PlusEntryKernel ==
    ASSUME Inv, Inv', KernelInv, NEW t \in Threads, NEW n \in Names, PlusEntry(t, n)
    PROVE  KernelInv'
<1> DEFINE i == names[n]
           g == [ino |-> i, record |-> table.map[i].record]
           y == [th[t] EXCEPT !.pc = "retain", !.got = g]
<1>1. th[t] \in Thread /\ Carries(th[t]) /\ LookupsInv /\ OpensInv /\ Typed(table)
  BY Zenon DEF Inv, ThreadsOK, KernelInv, LookupsInv, Sound
<1>2. /\ th[t].pc = "listing" /\ th[t].got = NoRef /\ Len(th[t].accepted) < MaxPage
      /\ i \in DOMAIN table.map /\ th' = [th EXCEPT ![t] = y]
      /\ UNCHANGED <<table, born, names, krefs, leaked, open, hrec>>
  BY <1>1, Zenon DEF PlusEntry, Carries, Contains
<1>3. g \in Ref /\ g.ino # 0 /\ g.record # 0 /\ g # NoRef
  BY <1>2, LiveTyped DEF Ref, NoRef
<1>4. /\ y \in Thread /\ y.pc = "retain" /\ y.got = g /\ y.accepted = th[t].accepted
      /\ y.op = th[t].op /\ y.id = th[t].id
  BY <1>1, <1>3, Zenon DEF Thread, Steps
<1> HIDE DEF y
<1>5. Carries(y)
  BY <1>1, <1>2, <1>3, <1>4, Zenon DEF Carries
<1>6. EntriesLive(y)
  <2>1. Lives(table, g)
    BY <1>2, Zenon DEF Lives
  <2>2. \A k \in DOMAIN th[t].accepted : Lives(table, th[t].accepted[k])
    BY <1>1, AllLive, Zenon
  <2>3. y.got = g /\ y.accepted = th[t].accepted /\ names'[n] = g.ino
    BY <1>2, <1>4
  <2>4. QED
    BY <2>1, <2>2, <2>3, Zenon DEF EntriesLive
<1>7. Counting(th[t], y, ROOT, 0)
  <2> SUFFICES ASSUME NEW j \in DOMAIN table.map
               PROVE  /\ Carried(y, j) \in Nat /\ Carried(th[t], j) \in Nat
                      /\ Carried(y, j) = Carried(th[t], j) + (IF j = ROOT THEN 0 ELSE 0)
    BY DEF Counting
  <2>1. j # 0
    BY LiveTyped
  <2>2. Carried(th[t], j) = Ents(th[t].accepted, j) /\ Ents(th[t].accepted, j) \in Nat
    BY <1>1, <1>2, <2>1, CarriedEnts, Zenon
  <2>3. Carried(y, j) = Ents(th[t].accepted, j)
    BY <1>4, <2>1, CarriedEnts
  <2>4. QED
    BY <2>2, <2>3
<1>8. Same(table, table', "opens") /\ Shift(table, table', "lookups", ROOT, 0)
  BY <1>1, <1>2, SameTable, SameIsShift, Zenon DEF Counts
<1>9. LookupsInv'
  <2>1. 0 \in Int
    OBVIOUS
  <2>2. QED
    BY <1>1, <1>2, <1>4, <1>5, <1>6, <1>7, <1>8, <2>1, CountsLookups, Zenon
<1>10. OpensInv'
  <2>1. \A j \in Nat : Opener(y, j) <=> Opener(th[t], j)
    BY <1>2, <1>4, Zenon DEF Opener
  <2>2. QED
    BY <1>1, <1>2, <1>4, <1>8, <2>1, OpensQuiet, Zenon
<1>11. QED
  BY <1>9, <1>10 DEF KernelInv

\* Accounting::add: retain_lookup. The name that was listed keeps the node, so
\* the lookup is counted for the node the entry is about.
LEMMA PlusRetainKernel ==
    ASSUME Inv, Inv', KernelInv, NEW t \in Threads, PlusRetain(t)
    PROVE  KernelInv'
<1> DEFINE g == th[t].got
           a == th[t].accepted
           y == [th[t] EXCEPT !.pc = "listing", !.got = NoRef, !.accepted = Append(a, g)]
<1>1. th[t] \in Thread /\ Carries(th[t]) /\ LookupsInv /\ OpensInv /\ Typed(table)
  BY Zenon DEF Inv, ThreadsOK, KernelInv, LookupsInv, Sound
<1>2. /\ th[t].pc = "retain" /\ g # NoRef /\ Len(a) < MaxPage /\ g.record # 0
      /\ g \in Ref /\ a \in Seq(Ref) /\ th[t].op = "readdirplus"
  BY <1>1, Zenon DEF PlusRetain, Carries, Thread, Inv, ThreadsOK, Phase
<1>3. Lives(table, g) /\ \A k \in DOMAIN a : Lives(table, a[k])
  BY <1>1, <1>2, AllLive, Zenon
<1>4. g.ino \in DOMAIN table.map
  BY <1>3 DEF Lives
<1>5. /\ th' = [th EXCEPT ![t] = y] /\ table' = Inc(table, g.ino, "lookups")
      /\ UNCHANGED <<born, names, krefs, leaked, open, hrec>>
  BY <1>4, Zenon DEF PlusRetain, Contains, RetainLookup
<1>6. /\ Append(a, g) \in Seq(Ref) /\ Len(Append(a, g)) <= MaxPage
      /\ \A k \in DOMAIN Append(a, g) :
            Append(a, g)[k] = g \/ \E j \in DOMAIN a : Append(a, g)[k] = a[j]
  BY <1>2, RuntimeAssumption
<1>7. /\ y \in Thread /\ y.pc = "listing" /\ y.got = NoRef /\ y.accepted = Append(a, g)
      /\ y.op = "readdirplus"
  BY <1>1, <1>2, <1>6, Zenon DEF Thread, Steps, NoRef, Ref
<1> HIDE DEF y, g, a
<1>8. Carries(y)
  <2>1. \A k \in DOMAIN a : a[k].record # 0
    BY <1>1 DEF Carries, a
  <2>2. QED
    BY <1>2, <1>6, <1>7, <2>1, Zenon DEF Carries
<1>9. EntriesLive(y)
  BY <1>3, <1>6, <1>7, Zenon DEF EntriesLive
<1>10. Shift(table, table', "lookups", g.ino, 1) /\ Same(table, table', "opens")
  BY <1>1, <1>4, <1>5, IncShifts, Zenon DEF Counts
<1>11. Counting(th[t], y, g.ino, 1)
  <2> SUFFICES ASSUME NEW j \in DOMAIN table.map
               PROVE  /\ Carried(y, j) \in Nat /\ Carried(th[t], j) \in Nat
                      /\ Carried(y, j) = Carried(th[t], j) + (IF j = g.ino THEN 1 ELSE 0)
    BY DEF Counting
  <2>1. j # 0
    BY LiveTyped
  <2>2. Carried(th[t], j) = Ents(a, j) /\ Ents(a, j) \in Nat
    BY <1>1, <1>2, <2>1, CarriedEnts DEF a
  <2>3. Carried(y, j) = Ents(Append(a, g), j)
    BY <1>7, <2>1, CarriedEnts, Zenon
  <2>4. Ents(Append(a, g), j) = Ents(a, j) + (IF g.ino = j THEN 1 ELSE 0)
    BY <1>2, EntsAppend
  <2>5. QED
    BY <2>2, <2>3, <2>4
<1>12. LookupsInv'
  <2>1. 1 \in Int
    OBVIOUS
  <2>2. QED
    BY <1>1, <1>5, <1>7, <1>8, <1>9, <1>10, <1>11, <2>1, CountsLookups, Zenon
<1>13. OpensInv'
  <2>1. \A j \in Nat : Opener(y, j) <=> Opener(th[t], j)
    BY <1>2, <1>7 DEF Opener
  <2>2. QED
    BY <1>1, <1>5, <1>7, <1>10, <2>1, OpensQuiet, Zenon
<1>14. QED
  BY <1>12, <1>13 DEF KernelInv

==============================================================================
