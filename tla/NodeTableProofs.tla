--------------------------- MODULE NodeTableProofs ---------------------------
(***************************************************************************)
(* What the operations of NodeTable preserve, for every table. b records    *)
(* the identity each node was inserted under and f the NodeRefs alive; the  *)
(* lemmas are about these values, and RuntimeProofs applies them to the     *)
(* states of the runtime.                                                   *)
(***************************************************************************)
EXTENDS NodeTable, FiniteSets, FiniteSetTheorems, TLAPS

\* The shape of a table.
Typed(t) ==
    /\ t = [map |-> t.map, next_ino |-> t.next_ino, free |-> t.free]
    /\ t.map \in [DOMAIN t.map -> Slot]
    /\ t.next_ino \in Nat \ {0}
    /\ t.free \in Seq(FreeEntry)

\* Numbers below next_ino are live or on the free list once; a live number has
\* the newest generation it was ever inserted under and a free one a newer
\* one; so no identity is ever used twice.
Accounted(t, b) ==
    /\ b \in Seq(FreeEntry)
    /\ \A i \in DOMAIN t.map : i \in 1..(t.next_ino - 1)
    /\ \A k \in 1..Len(t.free) :
          t.free[k].ino \in 1..(t.next_ino - 1) /\ t.free[k].ino \notin DOMAIN t.map
    /\ \A j, k \in 1..Len(t.free) : t.free[j].ino = t.free[k].ino => j = k
    /\ \A i \in 1..(t.next_ino - 1) :
          i \in DOMAIN t.map \/ \E k \in 1..Len(t.free) : t.free[k].ino = i
    /\ \A r \in 1..Len(b) : b[r].ino < t.next_ino
    /\ \A r \in 1..Len(b) : \A k \in 1..Len(t.free) :
          b[r].ino = t.free[k].ino => b[r].generation < t.free[k].generation
    /\ \A r \in 1..Len(b) : \A i \in DOMAIN t.map :
          b[r].ino = i => b[r].generation <= t.map[i].generation
    /\ \A i \in DOMAIN t.map :
          /\ t.map[i].record \in 1..Len(b)
          /\ b[t.map[i].record] = [ino |-> i, generation |-> t.map[i].generation]
    /\ \A r, q \in 1..Len(b) : b[r] = b[q] => r = q

\* No reclaimable slot is left, but perhaps one.
TidyBut(t, e) == \A i \in DOMAIN t.map : i # e => ~Droppable(t.map[i])

Tidy(t) == \A i \in DOMAIN t.map : ~Droppable(t.map[i])

\* t2 is t with some counts changed, of slot e only.
Recounted(t, t2, e) ==
    /\ DOMAIN t2.map = DOMAIN t.map
    /\ t2.next_ino = t.next_ino /\ t2.free = t.free
    /\ \A i \in DOMAIN t.map :
          /\ t2.map[i].record = t.map[i].record
          /\ t2.map[i].generation = t.map[i].generation
          /\ i # e => t2.map[i] = t.map[i]

------------------------------------------------------------------------------
\* Adding one to a count of a live node changes that count and nothing else.
LEMMA IncCounts ==
    ASSUME NEW t, Typed(t), NEW e \in DOMAIN t.map, NEW c \in Counts
    PROVE  /\ Typed(Inc(t, e, c))
           /\ Recounted(t, Inc(t, e, c), e)
           /\ Inc(t, e, c).map[e].count[c] = t.map[e].count[c] + 1
           /\ \A d \in Counts : d # c => Inc(t, e, c).map[e].count[d] = t.map[e].count[d]
<1> DEFINE s == [t.map[e] EXCEPT !.count[c] = @ + 1]
           m == [t.map EXCEPT ![e] = s]
<1>1. Inc(t, e, c) = [map |-> m, next_ino |-> t.next_ino, free |-> t.free]
  <2>1. t = [map |-> t.map, next_ino |-> t.next_ino, free |-> t.free]
    BY DEF Typed
  <2>2. Inc(t, e, c) = [t EXCEPT !.map = m]
    BY DEF Inc
  <2>3. QED
    BY <2>1, <2>2
<1>2. t.map[e] \in Slot
  BY DEF Typed
<1>3. s \in Slot /\ s.record = t.map[e].record /\ s.generation = t.map[e].generation
      /\ s.count = [t.map[e].count EXCEPT ![c] = @ + 1]
  BY <1>2 DEF Slot
<1>4. /\ s.count[c] = t.map[e].count[c] + 1
      /\ \A d \in Counts : d # c => s.count[d] = t.map[e].count[d]
  BY <1>2, <1>3 DEF Slot
<1>5. m \in [DOMAIN t.map -> Slot] /\ m[e] = s /\ \A i \in DOMAIN t.map : i # e => m[i] = t.map[i]
  BY <1>3 DEF Typed
<1> HIDE DEF s, m
<1>6. /\ Inc(t, e, c).map = m /\ Inc(t, e, c).next_ino = t.next_ino
      /\ Inc(t, e, c).free = t.free /\ DOMAIN m = DOMAIN t.map
  BY <1>1, <1>5
<1>7. Typed(Inc(t, e, c))
  BY <1>1, <1>5, <1>6 DEF Typed
<1>8. Recounted(t, Inc(t, e, c), e)
  BY <1>3, <1>5, <1>6 DEF Recounted
<1>9. QED
  BY <1>4, <1>5, <1>6, <1>7, <1>8

\* Subtracting from a count of a live node saturates at zero and changes that
\* count and nothing else.
LEMMA DecCounts ==
    ASSUME NEW t, Typed(t), NEW e \in DOMAIN t.map, NEW c \in Counts, NEW n \in Nat
    PROVE  /\ Typed(Dec(t, e, c, n))
           /\ Recounted(t, Dec(t, e, c, n), e)
           /\ Dec(t, e, c, n).map[e].count[c]
                  = IF t.map[e].count[c] > n THEN t.map[e].count[c] - n ELSE 0
           /\ \A d \in Counts : d # c => Dec(t, e, c, n).map[e].count[d] = t.map[e].count[d]
<1> DEFINE s == [t.map[e] EXCEPT !.count[c] = IF @ > n THEN @ - n ELSE 0]
           m == [t.map EXCEPT ![e] = s]
<1>1. Dec(t, e, c, n) = [map |-> m, next_ino |-> t.next_ino, free |-> t.free]
  BY Zenon DEF Dec, Typed, Contains
<1>2. t.map[e] \in Slot /\ t.map[e].count[c] \in Nat
  BY DEF Typed, Slot
<1>3. s \in Slot /\ s.record = t.map[e].record /\ s.generation = t.map[e].generation
      /\ s.count = [t.map[e].count EXCEPT ![c] = IF @ > n THEN @ - n ELSE 0]
  BY <1>2 DEF Slot
<1>4. /\ s.count[c] = IF t.map[e].count[c] > n THEN t.map[e].count[c] - n ELSE 0
      /\ \A d \in Counts : d # c => s.count[d] = t.map[e].count[d]
  BY <1>2, <1>3 DEF Slot
<1>5. m \in [DOMAIN t.map -> Slot] /\ m[e] = s /\ \A i \in DOMAIN t.map : i # e => m[i] = t.map[i]
  BY <1>3 DEF Typed
<1> HIDE DEF s, m
<1>6. /\ Dec(t, e, c, n).map = m /\ Dec(t, e, c, n).next_ino = t.next_ino
      /\ Dec(t, e, c, n).free = t.free /\ DOMAIN m = DOMAIN t.map
  BY <1>1, <1>5
<1>7. Typed(Dec(t, e, c, n))
  BY <1>1, <1>5, <1>6 DEF Typed
<1>8. Recounted(t, Dec(t, e, c, n), e)
  BY <1>3, <1>5, <1>6 DEF Recounted
<1>9. QED
  BY <1>4, <1>5, <1>6, <1>7, <1>8

\* Changing counts leaves the numbers accounted for.
LEMMA RecountedAccounted ==
    ASSUME NEW t, NEW t2, NEW b, NEW e, Accounted(t, b), Recounted(t, t2, e)
    PROVE  Accounted(t2, b)
<1>1. /\ \A i \in DOMAIN t2.map :
            /\ t2.map[i].record \in 1..Len(b)
            /\ b[t2.map[i].record] = [ino |-> i, generation |-> t2.map[i].generation]
      /\ \A r \in 1..Len(b) : \A i \in DOMAIN t2.map :
            b[r].ino = i => b[r].generation <= t2.map[i].generation
  BY DEF Accounted, Recounted
<1>2. DOMAIN t2.map = DOMAIN t.map /\ t2.next_ino = t.next_ino /\ t2.free = t.free
  BY DEF Recounted
<1>3. \A i \in DOMAIN t2.map : i \in 1..(t2.next_ino - 1)
  BY <1>2 DEF Accounted
<1>4. /\ \A k \in 1..Len(t2.free) :
            t2.free[k].ino \in 1..(t2.next_ino - 1) /\ t2.free[k].ino \notin DOMAIN t2.map
      /\ \A j, k \in 1..Len(t2.free) : t2.free[j].ino = t2.free[k].ino => j = k
  BY <1>2 DEF Accounted
<1>5. \A i \in 1..(t2.next_ino - 1) :
          i \in DOMAIN t2.map \/ \E k \in 1..Len(t2.free) : t2.free[k].ino = i
  BY <1>2 DEF Accounted
<1>6. /\ \A r \in 1..Len(b) : b[r].ino < t2.next_ino
      /\ \A r \in 1..Len(b) : \A k \in 1..Len(t2.free) :
            b[r].ino = t2.free[k].ino => b[r].generation < t2.free[k].generation
  BY <1>2 DEF Accounted
<1>7. b \in Seq(FreeEntry) /\ \A r, q \in 1..Len(b) : b[r] = b[q] => r = q
  BY DEF Accounted
<1>8. QED
  BY <1>1, <1>3, <1>4, <1>5, <1>6, <1>7, Zenon DEF Accounted

\* maybe_drop either changes nothing or takes out a slot without counts and
\* puts its number on the free list under the next generation.
LEMMA MaybeDropAccounted ==
    ASSUME NEW t, NEW b, NEW e, Typed(t), Accounted(t, b)
    PROVE  /\ Typed(MaybeDrop(t, e)) /\ Accounted(MaybeDrop(t, e), b)
           /\ \A i \in DOMAIN MaybeDrop(t, e).map :
                 i \in DOMAIN t.map /\ MaybeDrop(t, e).map[i] = t.map[i]
           /\ \A i \in DOMAIN t.map :
                 i \in DOMAIN MaybeDrop(t, e).map \/ (i = e /\ Droppable(t.map[e]))
           /\ TidyBut(t, e) => Tidy(MaybeDrop(t, e))
<1>1. CASE ~(e \in DOMAIN t.map /\ Droppable(t.map[e]))
  BY <1>1 DEF MaybeDrop, Contains, TidyBut, Tidy
<1>2. CASE e \in DOMAIN t.map /\ Droppable(t.map[e])
  <2> DEFINE x == [ino |-> e, generation |-> t.map[e].generation + 1]
             m == [i \in DOMAIN t.map \ {e} |-> t.map[i]]
             fr == Append(t.free, x)
             t2 == [map |-> m, next_ino |-> t.next_ino, free |-> fr]
  <2>1. MaybeDrop(t, e) = t2
    BY <1>2 DEF MaybeDrop, Contains
  <2>2. x \in FreeEntry /\ e \in 1..(t.next_ino - 1)
    BY <1>2 DEF Typed, Accounted, Slot, FreeEntry
  <2>3. /\ fr \in Seq(FreeEntry) /\ Len(fr) = Len(t.free) + 1 /\ Len(t.free) \in Nat
        /\ fr[Len(fr)] = x /\ \A k \in 1..Len(t.free) : fr[k] = t.free[k]
    BY <2>2 DEF Typed
  <2>4. /\ DOMAIN m = DOMAIN t.map \ {e} /\ \A i \in DOMAIN m : m[i] = t.map[i]
        /\ m \in [DOMAIN m -> Slot]
    BY DEF Typed
  <2>5. t2.map = m /\ t2.next_ino = t.next_ino /\ t2.free = fr /\ x.ino = e
        /\ x.generation = t.map[e].generation + 1
    OBVIOUS
  <2> HIDE DEF x, m, fr
  <2>6. Typed(t2)
    BY <2>3, <2>4 DEF Typed
  <2>7. Accounted(t2, b)
    <3>1. t.map[e].generation \in Nat /\ b \in Seq(FreeEntry) /\ Len(b) \in Nat
      BY <1>2 DEF Typed, Slot, Accounted
    <3>2. \A r \in 1..Len(b) : b[r].generation \in Nat
      <4>1. \A r \in 1..Len(b) : b[r] \in FreeEntry
        BY <3>1
      <4>2. QED
        BY <4>1 DEF FreeEntry
    <3>3. \A k \in 1..Len(fr) :
             fr[k].ino \in 1..(t.next_ino - 1) /\ fr[k].ino \notin DOMAIN m
      <4>1. SUFFICES ASSUME NEW k \in 1..Len(fr)
                     PROVE  fr[k].ino \in 1..(t.next_ino - 1) /\ fr[k].ino \notin DOMAIN m
        OBVIOUS
      <4>2. CASE k = Len(fr)
        BY <2>2, <2>3, <2>4, <2>5, <4>2
      <4>3. CASE k # Len(fr)
        <5>1. k \in 1..Len(t.free) /\ fr[k] = t.free[k]
          BY <2>3, <4>3
        <5>2. QED
          BY <2>4, <5>1 DEF Accounted
      <4>4. QED
        BY <4>2, <4>3
    <3>4. \A j, k \in 1..Len(fr) : fr[j].ino = fr[k].ino => j = k
      <4>1. SUFFICES ASSUME NEW j \in 1..Len(fr), NEW k \in 1..Len(fr),
                            fr[j].ino = fr[k].ino, j # k, j # Len(fr)
                     PROVE  FALSE
        BY <2>3, SMTT(30)
      <4>2. j \in 1..Len(t.free) /\ fr[j] = t.free[j]
        BY <2>3, <4>1
      <4>3. CASE k = Len(fr)
        BY <1>2, <2>3, <2>5, <4>1, <4>2, <4>3 DEF Accounted
      <4>4. CASE k # Len(fr)
        <5>1. k \in 1..Len(t.free) /\ fr[k] = t.free[k]
          BY <2>3, <4>4
        <5>2. QED
          BY <4>1, <4>2, <5>1 DEF Accounted
      <4>5. QED
        BY <4>3, <4>4
    <3>5. \A i \in 1..(t.next_ino - 1) :
             i \in DOMAIN m \/ \E k \in 1..Len(fr) : fr[k].ino = i
      <4>1. \A k \in 1..Len(t.free) : k \in 1..Len(fr) /\ fr[k].ino = t.free[k].ino
        BY <2>3
      <4>2. Len(fr) \in 1..Len(fr) /\ fr[Len(fr)].ino = e
        BY <2>3, <2>5
      <4>3. \A i \in 1..(t.next_ino - 1) :
               i \in DOMAIN t.map \/ \E k \in 1..Len(t.free) : t.free[k].ino = i
        BY DEF Accounted
      <4>4. QED
        BY <2>4, <4>1, <4>2, <4>3
    <3>6. \A r \in 1..Len(b) : \A k \in 1..Len(fr) :
             b[r].ino = fr[k].ino => b[r].generation < fr[k].generation
      <4>1. SUFFICES ASSUME NEW r \in 1..Len(b), NEW k \in 1..Len(fr), b[r].ino = fr[k].ino
                     PROVE  b[r].generation < fr[k].generation
        OBVIOUS
      <4>2. CASE k = Len(fr)
        <5>1. b[r].generation <= t.map[e].generation
          BY <1>2, <2>3, <2>5, <4>1, <4>2 DEF Accounted
        <5>2. QED
          <6>1. fr[k].generation = t.map[e].generation + 1
            BY <2>3, <2>5, <4>2
          <6>2. b[r].generation \in Nat
            BY <3>2
          <6>3. QED
            BY <3>1, <5>1, <6>1, <6>2
      <4>3. CASE k # Len(fr)
        <5>1. k \in 1..Len(t.free) /\ fr[k] = t.free[k]
          BY <2>3, <4>3
        <5>2. QED
          BY <4>1, <5>1 DEF Accounted
      <4>4. QED
        BY <4>2, <4>3
    <3>7. /\ \A i \in DOMAIN m : i \in 1..(t.next_ino - 1)
          /\ \A r \in 1..Len(b) : \A i \in DOMAIN m :
                b[r].ino = i => b[r].generation <= m[i].generation
          /\ \A i \in DOMAIN m :
                /\ m[i].record \in 1..Len(b)
                /\ b[m[i].record] = [ino |-> i, generation |-> m[i].generation]
      BY <2>4 DEF Accounted
    <3>8. QED
      BY <2>5, <3>3, <3>4, <3>5, <3>6, <3>7, Zenon DEF Accounted
  <2>8. QED
    BY <1>2, <2>1, <2>4, <2>5, <2>6, <2>7 DEF TidyBut, Tidy
<1>3. QED
  BY <1>1, <1>2

\* Cx::insert gives the new node a number that is not live and a generation it
\* never had.
LEMMA InsertAccounted ==
    ASSUME NEW t, NEW b, Typed(t), Accounted(t, b)
    PROVE  LET t2 == Insert(t, Len(b) + 1)
               a  == Alloc(t)
           IN  /\ Typed(t2) /\ Accounted(t2, Append(b, a))
               /\ a \in FreeEntry /\ a.ino \notin DOMAIN t.map
               /\ DOMAIN t2.map = DOMAIN t.map \cup {a.ino}
               /\ t2.map[a.ino] = NewSlot(Len(b) + 1, a.generation)
               /\ \A i \in DOMAIN t.map : t2.map[i] = t.map[i]
<1> DEFINE a == Alloc(t)
           n == IF t.free = <<>> THEN t.next_ino + 1 ELSE t.next_ino
           fr == IF t.free = <<>> THEN t.free ELSE SubSeq(t.free, 1, Len(t.free) - 1)
           r == Len(b) + 1
           m == [i \in DOMAIN t.map \cup {a.ino} |->
                    IF i = a.ino THEN NewSlot(r, a.generation) ELSE t.map[i]]
           t2 == [map |-> m, next_ino |-> n, free |-> fr]
           b2 == Append(b, a)
<1>1. Insert(t, r) = t2
  BY DEF Insert
<1>2. t.next_ino \in Nat \ {0} /\ t.free \in Seq(FreeEntry) /\ Len(t.free) \in Nat
      /\ b \in Seq(FreeEntry) /\ Len(b) \in Nat /\ r \in Nat
  BY DEF Typed, Accounted
<1>3. /\ a \in FreeEntry /\ n \in Nat \ {0} /\ fr \in Seq(FreeEntry) /\ Len(fr) \in Nat
      /\ \A k \in 1..Len(fr) : k \in 1..Len(t.free) /\ fr[k] = t.free[k]
  <2>1. CASE t.free = <<>>
    BY <1>2, <2>1 DEF Alloc, FreeEntry
  <2>2. CASE t.free # <<>>
    <3>1. Len(t.free) \in 1..Len(t.free)
      BY <1>2, <2>2
    <3>2. a \in FreeEntry
      BY <1>2, <2>2, <3>1 DEF Alloc
    <3>3. Len(fr) = Len(t.free) - 1 /\ \A k \in 1..Len(fr) : fr[k] = t.free[k]
      BY <1>2, <2>2, <3>1
    <3>4. fr \in Seq(FreeEntry)
      BY <1>2, <2>2, <3>1
    <3>5. QED
      BY <1>2, <2>2, <3>2, <3>3, <3>4
  <2>3. QED
    BY <2>1, <2>2
<1>4. a.ino \in Nat /\ a.generation \in Nat
  BY <1>3 DEF FreeEntry
<1>5. a.ino \notin DOMAIN t.map /\ a.ino \in 1..(n - 1) /\ n >= t.next_ino
      /\ \A k \in 1..Len(fr) : fr[k].ino # a.ino
  <2>1. CASE t.free = <<>>
    BY <1>2, <2>1 DEF Alloc, Accounted
  <2>2. CASE t.free # <<>>
    <3>1. a = t.free[Len(t.free)] /\ Len(t.free) \in 1..Len(t.free) /\ n = t.next_ino
      BY <1>2, <2>2 DEF Alloc
    <3>2. \A k \in 1..Len(fr) : k # Len(t.free)
      BY <1>2, <2>2
    <3>3. \A k \in 1..Len(fr) : fr[k].ino # a.ino
      BY <1>3, <3>1, <3>2 DEF Accounted
    <3>4. QED
      BY <1>2, <3>1, <3>3 DEF Accounted
  <2>3. QED
    BY <2>1, <2>2
<1>6. \A q \in 1..Len(b) : b[q].ino = a.ino => b[q].generation < a.generation
  <2>1. CASE t.free = <<>>
    BY <1>2, <2>1 DEF Alloc, Accounted
  <2>2. CASE t.free # <<>>
    <3>1. a = t.free[Len(t.free)] /\ Len(t.free) \in 1..Len(t.free)
      BY <1>2, <2>2 DEF Alloc
    <3>2. QED
      BY <3>1 DEF Accounted
  <2>3. QED
    BY <2>1, <2>2
<1>7. \A i \in 1..(n - 1) :
         i = a.ino \/ i \in DOMAIN t.map \/ \E k \in 1..Len(fr) : fr[k].ino = i
  <2>1. CASE t.free = <<>>
    <3>1. n = t.next_ino + 1 /\ a.ino = t.next_ino
      BY <2>1 DEF Alloc
    <3>2. \A i \in 1..(t.next_ino - 1) : i \in DOMAIN t.map
      BY <1>2, <2>1 DEF Accounted
    <3>3. QED
      BY <1>2, <3>1, <3>2
  <2>2. CASE t.free # <<>>
    <3>1. a = t.free[Len(t.free)] /\ n = t.next_ino /\ Len(fr) = Len(t.free) - 1
      BY <1>2, <2>2 DEF Alloc
    <3>2. \A k \in 1..Len(t.free) : k = Len(t.free) \/ (k \in 1..Len(fr) /\ fr[k] = t.free[k])
      BY <1>2, <1>3, <3>1
    <3>3. QED
      BY <3>1, <3>2 DEF Accounted
  <2>3. QED
    BY <2>1, <2>2
<1>8. NewSlot(r, a.generation) \in Slot
      /\ NewSlot(r, a.generation).record = r
      /\ NewSlot(r, a.generation).generation = a.generation
  BY <1>2, <1>4 DEF NewSlot, Slot
<1>9. /\ DOMAIN m = DOMAIN t.map \cup {a.ino} /\ m \in [DOMAIN m -> Slot]
      /\ m[a.ino] = NewSlot(r, a.generation) /\ \A i \in DOMAIN t.map : m[i] = t.map[i]
  BY <1>5, <1>8 DEF Typed
<1>10. /\ b2 \in Seq(FreeEntry) /\ Len(b2) = r /\ b2[r] = a
       /\ \A q \in 1..Len(b) : b2[q] = b[q]
  BY <1>2, <1>3
<1>11. t2.map = m /\ t2.next_ino = n /\ t2.free = fr
  OBVIOUS
<1>12. a = [ino |-> a.ino, generation |-> a.generation]
  BY <1>3 DEF FreeEntry
<1>13. r = Len(b) + 1
  OBVIOUS
<1> HIDE DEF a, n, fr, r, m, b2
<1>14. Typed(t2)
  BY <1>3, <1>9 DEF Typed
<1>15. Accounted(t2, b2)
  <2>1. \A i \in DOMAIN m : i \in 1..(n - 1)
    BY <1>2, <1>3, <1>5, <1>9 DEF Accounted
  <2>2. \A k \in 1..Len(fr) : fr[k].ino \in 1..(n - 1) /\ fr[k].ino \notin DOMAIN m
    <3>1. SUFFICES ASSUME NEW k \in 1..Len(fr)
                   PROVE  fr[k].ino \in 1..(n - 1) /\ fr[k].ino \notin DOMAIN m
      OBVIOUS
    <3>2. fr[k].ino \in 1..(t.next_ino - 1) /\ fr[k].ino \notin DOMAIN t.map
      BY <1>3 DEF Accounted
    <3>3. fr[k].ino # a.ino
      BY <1>5
    <3>4. QED
      BY <1>2, <1>3, <1>5, <1>9, <3>2, <3>3
  <2>3. \A j, k \in 1..Len(fr) : fr[j].ino = fr[k].ino => j = k
    BY <1>3 DEF Accounted
  <2>4. \A q \in 1..Len(b2) : q = r \/ (q \in 1..Len(b) /\ b2[q] = b[q])
    BY <1>2, <1>10, <1>13
  <2>5. \A q \in 1..Len(b) : b[q] \in FreeEntry /\ b[q].ino \in Nat /\ b[q].generation \in Nat
    <3>1. \A q \in 1..Len(b) : b[q] \in FreeEntry
      BY <1>2
    <3>2. QED
      BY <3>1 DEF FreeEntry
  <2>6. \A q \in 1..Len(b2) : b2[q].ino < n
    <3>1. \A q \in 1..Len(b) : b[q].ino < n
      BY <1>2, <1>3, <1>5, <2>5 DEF Accounted
    <3>2. a.ino < n
      BY <1>3, <1>4, <1>5
    <3>3. QED
      BY <1>10, <2>4, <3>1, <3>2
  <2>7. \A q \in 1..Len(b2) : \A k \in 1..Len(fr) :
           b2[q].ino = fr[k].ino => b2[q].generation < fr[k].generation
    BY <1>3, <1>5, <1>10, <2>4, Zenon DEF Accounted
  <2>8. \A q \in 1..Len(b2) : \A i \in DOMAIN m :
           b2[q].ino = i => b2[q].generation <= m[i].generation
    <3>1. SUFFICES ASSUME NEW q \in 1..Len(b2)
                   PROVE  b2[q].ino \in DOMAIN m => b2[q].generation <= m[b2[q].ino].generation
      OBVIOUS
    <3>2. CASE q = r
      BY <1>4, <1>8, <1>9, <1>10, <3>2
    <3>3. CASE q \in 1..Len(b) /\ b2[q] = b[q]
      <4>1. CASE b[q].ino = a.ino
        BY <1>4, <1>6, <1>8, <1>9, <2>5, <3>3, <4>1
      <4>2. CASE b[q].ino # a.ino
        BY <1>9, <3>3, <4>2 DEF Accounted
      <4>3. QED
        BY <4>1, <4>2
    <3>4. QED
      BY <2>4, <3>2, <3>3
  <2>9. \A i \in DOMAIN m :
           /\ m[i].record \in 1..Len(b2)
           /\ b2[m[i].record] = [ino |-> i, generation |-> m[i].generation]
    <3>1. SUFFICES ASSUME NEW i \in DOMAIN m
                   PROVE  /\ m[i].record \in 1..Len(b2)
                          /\ b2[m[i].record] = [ino |-> i, generation |-> m[i].generation]
      OBVIOUS
    <3>2. CASE i = a.ino
      BY <1>2, <1>8, <1>9, <1>10, <1>12, <1>13, <3>2
    <3>3. CASE i # a.ino
      BY <1>2, <1>9, <1>10, <1>13, <3>3 DEF Accounted
    <3>4. QED
      BY <3>2, <3>3
  <2>10. \A p, q \in 1..Len(b2) : b2[p] = b2[q] => p = q
    <3>1. \A q \in 1..Len(b) : b[q] # a
      BY <1>4, <1>6, <2>5
    <3>2. QED
      BY <1>10, <2>4, <3>1 DEF Accounted
  <2>11. QED
    BY <1>10, <1>11, <2>1, <2>2, <2>3, <1>7, <1>9, <2>6, <2>7, <2>8, <2>9, <2>10, ZenonT(30)
       DEF Accounted
<1>16. QED
  BY <1>1, <1>3, <1>5, <1>9, <1>11, <1>14, <1>15 DEF a, r, b2

------------------------------------------------------------------------------
(* NodeRefs. A reference to no record is none.                               *)

NoReference == [ino |-> 0, record |-> 0]

\* The holders of a reference to number i.
Held(f, i) == {p \in DOMAIN f : f[p].ino = i /\ f[p].record # 0}

\* Lease counts are exact, and a reference leads to the record it was taken on.
Leased(t, f) ==
    /\ \A i \in DOMAIN t.map : t.map[i].count["leases"] = Cardinality(Held(f, i))
    /\ \A p \in DOMAIN f : f[p].record # 0 =>
          f[p].ino \in DOMAIN t.map /\ t.map[f[p].ino].record = f[p].record

Sound(t, b, f) == Typed(t) /\ Accounted(t, b) /\ Tidy(t) /\ Leased(t, f)

\* Changing a count other than leases leaves the leases as they were.
LEMMA RecountedLeased ==
    ASSUME NEW t, NEW t2, NEW f, NEW e \in DOMAIN t.map, Leased(t, f), Recounted(t, t2, e),
           t2.map[e].count["leases"] = t.map[e].count["leases"]
    PROVE  Leased(t2, f)
  BY DEF Leased, Recounted

\* Every other slot is as reclaimable as it was.
LEMMA RecountedTidy ==
    ASSUME NEW t, NEW t2, NEW e \in DOMAIN t.map, Tidy(t), Recounted(t, t2, e)
    PROVE  /\ TidyBut(t2, e)
           /\ ~Droppable(t2.map[e]) => Tidy(t2)
  BY DEF Tidy, TidyBut, Recounted

\* A slot with a positive count stays.
LEMMA CountedStays ==
    ASSUME NEW t, NEW e, NEW c \in Counts, t.map[e].count[c] # 0
    PROVE  ~Droppable(t.map[e])
  BY DEF Droppable

\* add_link, add_open and retain_lookup of a live node.
LEMMA IncSound ==
    ASSUME NEW t, NEW b, NEW f, Sound(t, b, f), NEW e \in DOMAIN t.map,
           NEW c \in Counts \ {"leases"}
    PROVE  Sound(Inc(t, e, c), b, f)
<1>1. /\ Typed(Inc(t, e, c)) /\ Recounted(t, Inc(t, e, c), e)
      /\ Inc(t, e, c).map[e].count[c] = t.map[e].count[c] + 1
      /\ Inc(t, e, c).map[e].count["leases"] = t.map[e].count["leases"]
  BY IncCounts DEF Sound, Counts
<1>2. t.map[e].count[c] \in Nat
  BY DEF Sound, Typed, Slot
<1>3. ~Droppable(Inc(t, e, c).map[e])
  BY <1>1, <1>2, CountedStays
<1>4. Accounted(Inc(t, e, c), b)
  BY <1>1, RecountedAccounted DEF Sound
<1>5. Tidy(Inc(t, e, c))
  BY <1>1, <1>3, RecountedTidy DEF Sound
<1>6. Leased(Inc(t, e, c), f)
  BY <1>1, RecountedLeased DEF Sound
<1>7. QED
  BY <1>1, <1>4, <1>5, <1>6 DEF Sound

\* maybe_drop takes out no node that a reference leads to.
LEMMA MaybeDropSound ==
    ASSUME NEW t, NEW b, NEW f, NEW e, Typed(t), Accounted(t, b), TidyBut(t, e), Leased(t, f),
           IsFiniteSet(DOMAIN f)
    PROVE  Sound(MaybeDrop(t, e), b, f)
<1> DEFINE t2 == MaybeDrop(t, e)
<1>1. /\ Typed(t2) /\ Accounted(t2, b) /\ Tidy(t2)
      /\ \A i \in DOMAIN t2.map : i \in DOMAIN t.map /\ t2.map[i] = t.map[i]
      /\ \A i \in DOMAIN t.map : i \in DOMAIN t2.map \/ (i = e /\ Droppable(t.map[e]))
  <2>1. Typed(t2) /\ Accounted(t2, b)
    BY MaybeDropAccounted
  <2>2. \A i \in DOMAIN t2.map : i \in DOMAIN t.map /\ t2.map[i] = t.map[i]
    BY DEF MaybeDrop, Contains
  <2>3. \A i \in DOMAIN t.map : i \in DOMAIN t2.map \/ (i = e /\ Droppable(t.map[e]))
    BY MaybeDropAccounted, Zenon
  <2>4. Tidy(t2)
    BY MaybeDropAccounted, Zenon
  <2>5. QED
    BY <2>1, <2>2, <2>3, <2>4
<1> HIDE DEF t2
<1>2. e \in DOMAIN t.map /\ Droppable(t.map[e]) => Held(f, e) = {}
  <2>1. SUFFICES ASSUME e \in DOMAIN t.map, Droppable(t.map[e])
                 PROVE  Held(f, e) = {}
    OBVIOUS
  <2>2. Cardinality(Held(f, e)) = 0
    BY <2>1 DEF Leased, Droppable, Counts
  <2>3. IsFiniteSet(Held(f, e))
    BY FS_Subset DEF Held
  <2>4. QED
    BY <2>2, <2>3, FS_EmptySet
<1>3. \A p \in DOMAIN f : f[p].record # 0 =>
         f[p].ino \in DOMAIN t2.map /\ t2.map[f[p].ino].record = f[p].record
  BY <1>1, <1>2 DEF Leased, Held
<1>4. Leased(t2, f)
  BY <1>1, <1>3 DEF Leased
<1>5. QED
  BY <1>1, <1>4 DEF Sound, t2

\* A table without reclaimable slots is left as it is.
LEMMA MaybeDropIdle ==
    ASSUME NEW t, NEW e, Tidy(t)
    PROVE  MaybeDrop(t, e) = t
  BY DEF MaybeDrop, Contains, Tidy

\* remove_link and remove_open.
LEMMA DecSound ==
    ASSUME NEW t, NEW b, NEW f, Sound(t, b, f), IsFiniteSet(DOMAIN f), NEW e,
           NEW c \in Counts \ {"leases"}, NEW n \in Nat
    PROVE  Sound(MaybeDrop(Dec(t, e, c, n), e), b, f)
<1>1. CASE e \notin DOMAIN t.map
  <2>1. Dec(t, e, c, n) = t
    BY <1>1 DEF Dec, Contains
  <2>2. MaybeDrop(t, e) = t
    BY MaybeDropIdle DEF Sound
  <2>3. QED
    BY <2>1, <2>2
<1>2. CASE e \in DOMAIN t.map
  <2> DEFINE t1 == Dec(t, e, c, n)
  <2>1. /\ Typed(t1) /\ Recounted(t, t1, e)
        /\ t1.map[e].count["leases"] = t.map[e].count["leases"]
    BY <1>2, DecCounts DEF Sound, Counts
  <2> HIDE DEF t1
  <2>2. Accounted(t1, b) /\ TidyBut(t1, e) /\ Leased(t1, f)
    BY <1>2, <2>1, RecountedAccounted, RecountedTidy, RecountedLeased DEF Sound
  <2>3. Sound(MaybeDrop(t1, e), b, f)
    BY <2>1, <2>2, MaybeDropSound
  <2>4. QED
    BY <2>3 DEF t1
<1>3. QED
  BY <1>1, <1>2

\* Cx::insert: the new node has one link and no reference leads to it.
LEMMA InsertSound ==
    ASSUME NEW t, NEW b, NEW f, Sound(t, b, f), IsFiniteSet(DOMAIN f)
    PROVE  Sound(Insert(t, Len(b) + 1), Append(b, Alloc(t)), f)
<1> DEFINE t2 == Insert(t, Len(b) + 1)
           a == Alloc(t)
<1>1. /\ Typed(t2) /\ Accounted(t2, Append(b, a)) /\ a.ino \notin DOMAIN t.map
      /\ DOMAIN t2.map = DOMAIN t.map \cup {a.ino}
      /\ t2.map[a.ino] = NewSlot(Len(b) + 1, a.generation)
      /\ \A i \in DOMAIN t.map : t2.map[i] = t.map[i]
  BY InsertAccounted DEF Sound
<1> HIDE DEF t2, a
<1>2. t2.map[a.ino].count["links"] = 1 /\ t2.map[a.ino].count["leases"] = 0
  BY <1>1 DEF NewSlot, Counts
<1>3. Tidy(t2)
  <2>1. ~Droppable(t2.map[a.ino])
    BY <1>2, CountedStays DEF Counts
  <2>2. QED
    BY <1>1, <2>1 DEF Sound, Tidy
<1>4. Held(f, a.ino) = {}
  BY <1>1 DEF Sound, Leased, Held
<1>5. Leased(t2, f)
  <2>1. Cardinality(Held(f, a.ino)) = 0
    BY <1>4, FS_EmptySet
  <2>2. \A i \in DOMAIN t2.map : t2.map[i].count["leases"] = Cardinality(Held(f, i))
    BY <1>1, <1>2, <2>1 DEF Sound, Leased
  <2>3. QED
    BY <1>1, <2>2 DEF Sound, Leased
<1>6. QED
  BY <1>1, <1>3, <1>5 DEF Sound, t2, a

\* Giving holder p a reference to i adds it to the holders of i and to no others.
LEMMA HeldTaken ==
    ASSUME NEW f, NEW p \in DOMAIN f, f[p].record = 0, NEW x, x.record # 0,
           IsFiniteSet(DOMAIN f), NEW f2, f2 = [f EXCEPT ![p] = x]
    PROVE  /\ Cardinality(Held(f2, x.ino)) = Cardinality(Held(f, x.ino)) + 1
           /\ \A i : i # x.ino => Held(f2, i) = Held(f, i)
<1>1. Held(f2, x.ino) = Held(f, x.ino) \cup {p} /\ p \notin Held(f, x.ino)
  BY DEF Held
<1>2. IsFiniteSet(Held(f, x.ino))
  BY FS_Subset DEF Held
<1>3. Cardinality(Held(f2, x.ino)) = Cardinality(Held(f, x.ino)) + 1
  BY <1>1, <1>2, FS_AddElement, Zenon
<1>4. \A i : i # x.ino => Held(f2, i) = Held(f, i)
  BY DEF Held
<1>5. QED
  BY <1>3, <1>4, Zenon

\* Taking p's reference to i away removes it from the holders of i and no others.
LEMMA HeldDropped ==
    ASSUME NEW f, NEW p \in DOMAIN f, f[p].record # 0, IsFiniteSet(DOMAIN f),
           NEW f2, f2 = [f EXCEPT ![p] = NoReference]
    PROVE  /\ Cardinality(Held(f2, f[p].ino)) = Cardinality(Held(f, f[p].ino)) - 1
           /\ \A i : i # f[p].ino => Held(f2, i) = Held(f, i)
<1>1. Held(f2, f[p].ino) = Held(f, f[p].ino) \ {p} /\ p \in Held(f, f[p].ino)
  BY DEF Held, NoReference
<1>2. IsFiniteSet(Held(f, f[p].ino))
  BY FS_Subset DEF Held
<1>3. Cardinality(Held(f2, f[p].ino)) = Cardinality(Held(f, f[p].ino)) - 1
  BY <1>1, <1>2, FS_RemoveElement, Zenon
<1>4. \A i : i # f[p].ino => Held(f2, i) = Held(f, i)
  BY DEF Held, NoReference
<1>5. QED
  BY <1>3, <1>4, Zenon

\* A lease counted for a new reference keeps the leases exact.
LEMMA TakeLeased ==
    ASSUME NEW t, NEW t2, NEW f, Leased(t, f), IsFiniteSet(DOMAIN f), NEW e \in DOMAIN t.map,
           NEW p \in DOMAIN f, f[p].record = 0, t.map[e].record # 0, Recounted(t, t2, e),
           t2.map[e].count["leases"] = t.map[e].count["leases"] + 1
    PROVE  Leased(t2, [f EXCEPT ![p] = [ino |-> e, record |-> t.map[e].record]])
<1> DEFINE x == [ino |-> e, record |-> t.map[e].record]
           f2 == [f EXCEPT ![p] = x]
<1>1. x.record # 0 /\ x.ino = e /\ x.record = t.map[e].record /\ f2 = [f EXCEPT ![p] = x]
  OBVIOUS
<1> HIDE DEF x, f2
<1>2. DOMAIN f2 = DOMAIN f /\ f2[p] = x /\ \A q \in DOMAIN f : q # p => f2[q] = f[q]
  BY <1>1
<1>3. Cardinality(Held(f2, x.ino)) = Cardinality(Held(f, x.ino)) + 1
  BY <1>1, HeldTaken, Zenon
<1>4. \A i : i # x.ino => Held(f2, i) = Held(f, i)
  BY <1>1 DEF Held
<1>5. \A i \in DOMAIN t2.map : t2.map[i].count["leases"] = Cardinality(Held(f2, i))
  <2>1. t2.map[e].count["leases"] = Cardinality(Held(f2, e))
    BY <1>1, <1>3 DEF Leased
  <2>2. \A i \in DOMAIN t2.map : i \in DOMAIN t.map /\ (i # e => t2.map[i] = t.map[i])
    BY DEF Recounted
  <2>3. \A i \in DOMAIN t.map : t.map[i].count["leases"] = Cardinality(Held(f, i))
    BY DEF Leased
  <2>4. ASSUME NEW i \in DOMAIN t2.map, i # e
        PROVE  t2.map[i].count["leases"] = Cardinality(Held(f2, i))
    <3>1. Held(f2, i) = Held(f, i)
      BY <1>1, <1>4, <2>4, Zenon
    <3>2. QED
      BY <2>2, <2>3, <2>4, <3>1
  <2>5. QED
    BY <2>1, <2>4
<1>6. \A q \in DOMAIN f2 : f2[q].record # 0 =>
         f2[q].ino \in DOMAIN t2.map /\ t2.map[f2[q].ino].record = f2[q].record
  <2>1. \A i \in DOMAIN t.map : i \in DOMAIN t2.map /\ t2.map[i].record = t.map[i].record
    BY DEF Recounted
  <2>2. \A q \in DOMAIN f : f[q].record # 0 =>
           f[q].ino \in DOMAIN t.map /\ t.map[f[q].ino].record = f[q].record
    BY DEF Leased
  <2>3. QED
    BY <1>1, <1>2, <2>1, <2>2
<1>7. QED
  BY <1>5, <1>6, Zenon DEF Leased, x, f2

\* The record of a live node is a number other than zero.
LEMMA RecordPositive ==
    ASSUME NEW t, NEW b, Typed(t), Accounted(t, b), NEW e \in DOMAIN t.map
    PROVE  t.map[e].record # 0 /\ \A c \in Counts : t.map[e].count[c] \in Nat
<1>1. t.map[e] \in Slot
  BY DEF Typed
<1>2. t.map[e].record \in 1..Len(b)
  BY Zenon DEF Accounted
<1>3. QED
  BY <1>1, <1>2 DEF Slot

\* Cx::get of a live node.
LEMMA GetSound ==
    ASSUME NEW t, NEW b, NEW f, Sound(t, b, f), IsFiniteSet(DOMAIN f), NEW e \in DOMAIN t.map,
           NEW p \in DOMAIN f, f[p].record = 0
    PROVE  Sound(Get(t, e), b, [f EXCEPT ![p] = [ino |-> e, record |-> t.map[e].record]])
<1> DEFINE t2 == Get(t, e)
<1>1. /\ Typed(t2) /\ Recounted(t, t2, e)
      /\ t2.map[e].count["leases"] = t.map[e].count["leases"] + 1
  BY IncCounts DEF Sound, Counts, Get
<1>2. t.map[e].record # 0 /\ t.map[e].count["leases"] \in Nat
  BY RecordPositive DEF Sound, Counts
<1> HIDE DEF t2
<1>3. Accounted(t2, b)
  BY <1>1, RecountedAccounted DEF Sound
<1>4. Tidy(t2)
  <2>1. ~Droppable(t2.map[e])
    BY <1>1, <1>2, CountedStays DEF Counts
  <2>2. QED
    BY <1>1, <2>1, RecountedTidy DEF Sound
<1>5. Leased(t2, [f EXCEPT ![p] = [ino |-> e, record |-> t.map[e].record]])
  BY <1>1, <1>2, TakeLeased DEF Sound
<1>6. QED
  BY <1>1, <1>3, <1>4, <1>5 DEF Sound, t2

\* Drop for NodeRef: the count goes down by one, and the node goes with its
\* last count.
LEMMA DropRefSound ==
    ASSUME NEW t, NEW b, NEW f, Sound(t, b, f), IsFiniteSet(DOMAIN f),
           NEW p \in DOMAIN f, f[p].record # 0
    PROVE  Sound(DropRef(t, f[p].ino, f[p].record), b, [f EXCEPT ![p] = NoReference])
<1> DEFINE e == f[p].ino
           f2 == [f EXCEPT ![p] = NoReference]
           t1 == Dec(t, e, "leases", 1)
<1>1. e \in DOMAIN t.map /\ t.map[e].record = f[p].record
  BY DEF Sound, Leased
<1>2. DropRef(t, e, f[p].record) = MaybeDrop(t1, e)
  BY <1>1 DEF DropRef, Contains
<1>3. /\ Typed(t1) /\ Recounted(t, t1, e)
      /\ t1.map[e].count["leases"]
             = IF t.map[e].count["leases"] > 1 THEN t.map[e].count["leases"] - 1 ELSE 0
  <2>1. Typed(t) /\ "leases" \in Counts
    BY DEF Sound, Counts
  <2>2. QED
    BY <1>1, <2>1, DecCounts
<1>4. f2 = [f EXCEPT ![p] = NoReference] /\ e = f[p].ino
  OBVIOUS
<1> HIDE DEF e, f2, t1
<1>5. /\ DOMAIN f2 = DOMAIN f /\ f2[p].record = 0
      /\ \A q \in DOMAIN f : q # p => f2[q] = f[q]
  BY <1>4 DEF NoReference
<1>6. Cardinality(Held(f2, e)) = Cardinality(Held(f, e)) - 1
  BY <1>4, HeldDropped, Zenon
<1>7. \A i : i # e => Held(f2, i) = Held(f, i)
  BY <1>4, <1>5 DEF Held
<1>8. t1.map[e].count["leases"] = Cardinality(Held(f2, e))
  <2>1. t.map[e].count["leases"] = Cardinality(Held(f, e))
    BY <1>1 DEF Sound, Leased
  <2>2. IsFiniteSet(Held(f2, e)) /\ IsFiniteSet(Held(f, e))
    BY <1>5, FS_Subset DEF Held
  <2>3. Cardinality(Held(f2, e)) \in Nat /\ Cardinality(Held(f, e)) \in Nat
    BY <2>2, FS_CardinalityType
  <2>4. QED
    BY <1>3, <1>6, <2>1, <2>3
<1>9. Leased(t1, f2)
  <2>1. \A i \in DOMAIN t1.map : i \in DOMAIN t.map /\ (i # e => t1.map[i] = t.map[i])
    BY <1>3 DEF Recounted
  <2>2. \A i \in DOMAIN t1.map : t1.map[i].count["leases"] = Cardinality(Held(f2, i))
    BY <1>7, <1>8, <2>1 DEF Sound, Leased
  <2>3. \A i \in DOMAIN t.map : i \in DOMAIN t1.map /\ t1.map[i].record = t.map[i].record
    BY <1>3 DEF Recounted
  <2>4. \A q \in DOMAIN f2 : f2[q].record # 0 =>
           f2[q].ino \in DOMAIN t1.map /\ t1.map[f2[q].ino].record = f2[q].record
    BY <1>5, <2>3 DEF Sound, Leased
  <2>5. QED
    BY <2>2, <2>4 DEF Leased
<1>10. Accounted(t1, b) /\ TidyBut(t1, e)
  BY <1>1, <1>3, RecountedAccounted, RecountedTidy DEF Sound
<1>11. Sound(MaybeDrop(t1, e), b, f2)
  BY <1>3, <1>5, <1>9, <1>10, MaybeDropSound
<1>12. QED
  BY <1>2, <1>11 DEF e, f2

\* The first critical section of forget: if the last lookup goes, the node is
\* leased for the callback; otherwise a lookup, or what held the node before,
\* keeps it.
LEMMA ForgetSound ==
    ASSUME NEW t, NEW b, NEW f, Sound(t, b, f), IsFiniteSet(DOMAIN f), NEW e \in DOMAIN t.map,
           NEW n \in Nat, NEW p \in DOMAIN f, f[p].record = 0
    PROVE  IF ForgetsLast(t, e, n)
           THEN Sound(ForgetLookups(t, e, n), b,
                      [f EXCEPT ![p] = [ino |-> e, record |-> t.map[e].record]])
           ELSE Sound(ForgetLookups(t, e, n), b, f)
<1> DEFINE t1 == Dec(t, e, "lookups", n)
<1>1. /\ Typed(t1) /\ Recounted(t, t1, e)
      /\ t1.map[e].count["lookups"]
             = IF t.map[e].count["lookups"] > n THEN t.map[e].count["lookups"] - n ELSE 0
      /\ \A d \in Counts : d # "lookups" => t1.map[e].count[d] = t.map[e].count[d]
  BY DecCounts DEF Sound, Counts
<1>2. t1.map[e].count["leases"] = t.map[e].count["leases"] /\ t.map[e].count["lookups"] \in Nat
      /\ t1.map[e].record = t.map[e].record /\ e \in DOMAIN t1.map
  <2>1. t.map[e] \in Slot
    BY DEF Sound, Typed
  <2>2. QED
    BY <1>1, <2>1 DEF Counts, Slot, Recounted
<1> HIDE DEF t1
<1>3. Accounted(t1, b) /\ Leased(t1, f)
  BY <1>1, <1>2, RecountedAccounted, RecountedLeased DEF Sound
<1>4. CASE ForgetsLast(t, e, n)
  <2> DEFINE x == [ino |-> e, record |-> t.map[e].record]
             f2 == [f EXCEPT ![p] = x]
             t2 == Get(t1, e)
  <2>1. ForgetLookups(t, e, n) = t2
    BY <1>4, SMTT(30) DEF ForgetLookups, t1
  <2>2. /\ Typed(t2) /\ Recounted(t1, t2, e)
        /\ t2.map[e].count["leases"] = t1.map[e].count["leases"] + 1
    BY <1>1, <1>2, IncCounts, Zenon DEF Counts, Get
  <2>3. TidyBut(t1, e)
    BY <1>1, RecountedTidy DEF Sound
  <2> HIDE DEF t2, f2, x
  <2>4. QED
    <3>1. Tidy(t2)
      <4>1. t1.map[e].count["leases"] \in Nat
        BY <1>1, <1>2 DEF Typed, Slot, Counts
      <4>2. ~Droppable(t2.map[e])
        BY <2>2, <4>1, CountedStays DEF Counts
      <4>3. QED
        BY <2>2, <2>3, <4>2 DEF Tidy, TidyBut, Recounted
    <3>2. Accounted(t2, b)
      BY <1>3, <2>2, RecountedAccounted
    <3>3. Leased(t2, f2)
      <4>1. t1.map[e].record # 0
        BY <1>2, RecordPositive DEF Sound
      <4>2. Leased(t2, [f EXCEPT ![p] = [ino |-> e, record |-> t1.map[e].record]])
        BY <1>2, <1>3, <2>2, <4>1, TakeLeased
      <4>3. QED
        BY <1>2, <4>2 DEF f2, x
    <3>4. QED
      BY <1>4, <2>1, <2>2, <3>1, <3>2, <3>3 DEF Sound, f2, x
<1>5. CASE ~ForgetsLast(t, e, n)
  <2>1. ForgetLookups(t, e, n) = t1
    BY <1>5 DEF ForgetLookups, t1
  <2>2. ~Droppable(t1.map[e])
    <3>1. ~Droppable(t.map[e])
      BY DEF Sound, Tidy
    <3>2. t1.map[e].count["lookups"] = 0 => t.map[e].count["lookups"] = 0
      BY <1>1, <1>2, <1>5 DEF ForgetsLast
    <3>3. QED
      BY <1>1, <3>1, <3>2 DEF Droppable, Counts
  <2>3. Tidy(t1)
    BY <1>1, <2>2, RecountedTidy DEF Sound
  <2>4. QED
    BY <1>1, <1>3, <1>5, <2>1, <2>3 DEF Sound
<1>6. QED
  BY <1>4, <1>5

\* A new table, which holds the root alone and is leased by nobody.
LEMMA NewTableSound ==
    ASSUME NEW f, IsFiniteSet(DOMAIN f), \A p \in DOMAIN f : f[p] = NoReference
    PROVE  Sound(NewTable, <<[ino |-> ROOT, generation |-> 0]>>, f)
<1> DEFINE t == NewTable
           b == <<[ino |-> ROOT, generation |-> 0]>>
<1>1. /\ t = [map |-> t.map, next_ino |-> t.next_ino, free |-> t.free]
      /\ DOMAIN t.map = {1} /\ t.map[1] = NewSlot(1, 0) /\ t.next_ino = 2 /\ t.free = <<>>
  BY DEF NewTable, ROOT
<1>2. /\ NewSlot(1, 0) \in Slot /\ NewSlot(1, 0).count["links"] = 1
      /\ NewSlot(1, 0).count["leases"] = 0
      /\ NewSlot(1, 0).record = 1 /\ NewSlot(1, 0).generation = 0
  BY DEF NewSlot, Slot, Counts
<1>3. b \in Seq(FreeEntry) /\ Len(b) = 1 /\ b[1] = [ino |-> 1, generation |-> 0]
  BY DEF FreeEntry, ROOT
<1>4. t.map = [i \in {1} |-> NewSlot(1, 0)]
  BY DEF NewTable, ROOT
<1> HIDE DEF t, b
<1>5. Typed(t)
  <2>1. t.map \in [{1} -> Slot]
    BY <1>2, <1>4
  <2>2. <<>> \in Seq(FreeEntry)
    OBVIOUS
  <2>3. QED
    BY <1>1, <2>1, <2>2 DEF Typed
<1>6. Accounted(t, b)
  <2>1. Len(t.free) = 0 /\ 1..Len(t.free) = {} /\ 1..(t.next_ino - 1) = {1} /\ 1..Len(b) = {1}
    BY <1>1, <1>3
  <2>2. QED
    BY <1>1, <1>2, <1>3, <2>1 DEF Accounted
<1>7. Tidy(t)
  BY <1>1, <1>2 DEF Tidy, Droppable, Counts
<1>8. Leased(t, f)
  <2>1. \A p \in DOMAIN f : f[p].record = 0
    BY DEF NoReference
  <2>2. \A i : Held(f, i) = {}
    BY <2>1 DEF Held
  <2>3. Cardinality({}) = 0
    BY FS_EmptySet
  <2>4. QED
    BY <1>1, <1>2, <2>1, <2>2, <2>3, Zenon DEF Leased
<1>9. QED
  BY <1>5, <1>6, <1>7, <1>8 DEF Sound, t, b

==============================================================================
