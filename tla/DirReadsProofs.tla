--------------------------- MODULE DirReadsProofs ----------------------------
(***************************************************************************)
(* Theorems about DirReads, for any set of names and streams and any limits. *)
(* ListingsInv says that every listing retained or read was taken from the  *)
(* directory under its own number, so that a page never shows an entry the  *)
(* directory does not hold. StreamsInv says where a stream stands in the    *)
(* listing it reads, and what it has been sent of it; it holds while the    *)
(* generations of the cookies have not come round (Fresh).                  *)
(***************************************************************************)
EXTENDS DirReads, TLAPS, FiniteSetTheorems, WellFoundedInduction

\* An entry of a listing.
DirEntry == [name : Names, obj : Nat]

\* A listing, as list_directory takes it.
Listing == [serial : Nat, generation : Nat, epoch : Nat, attrs : BOOLEAN, entries : Seq(DirEntry)]

\* What a reader of the directory is doing, and what it has been sent.
Stream ==
    [pc : {"idle", "list", "replay", "filled"}, offset : Nat, listing : Listing, start : Nat,
     owned : BOOLEAN, page : SUBSET DirEntry, unsure : SUBSET DirEntry, ended : BOOLEAN,
     serial : Nat, own : BOOLEAN, kept : BOOLEAN, seen : SUBSET Names, stable : SUBSET Names]

\* The listings the handle retains.
Held(d) == {d.retained[k] : k \in DOMAIN d.retained}

\* A listing is retained once.
Once(r) == \A j, k \in DOMAIN r : r[j].serial = r[k].serial => j = k

\* A listing that was taken: its number tells its generation, its names are
\* distinct, and until the directory changes it says what the directory holds.
TakenIn(l, count, now, holds) ==
    /\ l.serial \in 1..count /\ l.generation = (l.serial - 1) % COOKIE_GENERATIONS
    /\ l.epoch <= now /\ Len(l.entries) <= MAX_LISTING_LEN
    /\ \A j, k \in DOMAIN l.entries : l.entries[j].name = l.entries[k].name => j = k
    /\ l.epoch = now => \A k \in DOMAIN l.entries :
          holds[l.entries[k].name] # 0 /\ holds[l.entries[k].name] = l.entries[k].obj

\* ... of the directory as it is.
Taken(l) == TakenIn(l, serials, epoch, dir)

\* The read in flight has a listing.
Reading(x) == x.pc \in {"replay", "filled"}

\* The listings of the handle and those that are being read were taken, and
\* one number stands for one listing.
ListingsInv ==
    /\ dir \in [Names -> Nat] /\ epoch \in Nat /\ serials \in Nat
    /\ listings.next_generation = serials % COOKIE_GENERATIONS
    /\ listings.retained \in Seq(Listing)
    /\ listings.ended \in [Generations -> Nat \cup {NoEnd}]
    /\ Once(listings.retained)
    /\ \A l \in Held(listings) : Taken(l)
    /\ stream \in [Streams -> Stream]
    /\ \A s \in Streams : Reading(stream[s]) =>
          /\ Taken(stream[s].listing)
          /\ \A l \in Held(listings) :
                l.serial = stream[s].listing.serial => l = stream[s].listing
    /\ \A s \in Streams : stream[s].pc # "filled" => stream[s].page = {}
    /\ PageIsCurrent

\* Where the kernel resumes a stream.
Index(x) == split_cookie(x.offset).index

\* What stream x has been sent of its listing: all that has not changed up to
\* its cookie, and nothing after it.
Follows(x, l) ==
    /\ \A n \in x.stable : \E k \in DOMAIN l.entries : l.entries[k].name = n
    /\ \A k \in DOMAIN l.entries :
          /\ k <= Index(x) /\ l.entries[k].name \in x.stable => l.entries[k].name \in x.seen
          /\ k > Index(x) => l.entries[k].name \notin x.seen

\* The read in flight has sent nothing.
Empty(x) == x.pc = "filled" /\ x.page = {} /\ x.unsure = {}

\* A stream that has every page from one listing is where that listing says:
\* d are the listings of the handle, `count' is how many were taken.
OwnIn(x, d, count) ==
    /\ x.serial \in 1..count
    /\ x.offset # 0 => split_cookie(x.offset).generation = x.serial - 1
    /\ Reading(x) => x.listing.serial = x.serial /\ Follows(x, x.listing)
    /\ x.pc = "replay" \/ Empty(x) => x.start = Index(x)
    /\ \A l \in Held(d) : l.serial = x.serial => Follows(x, l)
    /\ x.ended => x.stable \subseteq x.seen
    /\ d.ended[x.serial - 1] # NoEnd =>
          /\ Index(x) >= d.ended[x.serial - 1] => x.stable \subseteq x.seen
          /\ Reading(x) => \A k \in DOMAIN x.listing.entries :
                k > d.ended[x.serial - 1] => x.listing.entries[k].name \notin x.stable
    /\ x.pc = "idle" /\ x.ended /\ x.kept /\ x.offset # 0 =>
          /\ \A l \in Held(d) : l.serial # x.serial
          /\ d.ended[x.serial - 1] # NoEnd /\ Index(x) >= d.ended[x.serial - 1]

\* What is left of x's listing after `start' is gone from the directory.
Exhausted(x, holds) ==
    \A k \in DOMAIN x.listing.entries : k > x.start => holds[x.listing.entries[k].name] = 0

\* Stream x, of the listings d out of `count' taken, over the directory `holds'.
StreamIn(x, d, count, holds) ==
    /\ \A n \in x.stable : holds[n] # 0
    /\ x.pc = "list" => ~x.ended
    /\ x.pc # "idle" => ~(x.ended /\ x.own /\ x.kept)
    /\ Empty(x) => Exhausted(x, holds)
    /\ x.own => OwnIn(x, d, count)

\* A listing that is retained has not ended.
NotEnded(d) == \A l \in Held(d) : d.ended[l.generation] = NoEnd

\* The invariant on the streams.
StreamsInv ==
    /\ NotEnded(listings)
    /\ \A s \in Streams : StreamIn(stream[s], listings, serials, dir)

\* As long as the generations have not wrapped around, a generation tells its
\* listing.
Fresh == serials <= COOKIE_GENERATIONS

\* What replay_listing sends of x's listing: `sent' are the indices, `last' the
\* last of them; what it passes over is gone from the directory.
Sent(x, sent, last, page, unsure) ==
    LET l == x.listing
    IN  /\ sent \in SUBSET ((x.start + 1)..Len(l.entries)) /\ last \in Nat
        /\ sent # {} => last \in sent
        /\ \A k \in sent : k <= last
        /\ \A k \in (x.start + 1)..Len(l.entries) :
              (sent = {} \/ k <= last) => k \in sent \/ dir[l.entries[k].name] = 0
        /\ page \in SUBSET DirEntry /\ unsure \in SUBSET DirEntry
        /\ \A e \in page : dir[e.name] # 0 /\ dir[e.name] = e.obj
        /\ \A e \in page \cup unsure : \E k \in sent : e.name = l.entries[k].name
        /\ page = {} /\ unsure = {} => sent = {}

\* ... and the stream then.
Filled(x, sent, last, page, unsure) ==
    [x EXCEPT !.pc = "filled", !.page = page, !.unsure = unsure,
              !.seen = @ \cup {x.listing.entries[k].name : k \in sent},
              !.offset = IF sent = {} THEN @
                         ELSE listing_cookie(x.listing.generation, last - 1)]

\* finish leaves f of d: the very listing is gone, and where it ended is noted.
Dropped(f, d, l, end) ==
    /\ f.retained \in Seq(Listing) /\ Once(f.retained)
    /\ Held(f) = {m \in Held(d) : m.serial # l.serial}
    /\ f = d \/ f.ended = [d.ended EXCEPT ![l.generation] = end]
    /\ f # d => \E m \in Held(d) : m.serial = l.serial
    /\ f = d \/ f.next_generation = d.next_generation

------------------------------------------------------------------------------
(* The operations of DirListings.                                            *)

\* The concatenation of two sequences.
LEMMA Joined ==
    ASSUME NEW S, NEW u \in Seq(S), NEW v \in Seq(S)
    PROVE  /\ u \o v \in Seq(S) /\ Len(u \o v) = Len(u) + Len(v)
           /\ \A k \in 1..Len(u) : (u \o v)[k] = u[k]
           /\ \A k \in (Len(u) + 1)..(Len(u) + Len(v)) : (u \o v)[k] = v[k - Len(u)]
OBVIOUS

\* Quotient and remainder are the ones a number was made of.
LEMMA DivMod ==
    ASSUME NEW S \in Nat \ {0}, NEW g \in Nat, NEW j \in 0..(S - 1)
    PROVE  (g * S + j) \div S = g /\ (g * S + j) % S = j
  OBVIOUS

\* Counting on from a remainder.
LEMMA NextMod ==
    ASSUME NEW S \in Nat \ {0}, NEW n \in Nat
    PROVE  ((n % S) + 1) % S = (n + 1) % S
<1> DEFINE q == n \div S
           r == n % S
<1>1. q \in Nat /\ r \in 0..(S - 1)
  OBVIOUS
<1>2. n = q * S + r
  OBVIOUS
<1> HIDE DEF q, r
<1>3. CASE r + 1 < S
  <2>1. r + 1 \in 0..(S - 1) /\ n + 1 = q * S + (r + 1)
    BY <1>1, <1>2, <1>3
  <2>2. (n + 1) % S = r + 1
    BY <1>1, <2>1, DivMod, Zenon
  <2>3. (r + 1) % S = r + 1
    BY <2>1
  <2>4. QED
    BY <2>2, <2>3 DEF r
<1>4. CASE ~(r + 1 < S)
  <2>1. r + 1 = S
    BY <1>1, <1>4
  <2>2. n + 1 = (q + 1) * S + 0
    BY <1>1, <1>2, <2>1
  <2>3. (n + 1) % S = 0
    <3>1. q + 1 \in Nat /\ 0 \in 0..(S - 1)
      BY <1>1
    <3>2. QED
      BY <2>2, <3>1, DivMod
  <2>4. S % S = 0
    <3>1. S = 1 * S + 0 /\ 0 \in 0..(S - 1) /\ 1 \in Nat
      OBVIOUS
    <3>2. QED
      BY <3>1, DivMod
  <2>5. QED
    BY <2>1, <2>3, <2>4 DEF r
<1>5. QED
  BY <1>3, <1>4

\* A nonempty set of numbers has a least one.
LEMMA LeastOf ==
    ASSUME NEW T, T \subseteq Nat, T # {}
    PROVE  \E x \in T : \A y \in T : x <= y
<1> DEFINE R == OpToRel(<, Nat)
<1>1. IsWellFoundedOn(R, Nat)
  BY NatLessThanWellFounded DEF OpToRel
<1> HIDE DEF R
<1>2. PICK x \in T : \A y \in T : ~(<<y, x>> \in R)
  BY <1>1, WFMin, Zenon
<1>3. \A y \in T : ~(y < x)
  BY <1>2, Zenon DEF R, OpToRel
<1>4. QED
  BY <1>2, <1>3

\* get returns a retained listing of the generation.
LEMMA GetHeld ==
    ASSUME NEW d, d.retained \in Seq(Listing), NEW g, Holding(d, g) # {}
    PROVE  get(d, g) \in Held(d) /\ get(d, g).generation = g
<1> DEFINE T == Holding(d, g)
<1>1. /\ T \subseteq Nat /\ T # {}
      /\ \A k \in T : k \in DOMAIN d.retained /\ d.retained[k].generation = g
  BY DEF Holding
<1>2. PICK m \in T : \A j \in T : m <= j
  BY <1>1, LeastOf, Zenon
<1> DEFINE c == CHOOSE k \in T : \A j \in T : k <= j
<1>3. c \in T
  BY <1>2, Zenon
<1>4. get(d, g) = d.retained[c]
  BY DEF get
<1> HIDE DEF c, T
<1>5. QED
  BY <1>1, <1>3, <1>4 DEF Held

\* current returns a retained listing.
LEMMA CurrentHeld ==
    ASSUME NEW d, d.retained \in Seq(Listing), d.retained # <<>>
    PROVE  current(d) \in Held(d)
  BY DEF current, Held

\* push retains the new listing, and no other that was not retained.
LEMMA PushHolds ==
    ASSUME NEW d, d.retained \in Seq(Listing), Once(d.retained), NEW l \in Listing,
           \A m \in Held(d) : m.serial # l.serial
    PROVE  /\ push(d, l).retained \in Seq(Listing) /\ Once(push(d, l).retained)
           /\ Held(push(d, l)) \subseteq Held(d) \cup {l}
<1> DEFINE r == d.retained
           b == IF Len(r) = RETAINED_LISTINGS THEN Tail(r) ELSE r
           p == push(d, l)
<1>1. p.retained = Append(b, l)
  BY DEF push
<1>2. /\ b \in Seq(Listing) /\ Once(b)
      /\ \A k \in DOMAIN b : \E j \in DOMAIN r : b[k] = r[j]
  <2>1. CASE Len(r) = RETAINED_LISTINGS
    <3>1. b = Tail(r) /\ r # <<>>
      BY <2>1, ListingAssumption
    <3>2. /\ b \in Seq(Listing) /\ DOMAIN b = 1..(Len(r) - 1) /\ DOMAIN r = 1..Len(r)
          /\ \A k \in 1..(Len(r) - 1) : b[k] = r[k + 1]
      <4>1. r \in Seq(Listing) /\ r # <<>>
        BY <3>1
      <4> HIDE DEF r
      <4>2. Tail(r) \in Seq(Listing) /\ Len(Tail(r)) = Len(r) - 1 /\ DOMAIN r = 1..Len(r)
        BY <4>1
      <4>3. DOMAIN Tail(r) = 1..(Len(r) - 1)
        BY <4>2
      <4>4. \A k \in 1..(Len(r) - 1) : Tail(r)[k] = r[k + 1]
        BY <4>1
      <4>5. QED
        BY <3>1, <4>2, <4>3, <4>4, Zenon
    <3> HIDE DEF b
    <3>3. \A k \in DOMAIN b : k \in Nat /\ k + 1 \in DOMAIN r /\ b[k] = r[k + 1]
      BY <3>2
    <3>4. Once(b)
      BY <3>3 DEF Once
    <3>5. QED
      BY <3>2, <3>3, <3>4
  <2>2. CASE Len(r) # RETAINED_LISTINGS
    BY <2>2
  <2>3. QED
    BY <2>1, <2>2
<1> HIDE DEF b
<1>3. /\ Append(b, l) \in Seq(Listing) /\ DOMAIN Append(b, l) = 1..(Len(b) + 1)
      /\ DOMAIN b = 1..Len(b) /\ Len(b) \in Nat
      /\ Append(b, l)[Len(b) + 1] = l /\ \A k \in 1..Len(b) : Append(b, l)[k] = b[k]
  BY <1>2
<1>4. \A k \in DOMAIN b : b[k] \in Held(d)
  BY <1>2 DEF Held
<1>5. \A k \in DOMAIN b : b[k].serial # l.serial
  BY <1>4
<1>6. \A k \in DOMAIN Append(b, l) :
          \/ k \in DOMAIN b /\ Append(b, l)[k] = b[k]
          \/ k = Len(b) + 1 /\ Append(b, l)[k] = l
  BY <1>3
<1>7. Once(Append(b, l))
  BY <1>2, <1>5, <1>6 DEF Once
<1>8. Held(p) \subseteq Held(d) \cup {l}
  BY <1>1, <1>4, <1>6 DEF Held
<1>9. QED
  BY <1>1, <1>3, <1>7, <1>8

\* finish drops the very listing, if it is retained, and notes where it ended.
LEMMA FinishDrops ==
    ASSUME NEW d, d.retained \in Seq(Listing), Once(d.retained), NEW l, NEW end
    PROVE  Dropped(finish(d, l, end), d, l, end)
<1>1. PICK f : f = finish(d, l, end)
  OBVIOUS
<1> DEFINE r == d.retained
           T == Places(d, l)
           p == CHOOSE k \in T : TRUE
           q == RemoveAt(r, p)
<1>2. CASE T = {}
  <2>1. f = d /\ \A m \in Held(d) : m.serial # l.serial
    BY <1>1, <1>2 DEF finish, Places, Held
  <2>2. QED
    BY <1>1, <2>1 DEF Dropped
<1>3. CASE T # {}
  <2>1. p \in T
    BY <1>3
  <2>2. p \in DOMAIN r /\ r[p].serial = l.serial
    BY <2>1 DEF Places
  <2> HIDE DEF p
  <2>3. p \in 1..Len(r) /\ Len(r) \in Nat /\ DOMAIN r = 1..Len(r)
    BY <2>2
  <2>4. /\ SubSeq(r, 1, p - 1) \in Seq(Listing) /\ Len(SubSeq(r, 1, p - 1)) = p - 1
        /\ \A k \in 1..(p - 1) : SubSeq(r, 1, p - 1)[k] = r[k]
    BY <2>3
  <2>5. /\ SubSeq(r, p + 1, Len(r)) \in Seq(Listing)
        /\ Len(SubSeq(r, p + 1, Len(r))) = Len(r) - p
        /\ \A k \in 1..(Len(r) - p) : SubSeq(r, p + 1, Len(r))[k] = r[p + k]
    BY <2>3
  <2>6. /\ q \in Seq(Listing) /\ DOMAIN q = 1..(Len(r) - 1)
        /\ \A k \in 1..(Len(r) - 1) : q[k] = IF k < p THEN r[k] ELSE r[k + 1]
    <3> DEFINE u == SubSeq(r, 1, p - 1)
               v == SubSeq(r, p + 1, Len(r))
    <3>1. q = u \o v
      BY DEF RemoveAt
    <3>2. u \in Seq(Listing) /\ v \in Seq(Listing) /\ Len(u) = p - 1 /\ Len(v) = Len(r) - p
      BY <2>4, <2>5
    <3> HIDE DEF u, v, q
    <3>3. q \in Seq(Listing) /\ Len(q) = Len(u) + Len(v)
      BY <3>1, <3>2, Joined, Zenon
    <3>4. DOMAIN q = 1..(Len(r) - 1)
      BY <2>3, <3>2, <3>3
    <3>5. ASSUME NEW k \in 1..(Len(r) - 1)
          PROVE  q[k] = IF k < p THEN r[k] ELSE r[k + 1]
      <4>1. CASE k < p
        <5>1. k \in 1..Len(u) /\ k \in 1..(p - 1)
          BY <2>3, <3>2, <4>1
        <5>2. q[k] = u[k]
          BY <3>1, <3>2, <5>1, Joined, Zenon
        <5>3. QED
          BY <2>4, <4>1, <5>1, <5>2 DEF u
      <4>2. CASE ~(k < p)
        <5>1. k \in (Len(u) + 1)..(Len(u) + Len(v)) /\ k - Len(u) \in 1..(Len(r) - p)
              /\ p + (k - Len(u)) = k + 1
          BY <2>3, <3>2, <4>2
        <5>2. q[k] = v[k - Len(u)]
          BY <3>1, <3>2, <5>1, Joined, Zenon
        <5>3. v[k - Len(u)] = r[k + 1]
          BY <2>5, <5>1 DEF v
        <5>4. QED
          BY <4>2, <5>2, <5>3
      <4>3. QED
        BY <4>1, <4>2
    <3>6. QED
      BY <3>3, <3>4, <3>5
  <2> HIDE DEF q
  <2>7. /\ \A k \in DOMAIN q : \E j \in DOMAIN r :
              q[k] = r[j] /\ j # p /\ j = (IF k < p THEN k ELSE k + 1)
        /\ \A j \in DOMAIN r : j # p => \E k \in DOMAIN q : q[k] = r[j]
    <3>1. ASSUME NEW k \in DOMAIN q
          PROVE  \E j \in DOMAIN r : q[k] = r[j] /\ j # p /\ j = (IF k < p THEN k ELSE k + 1)
      BY <2>3, <2>6
    <3>2. ASSUME NEW j \in DOMAIN r, j # p
          PROVE  \E k \in DOMAIN q : q[k] = r[j]
      <4>1. CASE j < p
        <5>1. j \in DOMAIN q /\ q[j] = r[j]
          BY <2>3, <2>6, <4>1
        <5>2. QED
          BY <5>1
      <4>2. CASE j > p
        <5>1. j - 1 \in DOMAIN q /\ q[j - 1] = r[j]
          BY <2>3, <2>6, <4>2
        <5>2. QED
          BY <5>1
      <4>3. QED
        BY <2>3, <3>2, <4>1, <4>2
    <3>3. QED
      BY <3>1, <3>2
  <2>8. Once(q)
    <3> DEFINE At(k) == IF k < p THEN k ELSE k + 1
    <3>1. \A k \in DOMAIN q : At(k) \in DOMAIN r /\ q[k] = r[At(k)]
      BY <2>7
    <3>2. \A j, k \in DOMAIN q : At(j) = At(k) => j = k
      BY <2>3, <2>6
    <3> HIDE DEF At
    <3>3. QED
      BY <3>1, <3>2 DEF Once
  <2>9. \A j \in DOMAIN r : r[j].serial = l.serial => j = p
    BY <2>2 DEF Once
  <2>10. /\ f.retained = q /\ f.ended = [d.ended EXCEPT ![l.generation] = end]
         /\ f.next_generation = d.next_generation
    BY <1>1, <1>3 DEF finish, q, p
  <2>11. Held(f) = {m \in Held(d) : m.serial # l.serial}
    BY <2>7, <2>9, <2>10, <2>2 DEF Held
  <2>12. \E m \in Held(d) : m.serial = l.serial
    BY <2>2 DEF Held
  <2>13. QED
    BY <1>1, <2>6, <2>8, <2>10, <2>11, <2>12 DEF Dropped
<1>4. QED
  BY <1>2, <1>3

\* A cookie is read as it was made.
LEMMA CookieSplit ==
    ASSUME NEW g \in Generations, NEW j \in 1..MAX_LISTING_LEN
    PROVE  split_cookie(listing_cookie(g, j - 1)) = [generation |-> g, index |-> j]
<1>1. COOKIE_SPAN \in Nat \ {0} /\ g \in Nat /\ j \in 0..(COOKIE_SPAN - 1) /\ j \in Nat
  BY ListingAssumption DEF MAX_LISTING_LEN, Generations
<1>2. listing_cookie(g, j - 1) = g * COOKIE_SPAN + j
  BY <1>1 DEF listing_cookie
<1>3. /\ (g * COOKIE_SPAN + j) \div COOKIE_SPAN = g
      /\ (g * COOKIE_SPAN + j) % COOKIE_SPAN = j
  BY <1>1, DivMod
<1>4. g % COOKIE_GENERATIONS = g
  BY ListingAssumption DEF Generations
<1>5. QED
  BY <1>2, <1>3, <1>4 DEF split_cookie

------------------------------------------------------------------------------
(* The listings.                                                             *)

\* A serial number stands for one retained listing.
LEMMA OneHeld ==
    ASSUME NEW d, Once(d.retained), NEW l \in Held(d), NEW m \in Held(d), l.serial = m.serial
    PROVE  l = m
  BY DEF Once, Held

\* Retained listings are listings.
LEMMA HeldTyped ==
    ASSUME NEW d, d.retained \in Seq(Listing)
    PROVE  Held(d) \subseteq Listing
  BY DEF Held

\* What directory_listing, replay_listing and finish keep: a step of one read
\* that takes no listing and leaves the directory alone.
LEMMA ReadStep ==
    ASSUME ListingsInv, NEW s \in Streams, NEW y \in Stream,
           stream' = [stream EXCEPT ![s] = y], UNCHANGED <<dir, epoch, serials>>,
           listings'.next_generation = listings.next_generation,
           listings'.retained \in Seq(Listing), Once(listings'.retained),
           listings'.ended \in [Generations -> Nat \cup {NoEnd}],
           Held(listings') \subseteq Held(listings),
           Reading(y) => /\ Taken(y.listing)
                         /\ \A l \in Held(listings) : l.serial = y.listing.serial => l = y.listing,
           y.pc # "filled" => y.page = {},
           \A e \in y.page : dir[e.name] # 0 /\ dir[e.name] = e.obj
    PROVE  ListingsInv'
<1>1. \A l : Taken(l)' <=> Taken(l)
  BY DEF Taken
<1>2. /\ stream' \in [Streams -> Stream] /\ stream'[s] = y
      /\ \A u \in Streams : u # s => stream'[u] = stream[u]
  BY DEF ListingsInv
<1>3. \A u \in Streams : Reading(stream'[u]) =>
          /\ Taken(stream'[u].listing)
          /\ \A l \in Held(listings') :
                l.serial = stream'[u].listing.serial => l = stream'[u].listing
  BY <1>2 DEF ListingsInv
<1>4. \A u \in Streams : stream'[u].pc # "filled" => stream'[u].page = {}
  BY <1>2 DEF ListingsInv
<1>5. PageIsCurrent'
  BY <1>2 DEF ListingsInv, PageIsCurrent
<1>6. \A l \in Held(listings') : Taken(l)
  BY DEF ListingsInv
<1>7. QED
  BY <1>1, <1>2, <1>3, <1>4, <1>5, <1>6 DEF ListingsInv, Reading

\* The listing a cookie's generation finds, or the newest, is one the handle
\* retains.
LEMMA HeldReadable ==
    ASSUME ListingsInv, NEW l \in Held(listings)
    PROVE  /\ l \in Listing /\ Taken(l)
           /\ \A m \in Held(listings) : m.serial = l.serial => m = l
<1>1. listings.retained \in Seq(Listing) /\ Once(listings.retained)
  BY DEF ListingsInv
<1>2. l \in Listing
  BY <1>1, HeldTyped, Zenon
<1>3. Taken(l)
  BY DEF ListingsInv
<1>4. \A m \in Held(listings) : m.serial = l.serial => m = l
  BY <1>1, OneHeld
<1>5. QED
  BY <1>2, <1>3, <1>4

\* directory_listing's choice of a listing.
LEMMA ResumeListings ==
    ASSUME ListingsInv, NEW s \in Streams, Resume(s) \/ StartListing(s)
    PROVE  ListingsInv'
<1>1. stream[s] \in Stream /\ listings.retained \in Seq(Listing) /\ stream \in [Streams -> Stream]
  BY DEF ListingsInv
<1>2. split_cookie(stream[s].offset).index \in Nat
  BY <1>1, ListingAssumption DEF split_cookie, Stream
<1>3. stream[s].pc = "idle" /\ stream[s].page = {} /\ UNCHANGED <<dir, epoch, serials, listings>>
  BY DEF Resume, ResumeOwn, ResumeCurrent, ReadEnded, StartListing, Idle, ListingsInv
<1>4. \/ \E y \in Stream : /\ stream' = [stream EXCEPT ![s] = y]
                           /\ y.page = {} /\ y.pc \in {"idle", "list"}
      \/ \E y \in Stream : /\ stream' = [stream EXCEPT ![s] = y]
                           /\ y.page = {} /\ y.pc = "replay" /\ y.listing \in Held(listings)
  <2>1. CASE ResumeOwn(s)
    <3> DEFINE c == split_cookie(stream[s].offset)
               l == get(listings, c.generation)
               y == [stream[s] EXCEPT !.pc = "replay", !.listing = l, !.start = c.index,
                                      !.owned = TRUE,
                                      !.own = @ /\ l.serial = stream[s].serial]
    <3>1. l \in Held(listings)
      BY <1>1, <2>1, GetHeld DEF ResumeOwn, Retained
    <3>2. l \in Listing
      BY <3>1, HeldReadable
    <3>3. stream' = [stream EXCEPT ![s] = y]
      BY <1>1, <2>1, Zenon DEF ResumeOwn
    <3> HIDE DEF l
    <3>4. y \in Stream /\ y.page = {} /\ y.pc = "replay" /\ y.listing = l
      BY <1>1, <1>2, <1>3, <3>2, Zenon DEF Stream
    <3>5. QED
      BY <3>1, <3>3, <3>4, Zenon
  <2>2. CASE ResumeCurrent(s)
    <3> DEFINE l == current(listings)
               y == [stream[s] EXCEPT !.pc = "replay", !.listing = l,
                                      !.start = split_cookie(stream[s].offset).index,
                                      !.owned = FALSE, !.own = FALSE]
    <3>1. l \in Held(listings)
      BY <1>1, <2>2, CurrentHeld DEF ResumeCurrent
    <3>2. l \in Listing
      BY <3>1, HeldReadable
    <3>3. stream' = [stream EXCEPT ![s] = y]
      BY <1>1, <2>2, Zenon DEF ResumeCurrent
    <3> HIDE DEF l
    <3>4. y \in Stream /\ y.page = {} /\ y.pc = "replay" /\ y.listing = l
      BY <1>1, <1>2, <1>3, <3>2, Zenon DEF Stream
    <3>5. QED
      BY <3>1, <3>3, <3>4, Zenon
  <2>3. CASE ReadEnded(s)
    <3> DEFINE y == [stream[s] EXCEPT !.ended = TRUE]
    <3>1. y \in Stream /\ y.page = {} /\ y.pc = "idle"
      BY <1>1, <1>3, Zenon DEF Stream
    <3>2. stream' = [stream EXCEPT ![s] = y]
      BY <1>1, <2>3 DEF ReadEnded
    <3>3. QED
      BY <3>1, <3>2, Zenon
  <2>4. CASE StartListing(s)
    <3> DEFINE y == [stream[s] EXCEPT !.pc = "list", !.ended = FALSE]
    <3>1. y \in Stream /\ y.page = {} /\ y.pc = "list"
      BY <1>1, <1>3, Zenon DEF Stream
    <3>2. stream' = [stream EXCEPT ![s] = y]
      BY <1>1, <2>4, Zenon DEF StartListing
    <3>3. QED
      BY <3>1, <3>2, Zenon
  <2>5. QED
    BY <2>1, <2>2, <2>3, <2>4 DEF Resume
<1>5. PICK y \in Stream : /\ stream' = [stream EXCEPT ![s] = y] /\ y.page = {}
                          /\ Reading(y) => y.listing \in Held(listings)
  BY <1>4 DEF Reading
<1>6. Reading(y) => /\ Taken(y.listing)
                    /\ \A l \in Held(listings) : l.serial = y.listing.serial => l = y.listing
  BY <1>5, HeldReadable
<1>7. /\ listings'.next_generation = listings.next_generation
      /\ listings'.retained \in Seq(Listing) /\ Once(listings'.retained)
      /\ listings'.ended \in [Generations -> Nat \cup {NoEnd}]
      /\ Held(listings') \subseteq Held(listings)
  BY <1>3 DEF ListingsInv
<1>8. QED
  BY <1>3, <1>5, <1>6, <1>7, ReadStep, Zenon

\* An entry after a place in a listing is one of the listing's.
LEMMA EntryAt ==
    ASSUME NEW e \in Seq(DirEntry), NEW st \in Nat, NEW k \in (st + 1)..Len(e)
    PROVE  /\ k \in Nat /\ k \in 1..Len(e) /\ k \in DOMAIN e /\ e[k] \in DirEntry
           /\ e[k].name \in Names /\ k > st
<1>1. k \in Nat /\ k \in 1..Len(e) /\ k \in DOMAIN e /\ k > st
  OBVIOUS
<1>2. e[k] \in DirEntry
  BY <1>1
<1>3. QED
  BY <1>1, <1>2 DEF DirEntry

\* replay_listing, as the step of one stream: what it sends and where it leaves
\* the cookie.
LEMMA ReplayMoves ==
    ASSUME ListingsInv, NEW s \in Streams, ReplayStep(s)
    PROVE  LET x == stream[s]
               l == x.listing
           IN  /\ x.pc = "replay" /\ UNCHANGED <<dir, epoch, listings, serials>>
               /\ \/ stream' = [stream EXCEPT ![s] = [x EXCEPT !.pc = "idle"]]
                  \/ \E sent, last, page, unsure :
                        /\ Sent(x, sent, last, page, unsure)
                        /\ stream' = [stream EXCEPT ![s] = Filled(x, sent, last, page, unsure)]
<1> DEFINE x == stream[s]
           l == x.listing
<1>1. /\ x \in Stream /\ stream \in [Streams -> Stream] /\ dir \in [Names -> Nat]
  BY DEF ListingsInv
<1>2. l \in Listing /\ l.entries \in Seq(DirEntry) /\ x.start \in Nat
  BY <1>1 DEF Stream, Listing
<1>3. PICK plus \in BOOLEAN, failing \in SUBSET (1..Len(l.entries)),
           last \in 1..Len(l.entries) \cup {0} :
          Replay(s, plus, failing, last)
  BY DEF ReplayStep
<1> DEFINE needsAttr == plus /\ ~l.attrs
           lookups   == epoch # l.epoch \/ needsAttr
           offered   == {k \in (x.start + 1)..Len(l.entries) :
                            ~needsAttr \/ \A f \in failing : k < f}
           sendable  == {k \in offered :
                            ~lookups \/ k \in failing \/ dir[l.entries[k].name] # 0}
           sent      == {k \in sendable : k <= last}
           E(k)      == IF lookups /\ k \notin failing
                        THEN [l.entries[k] EXCEPT !.obj = dir[l.entries[k].name]]
                        ELSE l.entries[k]
           page      == {E(k) : k \in sent \ failing}
           unsure    == {E(k) : k \in sent \cap failing}
<1>4. /\ x.pc = "replay" /\ UNCHANGED <<dir, epoch, listings, serials>>
      /\ failing \subseteq {k \in 1..Len(l.entries) : k > x.start}
      /\ IF sendable = {} THEN last = 0 ELSE last \in sendable
      /\ IF sendable = {} /\ needsAttr /\ failing # {}
         THEN stream' = [stream EXCEPT ![s].pc = "idle"]
         ELSE stream' = [stream EXCEPT
                  ![s].pc = "filled", ![s].page = page, ![s].unsure = unsure,
                  ![s].seen = @ \cup {l.entries[k].name : k \in sent},
                  ![s].offset = IF sent = {} THEN @ ELSE listing_cookie(l.generation, last - 1)]
  BY <1>3, Zenon DEF Replay
<1>5. CASE sendable = {} /\ needsAttr /\ failing # {}
  <2>1. stream' = [stream EXCEPT ![s] = [x EXCEPT !.pc = "idle"]]
    BY <1>1, <1>4, <1>5, Zenon
  <2>2. QED
    BY <1>4, <2>1, Zenon
<1>6. CASE ~(sendable = {} /\ needsAttr /\ failing # {})
  <2>1. /\ sendable \subseteq offered /\ offered \subseteq (x.start + 1)..Len(l.entries)
        /\ sent \subseteq sendable /\ last \in Nat
    BY <1>2
  <2>2. \A k \in sent : /\ k \in 1..Len(l.entries) /\ k \in Nat /\ l.entries[k] \in DirEntry
                        /\ k \in DOMAIN l.entries /\ l.entries[k].name \in Names
                        /\ dir[l.entries[k].name] \in Nat
    <3>1. \A k \in sent : k \in (x.start + 1)..Len(l.entries)
      BY <2>1
    <3> HIDE DEF sent, l
    <3>2. \A k \in sent : /\ k \in 1..Len(l.entries) /\ k \in Nat /\ l.entries[k] \in DirEntry
                          /\ k \in DOMAIN l.entries /\ l.entries[k].name \in Names
      BY <1>2, <3>1, EntryAt, Zenon
    <3>3. QED
      BY <1>1, <3>2, Zenon
  <2>3. sendable # {} => last \in sendable /\ last \in sent
    <3>1. sendable # {} => last \in sendable
      BY <1>4, Zenon
    <3>2. last <= last
      BY <2>1
    <3> HIDE DEF sendable
    <3>3. QED
      BY <3>1, <3>2
  <2>11. sent # {} => last \in sent
    BY <2>1, <2>3, Zenon
  <2>4. \A k \in sent : k <= last
    BY Zenon
  <2>5. ASSUME NEW k \in (x.start + 1)..Len(l.entries), sent = {} \/ k <= last
        PROVE  k \in sent \/ dir[l.entries[k].name] = 0
    <3>1. CASE sendable = {}
      <4>1. ~needsAttr \/ failing = {}
        BY <1>6, <3>1
      <4>2. k \in offered
        BY <4>1
      <4>3. QED
        BY <3>1, <4>2, Zenon
    <3>2. CASE sendable # {}
      <4>1. last \in sendable /\ last \in sent
        BY <2>3, <3>2
      <4>2. k <= last
        BY <2>5, <4>1, Zenon
      <4>3. k \in offered
        <5>1. last \in offered /\ failing \subseteq Nat /\ k \in Nat /\ last \in Nat
          <6>1. last \in offered
            BY <4>1
          <6> HIDE DEF offered, sendable, sent
          <6>2. failing \subseteq Nat /\ k \in Nat
            BY <1>2
          <6>3. QED
            BY <2>1, <6>1, <6>2
        <5>2. QED
          BY <4>2, <5>1
      <4>4. QED
        BY <4>2, <4>3, Zenon
    <3>3. QED
      BY <3>1, <3>2
  <2>6. \A k \in sent : E(k) \in DirEntry /\ E(k).name = l.entries[k].name
    BY <2>2 DEF DirEntry
  <2>7. ASSUME NEW k \in sent \ failing
        PROVE  dir[E(k).name] # 0 /\ dir[E(k).name] = E(k).obj
    <3>1. CASE lookups
      <4>1. E(k).obj = dir[l.entries[k].name] /\ dir[l.entries[k].name] # 0
        BY <2>2, <2>7, <3>1, Zenon DEF DirEntry
      <4>2. QED
        <5>1. k \in sent
          BY <2>7
        <5> HIDE DEF E, sent
        <5>2. QED
          BY <2>6, <4>1, <5>1, Zenon
    <3>2. CASE ~lookups
      <4>1. Taken(l)
        BY <1>4, Zenon DEF ListingsInv, Reading
      <4>2. k \in DOMAIN l.entries /\ epoch = l.epoch
        <5>1. k \in sent /\ epoch = l.epoch
          BY <2>7, <3>2
        <5> HIDE DEF sent
        <5>2. QED
          BY <2>2, <5>1
      <4>3. dir[l.entries[k].name] # 0 /\ dir[l.entries[k].name] = l.entries[k].obj
        BY <4>1, <4>2, Zenon DEF Taken, TakenIn
      <4>4. E(k) = l.entries[k]
        BY <3>2
      <4>5. QED
        BY <4>3, <4>4
    <3>3. QED
      BY <3>1, <3>2, Zenon
  <2> HIDE DEF E
  <2>8. /\ page \in SUBSET DirEntry /\ unsure \in SUBSET DirEntry
        /\ \A e \in page : dir[e.name] # 0 /\ dir[e.name] = e.obj
        /\ \A e \in page \cup unsure : \E k \in sent : e.name = l.entries[k].name
        /\ page = {} /\ unsure = {} => sent = {}
    <3> HIDE DEF sent
    <3>1. QED
      BY <2>6, <2>7
  <2>9. stream' = [stream EXCEPT ![s] = Filled(x, sent, last, page, unsure)]
    BY <1>1, <1>4, <1>6, Zenon DEF Filled
  <2>10. sent \in SUBSET ((x.start + 1)..Len(l.entries))
    BY <2>1
  <2> HIDE DEF page, unsure, sent, sendable, offered
  <2>12. Sent(x, sent, last, page, unsure)
    BY <2>1, <2>11, <2>4, <2>5, <2>8, <2>10 DEF Sent
  <2>13. QED
    BY <1>4, <2>9, <2>12, Zenon
<1>7. QED
  BY <1>5, <1>6

\* ... and the state it leaves the stream in is one a stream can be in.
LEMMA ReplayTyped ==
    ASSUME ListingsInv, NEW x \in Stream, NEW sent, NEW last, NEW page, NEW unsure,
           Sent(x, sent, last, page, unsure)
    PROVE  Filled(x, sent, last, page, unsure) \in Stream
<1> DEFINE l  == x.listing
           sn == x.seen \cup {l.entries[k].name : k \in sent}
           of == IF sent = {} THEN x.offset ELSE listing_cookie(l.generation, last - 1)
<1>1. /\ l.entries \in Seq(DirEntry) /\ x.start \in Nat /\ l.generation \in Nat
      /\ x.offset \in Nat /\ x.seen \in SUBSET Names
  BY DEF Stream, Listing
<1>2. /\ sent \in SUBSET ((x.start + 1)..Len(l.entries)) /\ last \in Nat
      /\ page \in SUBSET DirEntry /\ unsure \in SUBSET DirEntry
  BY DEF Sent
<1>3. \A k \in sent : l.entries[k].name \in Names
  BY <1>1, <1>2, EntryAt, Zenon
<1>4. sn \in SUBSET Names
  BY <1>1, <1>3
<1>5. of \in Nat
  <2>1. CASE sent = {}
    BY <1>1, <2>1
  <2>2. CASE sent # {}
    <3>1. l.generation * COOKIE_SPAN \in Nat
      BY <1>1, ListingAssumption
    <3>2. of = l.generation * COOKIE_SPAN + (last - 1) + 1
      BY <2>2 DEF listing_cookie
    <3> HIDE DEF of
    <3>3. PICK n \in Nat : n = l.generation * COOKIE_SPAN
      BY <3>1
    <3>4. of = n + (last - 1) + 1
      BY <3>2, <3>3, Zenon
    <3>5. QED
      BY <1>2, <3>4
  <2>3. QED
    BY <2>1, <2>2
<1> HIDE DEF sn, of
<1>6. [x EXCEPT !.pc = "filled", !.page = page, !.unsure = unsure, !.seen = sn, !.offset = of]
          \in Stream
  BY <1>4, <1>5, <1>2, Zenon DEF Stream
<1>7. QED
  BY <1>6 DEF Filled, sn, of

\* An order of a finite set names each of its members once.
LEMMA OrderNames ==
    ASSUME NEW S, IsFiniteSet(S), NEW order \in SetToSeqs(S)
    PROVE  /\ order \in Seq(S) /\ DOMAIN order = 1..Len(order)
           /\ \A j, k \in DOMAIN order : order[j] = order[k] => j = k
           /\ \A n \in S : \E k \in DOMAIN order : order[k] = n
<1> DEFINE c == Cardinality(S)
<1>1. c \in Nat
  BY FS_CardinalityType, Zenon
<1>2. order \in [1..c -> S] /\ \A i, j \in 1..c : i # j => order[i] # order[j]
  BY DEF SetToSeqs
<1>3. IsFiniteSet(1..c) /\ Cardinality(1..c) = c
  <2> HIDE DEF c
  <2>1. QED
    BY <1>1, FS_Interval
<1>4. order \in Injection(1..c, S)
  BY <1>2 DEF Injection, IsInjective
<1>5. order \in Surjection(1..c, S)
  BY <1>3, <1>4, FS_Injection, Zenon
<1> HIDE DEF c
<1>6. \A n \in S : \E k \in 1..c : order[k] = n
  BY <1>5 DEF Surjection
<1>7. order \in Seq(S) /\ DOMAIN order = 1..Len(order) /\ DOMAIN order = 1..c
  BY <1>1, <1>2
<1>8. QED
  BY <1>2, <1>6, <1>7, Zenon

\* list_dir and push, as the step of one stream: the new listing holds exactly
\* the names of the directory, each once.
LEMMA PushMoves ==
    ASSUME ListingsInv, NEW s \in Streams, PushStep(s)
    PROVE  \E l \in Listing :
             /\ stream[s].pc = "list" /\ UNCHANGED <<dir, epoch>>
             /\ serials' = serials + 1 /\ listings' = push(listings, l)
             /\ l.serial = serials + 1 /\ l.generation = listings.next_generation
             /\ l.epoch = epoch /\ Len(l.entries) <= MAX_LISTING_LEN
             /\ \A j, k \in DOMAIN l.entries : l.entries[j].name = l.entries[k].name => j = k
             /\ \A k \in DOMAIN l.entries :
                   dir[l.entries[k].name] # 0 /\ dir[l.entries[k].name] = l.entries[k].obj
             /\ \A n \in Present : \E k \in DOMAIN l.entries : l.entries[k].name = n
             /\ LET first == stream[s].offset = 0
                IN  stream' = [stream EXCEPT ![s] =
                      [stream[s] EXCEPT
                         !.pc = "replay", !.listing = l, !.owned = TRUE,
                         !.start = split_cookie(stream[s].offset).index, !.own = first,
                         !.serial = IF first THEN l.serial ELSE @,
                         !.seen   = IF first THEN {} ELSE @,
                         !.stable = IF first THEN Present ELSE @]]
<1>1. /\ stream \in [Streams -> Stream] /\ dir \in [Names -> Nat]
      /\ epoch \in Nat /\ serials \in Nat
      /\ listings.next_generation = serials % COOKIE_GENERATIONS
  BY DEF ListingsInv
<1>2. IsFiniteSet(Present) /\ Present \subseteq Names /\ \A n \in Present : dir[n] # 0
  BY ReadsAssumption, FS_Subset DEF Present
<1>3. PICK order \in SetToSeqs(Present), attrs \in BOOLEAN : PushListing(s, order, attrs)
  BY DEF PushStep
<1> DEFINE ents == [k \in DOMAIN order |-> [name |-> order[k], obj |-> dir[order[k]]]]
           l == [serial |-> serials + 1, generation |-> listings.next_generation,
                 epoch |-> epoch, attrs |-> attrs, entries |-> ents]
<1>4. /\ order \in Seq(Present) /\ DOMAIN order = 1..Len(order)
      /\ \A j, k \in DOMAIN order : order[j] = order[k] => j = k
      /\ \A n \in Present : \E k \in DOMAIN order : order[k] = n
  BY <1>2, OrderNames
<1>5. /\ DOMAIN ents = DOMAIN order
      /\ \A k \in DOMAIN ents : ents[k] = [name |-> order[k], obj |-> dir[order[k]]]
  OBVIOUS
<1>6. \A k \in DOMAIN order : order[k] \in Present
  BY <1>4
<1>7. \A k \in DOMAIN order :
         ents[k] \in DirEntry /\ ents[k].name = order[k] /\ ents[k].obj = dir[order[k]]
  BY <1>1, <1>2, <1>5, <1>6 DEF DirEntry
<1>8. ents \in Seq(DirEntry) /\ Len(ents) = Len(order)
  <2>1. Len(order) \in Nat /\ DOMAIN ents = 1..Len(order)
    BY <1>4, <1>5
  <2>2. ents \in [1..Len(order) -> DirEntry]
    BY <1>4, <1>7
  <2> HIDE DEF ents
  <2>3. QED
    BY <2>1, <2>2
<1>9. /\ stream[s].pc = "list" /\ UNCHANGED <<dir, epoch>> /\ Len(order) <= MAX_LISTING_LEN
      /\ serials' = serials + 1 /\ listings' = push(listings, l)
  BY <1>3, Zenon DEF PushListing
<1>10. LET first == stream[s].offset = 0
       IN  stream' = [stream EXCEPT ![s] =
             [stream[s] EXCEPT
                !.pc = "replay", !.listing = l, !.owned = TRUE,
                !.start = split_cookie(stream[s].offset).index, !.own = first,
                !.serial = IF first THEN l.serial ELSE @,
                !.seen   = IF first THEN {} ELSE @,
                !.stable = IF first THEN Present ELSE @]]
  <2>1. LET first == stream[s].offset = 0
        IN  stream' = [stream EXCEPT
               ![s].pc = "replay", ![s].listing = l, ![s].owned = TRUE,
               ![s].start = split_cookie(stream[s].offset).index,
               ![s].own = first,
               ![s].serial = IF first THEN l.serial ELSE @,
               ![s].seen   = IF first THEN {} ELSE @,
               ![s].stable = IF first THEN Present ELSE @]
    BY <1>3, Zenon DEF PushListing
  <2> HIDE DEF l
  <2>2. QED
    BY <1>1, <2>1, Zenon
<1>11. serials % COOKIE_GENERATIONS \in Nat
  BY <1>1, ListingAssumption
<1> HIDE DEF ents
<1>12. /\ l \in Listing /\ l.serial = serials + 1 /\ l.generation = listings.next_generation
       /\ l.epoch = epoch /\ l.entries = ents
  BY <1>1, <1>8, <1>11 DEF Listing
<1> HIDE DEF l
<1>13. /\ \A j, k \in DOMAIN l.entries : l.entries[j].name = l.entries[k].name => j = k
       /\ \A k \in DOMAIN l.entries :
             dir[l.entries[k].name] # 0 /\ dir[l.entries[k].name] = l.entries[k].obj
       /\ \A n \in Present : \E k \in DOMAIN l.entries : l.entries[k].name = n
  BY <1>2, <1>4, <1>5, <1>6, <1>7, <1>12
<1>14. QED
  BY <1>8, <1>9, <1>10, <1>12, <1>13, Zenon

\* The bookkeeping push does besides retaining.
LEMMA PushCounts ==
    ASSUME ListingsInv, NEW l \in Listing, l.generation = listings.next_generation
    PROVE  /\ push(listings, l).next_generation = (serials + 1) % COOKIE_GENERATIONS
           /\ push(listings, l).ended \in [Generations -> Nat \cup {NoEnd}]
           /\ push(listings, l).ended = [listings.ended EXCEPT ![l.generation] = NoEnd]
<1>1. /\ serials \in Nat /\ listings.next_generation = serials % COOKIE_GENERATIONS
      /\ listings.ended \in [Generations -> Nat \cup {NoEnd}]
  BY DEF ListingsInv
<1>2. /\ push(listings, l).next_generation = (listings.next_generation + 1) % COOKIE_GENERATIONS
      /\ push(listings, l).ended = [listings.ended EXCEPT ![l.generation] = NoEnd]
  BY DEF push
<1>3. ((serials % COOKIE_GENERATIONS) + 1) % COOKIE_GENERATIONS = (serials + 1) % COOKIE_GENERATIONS
  BY <1>1, ListingAssumption, NextMod, Zenon
<1>4. QED
  BY <1>1, <1>2, <1>3, Zenon

\* A new listing joins those the handle retains.
LEMMA PushListings ==
    ASSUME ListingsInv, NEW s \in Streams, PushStep(s)
    PROVE  ListingsInv'
<1>1. /\ stream \in [Streams -> Stream] /\ dir \in [Names -> Nat]
      /\ epoch \in Nat /\ serials \in Nat
      /\ listings.next_generation = serials % COOKIE_GENERATIONS
      /\ listings.retained \in Seq(Listing) /\ Once(listings.retained)
      /\ \A l \in Held(listings) : Taken(l)
  BY DEF ListingsInv
<1>2. PICK l \in Listing :
         /\ stream[s].pc = "list" /\ UNCHANGED <<dir, epoch>>
         /\ serials' = serials + 1 /\ listings' = push(listings, l)
         /\ l.serial = serials + 1 /\ l.generation = listings.next_generation
         /\ l.epoch = epoch /\ Len(l.entries) <= MAX_LISTING_LEN
         /\ \A j, k \in DOMAIN l.entries : l.entries[j].name = l.entries[k].name => j = k
         /\ \A k \in DOMAIN l.entries :
               dir[l.entries[k].name] # 0 /\ dir[l.entries[k].name] = l.entries[k].obj
         /\ LET first == stream[s].offset = 0
            IN  stream' = [stream EXCEPT ![s] =
                  [stream[s] EXCEPT
                     !.pc = "replay", !.listing = l, !.owned = TRUE,
                     !.start = split_cookie(stream[s].offset).index, !.own = first,
                     !.serial = IF first THEN l.serial ELSE @,
                     !.seen   = IF first THEN {} ELSE @,
                     !.stable = IF first THEN Present ELSE @]]
  BY PushMoves, Zenon
<1>3. \A m : Taken(m) => Taken(m)' /\ m.serial # l.serial
  BY <1>1, <1>2 DEF Taken, TakenIn
<1>4. Taken(l)'
  <2>1. l.serial \in 1..serials' /\ l.generation = (l.serial - 1) % COOKIE_GENERATIONS
        /\ l.epoch <= epoch'
    BY <1>1, <1>2
  <2>2. QED
    BY <1>2, <2>1 DEF Taken, TakenIn
<1>5. \A m \in Held(listings) : m.serial # l.serial
  BY <1>1, <1>3
<1>6. /\ listings'.retained \in Seq(Listing) /\ Once(listings'.retained)
      /\ Held(listings') \subseteq Held(listings) \cup {l}
  BY <1>1, <1>2, <1>5, PushHolds
<1>7. /\ listings'.next_generation = serials' % COOKIE_GENERATIONS
      /\ listings'.ended \in [Generations -> Nat \cup {NoEnd}]
  BY <1>2, PushCounts, Zenon
<1>8. \E y \in Stream : /\ stream' = [stream EXCEPT ![s] = y] /\ y.pc = "replay" /\ y.listing = l
                        /\ y.page = {}
  <2> DEFINE x     == stream[s]
             first == x.offset = 0
             st    == split_cookie(x.offset).index
             se    == IF first THEN l.serial ELSE x.serial
             sn    == IF first THEN {} ELSE x.seen
             sb    == IF first THEN Present ELSE x.stable
             y == [x EXCEPT !.pc = "replay", !.listing = l, !.owned = TRUE, !.start = st,
                            !.own = first, !.serial = se, !.seen = sn, !.stable = sb]
  <2>1. x \in Stream /\ x.page = {}
    BY <1>1, <1>2 DEF ListingsInv
  <2>2. /\ st \in Nat /\ first \in BOOLEAN
    BY <2>1, ListingAssumption DEF split_cookie, Stream
  <2>3. se \in Nat
    BY <1>1, <1>2, <2>1 DEF Stream
  <2>4. sn \in SUBSET Names /\ sb \in SUBSET Names
    BY <2>1 DEF Stream, Present
  <2>5. stream' = [stream EXCEPT ![s] = y]
    BY <1>2
  <2> HIDE DEF st, se, sn, sb, first
  <2>6. y \in Stream /\ y.pc = "replay" /\ y.listing = l /\ y.page = {}
    BY <2>1, <2>2, <2>3, <2>4, Zenon DEF Stream
  <2>7. QED
    BY <2>5, <2>6, Zenon
<1>9. PICK y \in Stream : /\ stream' = [stream EXCEPT ![s] = y] /\ y.pc = "replay" /\ y.listing = l
                          /\ y.page = {}
  BY <1>8, Zenon
<1>10. /\ stream' \in [Streams -> Stream] /\ stream'[s] = y
       /\ \A u \in Streams : u # s => stream'[u] = stream[u]
  BY <1>1, <1>9
<1>11. \A m \in Held(listings') : Taken(m)'
  BY <1>1, <1>3, <1>4, <1>6, Zenon
<1>12. ASSUME NEW u \in Streams, Reading(stream'[u])
       PROVE  /\ TakenIn(stream'[u].listing, serials', epoch', dir')
              /\ \A m \in Held(listings') :
                    m.serial = stream'[u].listing.serial => m = stream'[u].listing
  <2>1. CASE u = s
    <3>1. stream'[u].listing = l
      BY <1>9, <1>10, <2>1
    <3>2. TakenIn(l, serials', epoch', dir')
      BY <1>4 DEF Taken
    <3>3. QED
      BY <1>5, <1>6, <3>1, <3>2, Zenon
  <2>2. CASE u # s
    <3>1. stream'[u] = stream[u] /\ Reading(stream[u])
      BY <1>10, <1>12, <2>2
    <3>2. /\ Taken(stream[u].listing)
          /\ \A m \in Held(listings) :
                m.serial = stream[u].listing.serial => m = stream[u].listing
      BY <3>1 DEF ListingsInv
    <3>3. PICK m : m = stream[u].listing
      OBVIOUS
    <3>4. Taken(m)' /\ m.serial # l.serial
      BY <1>3, <3>2, <3>3
    <3>5. TakenIn(m, serials', epoch', dir')
      BY <3>4 DEF Taken
    <3>6. QED
      BY <1>6, <3>1, <3>2, <3>3, <3>4, <3>5, Zenon
  <2>3. QED
    BY <2>1, <2>2
<1>13. \A u \in Streams : stream'[u].pc # "filled" => stream'[u].page = {}
  BY <1>9, <1>10 DEF ListingsInv
<1>14. PageIsCurrent'
  BY <1>2, <1>9, <1>10 DEF ListingsInv, PageIsCurrent
<1>15. QED
  BY <1>1, <1>2, <1>6, <1>7, <1>10, <1>11, <1>12, <1>13, <1>14
     DEF ListingsInv, Reading, Taken

\* A page is sent.
LEMMA ReplayListings ==
    ASSUME ListingsInv, NEW s \in Streams, ReplayStep(s)
    PROVE  ListingsInv'
<1> DEFINE x == stream[s]
           l == x.listing
<1>1. x \in Stream /\ x.pc = "replay" /\ UNCHANGED <<dir, epoch, listings, serials>> /\ x.page = {}
  BY ReplayMoves DEF ListingsInv
<1>2. /\ listings'.next_generation = listings.next_generation
      /\ listings'.retained \in Seq(Listing) /\ Once(listings'.retained)
      /\ listings'.ended \in [Generations -> Nat \cup {NoEnd}]
      /\ Held(listings') \subseteq Held(listings)
  BY <1>1 DEF ListingsInv
<1>3. \E y \in Stream : /\ stream' = [stream EXCEPT ![s] = y] /\ y.listing = l
                        /\ y.pc # "filled" => y.page = {}
                        /\ \A e \in y.page : dir[e.name] # 0 /\ dir[e.name] = e.obj
  <2>1. CASE stream' = [stream EXCEPT ![s] = [x EXCEPT !.pc = "idle"]]
    <3>1. [x EXCEPT !.pc = "idle"] \in Stream
      BY <1>1 DEF Stream
    <3>2. [x EXCEPT !.pc = "idle"].page = {} /\ [x EXCEPT !.pc = "idle"].listing = l
      BY <1>1 DEF Stream
    <3>3. QED
      BY <2>1, <3>1, <3>2, Zenon
  <2>2. CASE stream' # [stream EXCEPT ![s] = [x EXCEPT !.pc = "idle"]]
    <3>1. PICK sent, last, page, unsure :
             /\ Sent(x, sent, last, page, unsure)
             /\ stream' = [stream EXCEPT ![s] = Filled(x, sent, last, page, unsure)]
      BY <2>2, ReplayMoves
    <3> DEFINE y == Filled(x, sent, last, page, unsure)
    <3>2. y \in Stream
      BY <1>1, <3>1, ReplayTyped
    <3>3. y.page = page /\ y.listing = l /\ y.pc = "filled"
      BY <1>1 DEF Stream, Filled
    <3>4. stream' = [stream EXCEPT ![s] = y]
      BY <3>1
    <3>5. \A e \in page : dir[e.name] # 0 /\ dir[e.name] = e.obj
      BY <3>1 DEF Sent
    <3> HIDE DEF y
    <3>6. QED
      BY <3>2, <3>3, <3>4, <3>5, Zenon
  <2>3. QED
    BY <2>1, <2>2
<1>4. PICK y \in Stream : /\ stream' = [stream EXCEPT ![s] = y] /\ y.listing = l
                          /\ y.pc # "filled" => y.page = {}
                          /\ \A e \in y.page : dir[e.name] # 0 /\ dir[e.name] = e.obj
  BY <1>3, Zenon
<1>5. /\ Taken(y.listing)
      /\ \A m \in Held(listings) : m.serial = y.listing.serial => m = y.listing
  BY <1>1, <1>4 DEF ListingsInv, Reading
<1>6. QED
  BY <1>1, <1>2, <1>4, <1>5, ReadStep, Zenon

\* The end of a read: finish is called when it sent nothing and the listing is
\* the stream's own.
LEMMA EndMoves ==
    ASSUME ListingsInv, NEW s \in Streams, EndRead(s)
    PROVE  LET x == stream[s]
               y == [x EXCEPT !.pc = "idle", !.ended = (x.page = {} /\ x.unsure = {}),
                              !.kept = (listings' # listings), !.page = {}, !.unsure = {},
                              !.listing = NoListing, !.start = 0]
               f == finish(listings, x.listing, x.start)
           IN  /\ x.pc = "filled" /\ y \in Stream /\ stream' = [stream EXCEPT ![s] = y]
               /\ UNCHANGED <<dir, epoch, serials>>
               /\ listings' = listings \/ (listings' = f /\ Empty(x))
               /\ listings'.next_generation = listings.next_generation
               /\ listings'.retained \in Seq(Listing) /\ Once(listings'.retained)
               /\ listings'.ended \in [Generations -> Nat \cup {NoEnd}]
               /\ listings' # listings =>
                     /\ Held(listings') = {m \in Held(listings) : m.serial # x.listing.serial}
                     /\ \E m \in Held(listings) : m.serial = x.listing.serial
                     /\ listings'.ended = [listings.ended EXCEPT ![x.listing.generation] = x.start]
<1> DEFINE x == stream[s]
           y == [x EXCEPT !.pc = "idle", !.ended = (x.page = {} /\ x.unsure = {}),
                          !.kept = (listings' # listings), !.page = {}, !.unsure = {},
                          !.listing = NoListing, !.start = 0]
           f == finish(listings, x.listing, x.start)
<1>1. /\ x \in Stream /\ stream \in [Streams -> Stream]
      /\ listings.retained \in Seq(Listing) /\ Once(listings.retained)
      /\ listings.ended \in [Generations -> Nat \cup {NoEnd}]
  BY DEF ListingsInv
<1>2. x.start \in Nat /\ NoListing \in Listing
  BY <1>1 DEF Stream, NoListing, Listing
<1>3. /\ x.pc = "filled" /\ UNCHANGED <<dir, epoch, serials>>
      /\ listings' = IF Empty(x) /\ x.owned THEN f ELSE listings
      /\ stream' = [stream EXCEPT ![s].pc = "idle", ![s].ended = (x.page = {} /\ x.unsure = {}),
                                  ![s].kept = (listings' # listings),
                                  ![s].page = {}, ![s].unsure = {},
                                  ![s].listing = NoListing, ![s].start = 0]
  BY Zenon DEF EndRead, Empty
<1>4. stream' = [stream EXCEPT ![s] = y]
  <2> HIDE DEF f
  <2>1. QED
    BY <1>1, <1>3, Zenon
<1>5. y \in Stream
  BY <1>1, <1>2, Zenon DEF Stream
<1>6. Dropped(f, listings, x.listing, x.start)
  BY <1>1, FinishDrops, Zenon
<1> HIDE DEF f
<1>7. f.ended \in [Generations -> Nat \cup {NoEnd}]
  BY <1>1, <1>2, <1>6 DEF Dropped
<1> HIDE DEF x, y
<1>8. listings' = listings \/ (listings' = f /\ Empty(x))
  BY <1>3, Zenon
<1>9. CASE listings' = listings
  BY <1>1, <1>3, <1>4, <1>5, <1>9, Zenon DEF x, y
<1>10. CASE listings' # listings
  <2>1. listings' = f /\ Empty(x) /\ f # listings
    BY <1>8, <1>10
  <2>2. QED
    BY <1>3, <1>4, <1>5, <1>6, <1>7, <2>1, Zenon DEF x, y, f, Dropped
<1>11. QED
  BY <1>9, <1>10

\* The other steps of one stream.
LEMMA EndListings ==
    ASSUME ListingsInv, NEW s \in Streams, EndRead(s) \/ ListingFails(s) \/ Restart(s)
    PROVE  ListingsInv'
<1>1. stream \in [Streams -> Stream] /\ stream[s] \in Stream
  BY DEF ListingsInv
<1>2. CASE EndRead(s)
  <2> DEFINE x == stream[s]
             y == [x EXCEPT !.pc = "idle", !.ended = (x.page = {} /\ x.unsure = {}),
                            !.kept = (listings' # listings), !.page = {}, !.unsure = {},
                            !.listing = NoListing, !.start = 0]
  <2>1. /\ y \in Stream /\ stream' = [stream EXCEPT ![s] = y]
        /\ UNCHANGED <<dir, epoch, serials>>
        /\ listings'.next_generation = listings.next_generation
        /\ listings'.retained \in Seq(Listing) /\ Once(listings'.retained)
        /\ listings'.ended \in [Generations -> Nat \cup {NoEnd}]
        /\ Held(listings') \subseteq Held(listings)
    BY <1>2, EndMoves, Zenon
  <2>2. y.pc = "idle" /\ y.page = {} /\ ~Reading(y)
    BY <1>1 DEF Stream, Reading
  <2> HIDE DEF y
  <2>3. QED
    BY <2>1, <2>2, ReadStep, Zenon
<1>3. CASE ListingFails(s) \/ Restart(s)
  <2>1. /\ UNCHANGED <<dir, epoch, serials, listings>>
        /\ \E y \in Stream : /\ stream' = [stream EXCEPT ![s] = y] /\ y.page = {} /\ y.pc = "idle"
    <3>1. CASE ListingFails(s)
      <4>1. /\ stream[s].pc = "list" /\ stream' = [stream EXCEPT ![s].pc = "idle"]
            /\ UNCHANGED <<dir, epoch, serials, listings>>
        BY <3>1 DEF ListingFails
      <4>2. stream[s].page = {}
        BY <4>1 DEF ListingsInv
      <4> DEFINE y == [stream[s] EXCEPT !.pc = "idle"]
      <4>3. y \in Stream /\ y.page = {} /\ y.pc = "idle"
        BY <1>1, <4>2 DEF Stream
      <4>4. stream' = [stream EXCEPT ![s] = y]
        BY <1>1, <4>1
      <4>5. QED
        BY <4>1, <4>3, <4>4, Zenon
    <3>2. CASE Restart(s)
      <4>1. NoListing \in Listing
        BY DEF NoListing, Listing
      <4>2. NewStream \in Stream /\ NewStream.page = {} /\ NewStream.pc = "idle"
        BY <4>1 DEF NewStream, Stream
      <4>3. /\ stream' = [stream EXCEPT ![s] = NewStream]
            /\ UNCHANGED <<dir, epoch, serials, listings>>
        BY <3>2 DEF Restart
      <4>4. QED
        BY <4>2, <4>3, Zenon
    <3>3. QED
      BY <1>3, <3>1, <3>2
  <2>2. PICK y \in Stream : stream' = [stream EXCEPT ![s] = y] /\ y.page = {} /\ y.pc = "idle"
    BY <2>1, Zenon
  <2>3. /\ listings'.next_generation = listings.next_generation
        /\ listings'.retained \in Seq(Listing) /\ Once(listings'.retained)
        /\ listings'.ended \in [Generations -> Nat \cup {NoEnd}]
        /\ Held(listings') \subseteq Held(listings)
    BY <2>1 DEF ListingsInv
  <2>4. ~Reading(y)
    BY <2>2 DEF Reading
  <2>5. QED
    BY <2>1, <2>2, <2>3, <2>4, ReadStep, Zenon
<1>4. QED
  BY <1>2, <1>3

\* A change to the directory finds no read in flight, and leaves every listing
\* behind by an epoch.
LEMMA ChangeListings ==
    ASSUME ListingsInv, NEW n \in Names, NEW obj \in 0..(MaxChanges + 1), Change(n, obj)
    PROVE  ListingsInv'
<1>1. /\ stream \in [Streams -> Stream] /\ dir \in [Names -> Nat] /\ epoch \in Nat
      /\ \A s \in Streams : stream[s].pc = "idle" /\ stream[s].page = {}
  BY DEF ListingsInv, Change, Idle
<1>2. /\ epoch' = epoch + 1 /\ dir' = [dir EXCEPT ![n] = obj]
      /\ stream' = [s \in Streams |-> [stream[s] EXCEPT !.stable = @ \ {n}]]
      /\ UNCHANGED <<listings, serials>>
  BY DEF Change
<1>3. dir' \in [Names -> Nat] /\ epoch' \in Nat
  BY <1>1, <1>2, ReadsAssumption
<1>4. ASSUME NEW s \in Streams
      PROVE  stream'[s] \in Stream /\ stream'[s].pc = "idle" /\ stream'[s].page = {}
  <2> DEFINE x == stream[s]
             b == x.stable \ {n}
  <2>1. stream'[s] = [x EXCEPT !.stable = b]
    BY <1>2
  <2>2. x \in Stream /\ b \in SUBSET Names /\ x.pc = "idle" /\ x.page = {}
    BY <1>1 DEF Stream
  <2> HIDE DEF x, b
  <2>3. QED
    BY <2>1, <2>2 DEF Stream
<1>5. stream' \in [Streams -> Stream]
  BY <1>2, <1>4
<1>6. \A l \in Held(listings) : Taken(l)'
  <2>1. ASSUME NEW l \in Held(listings) PROVE Taken(l)'
    <3>1. Taken(l) /\ l \in Listing
      BY HeldReadable
    <3>2. l.epoch \in Nat
      BY <3>1 DEF Listing
    <3>3. QED
      BY <1>1, <1>2, <3>1, <3>2 DEF Taken, TakenIn
  <2>2. QED
    BY <2>1
<1>7. PageIsCurrent' /\ \A s \in Streams : ~Reading(stream'[s])
  BY <1>4 DEF PageIsCurrent, Reading
<1>8. QED
  BY <1>2, <1>3, <1>4, <1>5, <1>6, <1>7 DEF ListingsInv, Reading

\* The listings of a handle hold, whichever read comes next.
LEMMA NextListings ==
    ASSUME ListingsInv, [Next]_vars
    PROVE  ListingsInv'
<1>1. CASE \E s \in Streams : InFlight(s) \/ Resume(s) \/ StartListing(s) \/ Restart(s)
  BY <1>1, PushListings, ReplayListings, EndListings, ResumeListings, Zenon DEF InFlight
<1>2. CASE \E n \in Names, obj \in 0..(MaxChanges + 1) : Change(n, obj)
  BY <1>2, ChangeListings, Zenon
<1>3. CASE UNCHANGED vars
  BY <1>3 DEF vars, ListingsInv, PageIsCurrent, Taken
<1>4. QED
  BY <1>1, <1>2, <1>3 DEF Next

\* No listing was taken yet.
LEMMA InitListings ==
    ASSUME Init
    PROVE  ListingsInv
<1>1. /\ dir \in [Names -> {0, 1}] /\ epoch = 0 /\ listings = NewListings /\ serials = 0
      /\ stream = [s \in Streams |-> NewStream]
  BY DEF Init
<1>2. NoListing \in Listing
  BY DEF NoListing, Listing
<1>3. NewStream \in Stream /\ NewStream.page = {} /\ ~Reading(NewStream)
  BY <1>2 DEF NewStream, Stream, Reading
<1>4. /\ listings.retained = <<>> /\ listings.next_generation = 0
      /\ listings.ended = [g \in Generations |-> NoEnd]
  BY <1>1 DEF NewListings
<1>5. Held(listings) = {} /\ Once(listings.retained) /\ listings.retained \in Seq(Listing)
  BY <1>4 DEF Held, Once
<1>6. 0 % COOKIE_GENERATIONS = 0
  BY ListingAssumption
<1>7. listings.ended \in [Generations -> Nat \cup {NoEnd}]
  BY <1>4
<1>8. /\ stream \in [Streams -> Stream]
      /\ \A s \in Streams : stream[s].page = {} /\ ~Reading(stream[s])
  BY <1>1, <1>3
<1>9. PageIsCurrent
  BY <1>8 DEF PageIsCurrent
<1>10. dir \in [Names -> Nat]
  BY <1>1
<1>11. QED
  BY <1>1, <1>4, <1>5, <1>6, <1>7, <1>8, <1>9, <1>10, Zenon DEF ListingsInv

\* However many listings have been taken, and whether or not their generations
\* have wrapped around: what a read sends is what the directory holds.
THEOREM PagesCurrent == Spec => []PageIsCurrent
<1>1. Init => ListingsInv
  BY InitListings
<1>2. ListingsInv /\ [Next]_vars => ListingsInv'
  BY NextListings
<1>3. ListingsInv => PageIsCurrent
  BY DEF ListingsInv
<1>4. QED
  BY <1>1, <1>2, <1>3, PTL DEF Spec

------------------------------------------------------------------------------
(* The streams.                                                              *)

\* Until the generations wrap around, a listing's generation is its number.
LEMMA GenerationOf ==
    ASSUME ListingsInv, Fresh, NEW l, Taken(l)
    PROVE  l.serial \in 1..serials /\ l.generation = l.serial - 1 /\ l.generation \in Generations
<1>1. /\ serials \in Nat /\ l.serial \in 1..serials
      /\ l.generation = (l.serial - 1) % COOKIE_GENERATIONS
  BY DEF ListingsInv, Taken, TakenIn
<1>2. l.serial - 1 \in 0..(COOKIE_GENERATIONS - 1)
  BY <1>1, ListingAssumption DEF Fresh
<1>3. (l.serial - 1) % COOKIE_GENERATIONS = l.serial - 1
  BY <1>2, ListingAssumption
<1>4. QED
  BY <1>1, <1>2, <1>3, Zenon DEF Generations

\* Where a stream is in its listing depends on its cookie and on what it was
\* sent.
LEMMA FollowsOn ==
    ASSUME NEW x, NEW y, NEW l, Follows(x, l), y.offset = x.offset, y.seen = x.seen,
           y.stable \subseteq x.stable
    PROVE  Follows(y, l)
  BY DEF Follows, Index

\* A stream that has all of its listing was sent every name that stayed.
LEMMA AllSent ==
    ASSUME NEW x, NEW l, Follows(x, l),
           \A k \in DOMAIN l.entries : k > Index(x) => l.entries[k].name \notin x.stable,
           Index(x) \in Nat, l.entries \in Seq(DirEntry)
    PROVE  x.stable \subseteq x.seen
<1>1. SUFFICES ASSUME NEW n \in x.stable PROVE n \in x.seen
  OBVIOUS
<1>2. PICK k \in DOMAIN l.entries : l.entries[k].name = n
  BY DEF Follows
<1>3. k \in Nat /\ ~(k > Index(x))
  BY <1>2
<1>4. k <= Index(x)
  BY <1>3
<1>5. QED
  BY <1>2, <1>4 DEF Follows

\* The index of a cookie is a number.
LEMMA IndexNat ==
    ASSUME NEW x \in Stream
    PROVE  Index(x) \in Nat /\ split_cookie(x.offset).generation \in Generations
<1>1. x.offset \in Nat
  BY DEF Stream
<1>2. (x.offset \div COOKIE_SPAN) \in Nat /\ x.offset % COOKIE_SPAN \in Nat
  BY <1>1, ListingAssumption
<1>3. (x.offset \div COOKIE_SPAN) % COOKIE_GENERATIONS \in 0..(COOKIE_GENERATIONS - 1)
  BY <1>2, ListingAssumption
<1>4. QED
  BY <1>2, <1>3 DEF Index, split_cookie, Generations

\* A retained listing of a stream's generation is the stream's own.
LEMMA OwnGeneration ==
    ASSUME ListingsInv, Fresh, NEW x, OwnIn(x, listings, serials), x.offset # 0,
           NEW l \in Held(listings)
    PROVE  l.generation = split_cookie(x.offset).generation <=> l.serial = x.serial
<1>1. l.generation = l.serial - 1 /\ l.serial \in 1..serials
  BY HeldReadable, GenerationOf, Zenon
<1>2. x.serial \in 1..serials /\ split_cookie(x.offset).generation = x.serial - 1 /\ serials \in Nat
  BY DEF OwnIn, ListingsInv
<1>3. QED
  BY <1>1, <1>2

\* The cookie of a stream leads to a retained listing only if that is its own.
LEMMA OwnRetained ==
    ASSUME ListingsInv, Fresh, NEW x, OwnIn(x, listings, serials), x.offset # 0
    PROVE  LET g == split_cookie(x.offset).generation
           IN  /\ Retained(x.offset) => get(listings, g) \in Held(listings)
                                        /\ get(listings, g).serial = x.serial
               /\ (\E l \in Held(listings) : l.serial = x.serial) => Retained(x.offset)
<1> DEFINE g == split_cookie(x.offset).generation
<1>1. listings.retained \in Seq(Listing)
  BY DEF ListingsInv
<1>2. ASSUME Retained(x.offset)
      PROVE  get(listings, g) \in Held(listings) /\ get(listings, g).serial = x.serial
  <2>1. get(listings, g) \in Held(listings) /\ get(listings, g).generation = g
    BY <1>1, <1>2, GetHeld DEF Retained
  <2>2. QED
    BY <2>1, OwnGeneration
<1>3. ASSUME NEW l \in Held(listings), l.serial = x.serial
      PROVE  Retained(x.offset)
  <2>1. l.generation = g
    BY <1>3, OwnGeneration
  <2>2. PICK k \in DOMAIN listings.retained : l = listings.retained[k]
    BY DEF Held
  <2>3. k \in Holding(listings, g)
    BY <1>1, <2>1, <2>2 DEF Holding
  <2>4. QED
    BY <2>3 DEF Retained
<1>4. QED
  BY <1>2, <1>3

\* A step of one stream that leaves the handle and the directory alone.
LEMMA StreamStep ==
    ASSUME ListingsInv, StreamsInv, NEW s \in Streams, NEW y,
           stream' = [stream EXCEPT ![s] = y], UNCHANGED <<dir, listings, serials>>,
           StreamIn(y, listings, serials, dir)
    PROVE  StreamsInv'
<1>1. \A u \in Streams : stream'[u] = IF u = s THEN y ELSE stream[u]
  BY DEF ListingsInv
<1>2. \A u \in Streams : StreamIn(stream'[u], listings, serials, dir)
  BY <1>1 DEF StreamsInv
<1>3. QED
  BY <1>2 DEF StreamsInv

\* directory_listing finds the stream's own listing, or the current one, or
\* that the stream has ended.
LEMMA ResumeStreams ==
    ASSUME ListingsInv, StreamsInv, Fresh, NEW s \in Streams, Resume(s)
    PROVE  StreamsInv'
<1> DEFINE x == stream[s]
           g == split_cookie(x.offset).generation
<1>1. /\ x \in Stream /\ stream \in [Streams -> Stream] /\ x.pc = "idle" /\ x.offset # 0
      /\ UNCHANGED <<dir, listings, serials>> /\ listings.retained \in Seq(Listing)
  BY DEF Resume, ResumeOwn, ResumeCurrent, ReadEnded, Idle, ListingsInv
<1>2. StreamIn(x, listings, serials, dir) /\ NotEnded(listings)
  BY DEF StreamsInv
<1>3. CASE ResumeOwn(s)
  <2> DEFINE l == get(listings, g)
             y == [x EXCEPT !.pc = "replay", !.listing = l, !.start = Index(x), !.owned = TRUE,
                            !.own = @ /\ l.serial = x.serial]
  <2>1. stream' = [stream EXCEPT ![s] = y] /\ Retained(x.offset)
    BY <1>1, <1>3, Zenon DEF ResumeOwn, Index
  <2>2. l \in Held(listings)
    BY <1>1, <2>1, GetHeld DEF Retained
  <2> HIDE DEF l
  <2>3. /\ y.pc = "replay" /\ y.listing = l /\ y.start = Index(x) /\ y.ended = x.ended
        /\ y.kept = x.kept /\ y.own = (x.own /\ l.serial = x.serial) /\ y.serial = x.serial
        /\ y.offset = x.offset /\ y.seen = x.seen /\ y.stable = x.stable
    BY <1>1, Zenon DEF Stream
  <2> HIDE DEF y
  <2>4. ASSUME y.own
        PROVE  ~(y.ended /\ y.kept) /\ OwnIn(y, listings, serials)
    <3>1. x.own /\ l.serial = x.serial /\ OwnIn(x, listings, serials)
      BY <1>2, <2>3, <2>4, Zenon DEF StreamIn
    <3>2. ~(x.ended /\ x.kept)
      BY <1>1, <2>2, <3>1, Zenon DEF OwnIn
    <3>3. \A m \in Held(listings) : m.serial = x.serial => Follows(y, m)
      BY <2>3, <3>1, FollowsOn, Zenon DEF OwnIn
    <3>4. listings.ended[x.serial - 1] = NoEnd
      <4>1. l.generation = x.serial - 1
        BY <2>2, <3>1, HeldReadable, GenerationOf, Zenon
      <4>2. QED
        BY <1>2, <2>2, <4>1, Zenon DEF NotEnded
    <3>5. Index(y) = Index(x)
      BY <2>3, Zenon DEF Index
    <3>6. QED
      BY <2>2, <2>3, <3>1, <3>2, <3>3, <3>4, <3>5, Zenon DEF OwnIn
  <2>5. StreamIn(y, listings, serials, dir)
    BY <1>2, <2>3, <2>4 DEF StreamIn, Empty
  <2>6. QED
    BY <1>1, <2>1, <2>5, StreamStep, Zenon
<1>4. CASE ResumeCurrent(s)
  <2> DEFINE l == current(listings)
             y == [x EXCEPT !.pc = "replay", !.listing = l, !.start = Index(x),
                            !.owned = FALSE, !.own = FALSE]
  <2>1. stream' = [stream EXCEPT ![s] = y]
    BY <1>1, <1>4, Zenon DEF ResumeCurrent, Index
  <2> HIDE DEF l
  <2>2. y.pc = "replay" /\ ~y.own /\ y.stable = x.stable
    BY <1>1, Zenon DEF Stream
  <2> HIDE DEF y
  <2>3. StreamIn(y, listings, serials, dir)
    BY <1>2, <2>2 DEF StreamIn, Empty
  <2>4. QED
    BY <1>1, <2>1, <2>3, StreamStep, Zenon
<1>5. CASE ReadEnded(s)
  <2> DEFINE y == [x EXCEPT !.ended = TRUE]
  <2>1. stream' = [stream EXCEPT ![s] = y] /\ ~Retained(x.offset) /\ Ended(x.offset)
    BY <1>1, <1>5 DEF ReadEnded
  <2>2. /\ y.pc = "idle" /\ y.ended /\ y.kept = x.kept /\ y.own = x.own /\ y.serial = x.serial
        /\ y.offset = x.offset /\ y.seen = x.seen /\ y.stable = x.stable
    BY <1>1 DEF Stream
  <2> HIDE DEF y
  <2>3. ASSUME x.own PROVE OwnIn(y, listings, serials)
    <3>1. OwnIn(x, listings, serials)
      BY <1>2, <2>3, Zenon DEF StreamIn
    <3>2. g = x.serial - 1
      BY <1>1, <3>1 DEF OwnIn
    <3>3. Index(y) = Index(x) /\ listings.ended[x.serial - 1] # NoEnd
          /\ Index(x) >= listings.ended[x.serial - 1]
      BY <2>1, <2>2, <3>2, Zenon DEF Index, Ended, has_ended
    <3>4. \A m \in Held(listings) : m.serial # x.serial
      BY <1>1, <2>1, <3>1, OwnRetained, Zenon
    <3>5. x.stable \subseteq x.seen
      BY <3>1, <3>3, Zenon DEF OwnIn
    <3>6. QED
      BY <2>2, <3>1, <3>3, <3>4, <3>5, Zenon DEF OwnIn, Reading, Empty
  <2>4. StreamIn(y, listings, serials, dir)
    BY <1>2, <2>2, <2>3, Zenon DEF StreamIn, Empty
  <2>5. QED
    BY <1>1, <2>1, <2>4, StreamStep, Zenon
<1>6. QED
  BY <1>3, <1>4, <1>5 DEF Resume

\* What a stream must keep when the page it is sent moves it on.
LEMMA FilledFollows ==
    ASSUME ListingsInv, Fresh, NEW x \in Stream, x.pc = "replay", Taken(x.listing),
           OwnIn(x, listings, serials), \A n \in x.stable : dir[n] # 0,
           NEW sent, NEW last, NEW page, NEW unsure, Sent(x, sent, last, page, unsure), sent # {},
           NEW y, y = Filled(x, sent, last, page, unsure)
    PROVE  /\ split_cookie(y.offset).generation = x.serial - 1 /\ Index(y) = last
           /\ Follows(y, x.listing)
<1> DEFINE l == x.listing
<1>1. /\ l.serial = x.serial /\ Follows(x, l) /\ x.start = Index(x) /\ x.start \in Nat
      /\ l.entries \in Seq(DirEntry)
  BY Zenon DEF OwnIn, Reading, Stream, Listing
<1>2. /\ l.generation = x.serial - 1 /\ l.generation \in Generations
      /\ Len(l.entries) <= MAX_LISTING_LEN
      /\ \A j, k \in DOMAIN l.entries : l.entries[j].name = l.entries[k].name => j = k
  BY <1>1, GenerationOf, Zenon DEF Taken, TakenIn
<1>3. /\ sent \in SUBSET ((x.start + 1)..Len(l.entries)) /\ last \in sent
      /\ \A k \in sent : k <= last
      /\ \A k \in (x.start + 1)..Len(l.entries) :
            k <= last => k \in sent \/ dir[l.entries[k].name] = 0
  BY DEF Sent
<1>4. last \in 1..MAX_LISTING_LEN /\ last > x.start /\ last \in Nat
  BY <1>1, <1>2, <1>3, ListingAssumption DEF MAX_LISTING_LEN
<1>5. /\ y.offset = listing_cookie(l.generation, last - 1) /\ y.stable = x.stable
      /\ y.seen = x.seen \cup {l.entries[k].name : k \in sent}
  BY DEF Filled, Stream
<1>6. split_cookie(y.offset).generation = x.serial - 1 /\ Index(y) = last
  <2>1. split_cookie(listing_cookie(l.generation, last - 1))
           = [generation |-> l.generation, index |-> last]
    BY <1>2, <1>4, CookieSplit, Zenon
  <2>2. split_cookie(y.offset) = [generation |-> l.generation, index |-> last]
    BY <1>5, <2>1, Zenon
  <2>3. QED
    BY <1>2, <2>2 DEF Index
<1>7. ASSUME NEW k \in DOMAIN l.entries, k <= last, l.entries[k].name \in x.stable
      PROVE  l.entries[k].name \in y.seen
  <2>1. CASE k <= x.start
    BY <1>1, <1>5, <1>7, <2>1, Zenon DEF Follows
  <2>2. CASE ~(k <= x.start)
    <3>1. k \in (x.start + 1)..Len(l.entries)
      BY <1>1, <2>2
    <3>2. k \in sent
      BY <1>3, <1>7, <3>1, Zenon
    <3>3. QED
      BY <1>5, <3>2, Zenon
  <2>3. QED
    BY <2>1, <2>2, Zenon
<1>8. ASSUME NEW k \in DOMAIN l.entries, k > last
      PROVE  l.entries[k].name \notin y.seen
  <2>1. k \in Nat /\ k > x.start
    BY <1>1, <1>4, <1>8
  <2>2. l.entries[k].name \notin x.seen
    BY <1>1, <2>1, Zenon DEF Follows
  <2>3. ASSUME NEW j \in sent PROVE l.entries[j].name # l.entries[k].name
    <3>1. j \in DOMAIN l.entries /\ j <= last /\ j \in Nat
      BY <1>1, <1>3, EntryAt
    <3>2. j # k
      BY <1>4, <1>8, <2>1, <3>1
    <3>3. QED
      BY <1>2, <3>1, <3>2, Zenon
  <2>4. QED
    BY <1>5, <2>2, <2>3, Zenon
<1>9. Follows(y, l)
  BY <1>1, <1>5, <1>6, <1>7, <1>8, Zenon DEF Follows
<1>10. QED
  BY <1>6, <1>9, Zenon

\* A page is sent, or the lookup of its first entry fails.
LEMMA ReplayStreams ==
    ASSUME ListingsInv, StreamsInv, Fresh, NEW s \in Streams, ReplayStep(s)
    PROVE  StreamsInv'
<1> DEFINE x == stream[s]
           l == x.listing
<1>1. /\ x \in Stream /\ x.pc = "replay" /\ UNCHANGED <<dir, epoch, listings, serials>>
      /\ Taken(l) /\ \A m \in Held(listings) : m.serial = l.serial => m = l
  BY ReplayMoves, Zenon DEF ListingsInv, Reading
<1>2. /\ StreamIn(x, listings, serials, dir) /\ ~(x.ended /\ x.own /\ x.kept)
      /\ \A n \in x.stable : dir[n] # 0
  BY <1>1 DEF StreamsInv, StreamIn
<1>3. CASE stream' = [stream EXCEPT ![s] = [x EXCEPT !.pc = "idle"]]
  <2> DEFINE y == [x EXCEPT !.pc = "idle"]
  <2>1. /\ y.pc = "idle" /\ y.ended = x.ended /\ y.kept = x.kept /\ y.own = x.own
        /\ y.serial = x.serial /\ y.offset = x.offset /\ y.seen = x.seen /\ y.stable = x.stable
    BY <1>1 DEF Stream
  <2> HIDE DEF y
  <2>2. ASSUME x.own PROVE OwnIn(y, listings, serials)
    <3>1. OwnIn(x, listings, serials)
      BY <1>2, <2>2, Zenon DEF StreamIn
    <3>2. \A m \in Held(listings) : m.serial = x.serial => Follows(y, m)
      BY <2>1, <3>1, FollowsOn, Zenon DEF OwnIn
    <3>3. Index(y) = Index(x) /\ ~Reading(y) /\ ~Empty(y)
      BY <2>1, Zenon DEF Index, Reading, Empty
    <3>4. QED
      BY <1>2, <2>1, <2>2, <3>1, <3>2, <3>3, Zenon DEF OwnIn
  <2>3. StreamIn(y, listings, serials, dir)
    BY <1>2, <2>1, <2>2 DEF StreamIn, Empty
  <2>4. stream' = [stream EXCEPT ![s] = y]
    BY <1>3, Zenon DEF y
  <2>5. QED
    BY <1>1, <2>3, <2>4, StreamStep, Zenon
<1>4. CASE \E sent, last, page, unsure :
              /\ Sent(x, sent, last, page, unsure)
              /\ stream' = [stream EXCEPT ![s] = Filled(x, sent, last, page, unsure)]
  <2>1. PICK sent, last, page, unsure :
              /\ Sent(x, sent, last, page, unsure)
              /\ stream' = [stream EXCEPT ![s] = Filled(x, sent, last, page, unsure)]
    BY <1>4, Zenon
  <2> DEFINE y == Filled(x, sent, last, page, unsure)
  <2>2. /\ y.pc = "filled" /\ y.ended = x.ended /\ y.kept = x.kept /\ y.own = x.own
        /\ y.serial = x.serial /\ y.stable = x.stable /\ x.seen \subseteq y.seen
        /\ y.listing = l /\ y.start = x.start /\ y.page = page /\ y.unsure = unsure
        /\ sent = {} => y.offset = x.offset /\ y.seen = x.seen
    BY <1>1 DEF Stream, Filled
  <2> HIDE DEF y
  <2>3. Empty(y) => sent = {} /\ Exhausted(y, dir)
    <3>1. SUFFICES ASSUME Empty(y) PROVE sent = {} /\ Exhausted(y, dir)
      OBVIOUS
    <3>2. sent = {}
      BY <2>1, <2>2, <3>1, Zenon DEF Empty, Sent
    <3>3. \A k \in (x.start + 1)..Len(l.entries) : dir[l.entries[k].name] = 0
      BY <2>1, <3>2 DEF Sent
    <3>4. l.entries \in Seq(DirEntry) /\ x.start \in Nat
      BY <1>1 DEF Stream, Listing
    <3>5. \A k \in DOMAIN l.entries : k > x.start => k \in (x.start + 1)..Len(l.entries)
      BY <3>4
    <3>6. QED
      BY <2>2, <3>2, <3>3, <3>5 DEF Exhausted
  <2>4. ASSUME x.own PROVE OwnIn(y, listings, serials)
    <3>1. OwnIn(x, listings, serials)
      BY <1>2, <2>4 DEF StreamIn
    <3>2. l.serial = x.serial /\ Follows(x, l) /\ x.start = Index(x)
      BY <1>1, <3>1, Zenon DEF OwnIn, Reading
    <3>3. /\ y.offset # 0 => split_cookie(y.offset).generation = x.serial - 1
          /\ Follows(y, l)
          /\ sent = {} => Index(y) = Index(x)
      <4>1. CASE sent = {}
        BY <2>2, <3>1, <3>2, <4>1, FollowsOn, Zenon DEF OwnIn, Index
      <4>2. CASE sent # {}
        <5>1. split_cookie(y.offset).generation = x.serial - 1 /\ Follows(y, l)
          <6>1. y = Filled(x, sent, last, page, unsure) /\ \A n \in x.stable : dir[n] # 0
            BY <1>2, Zenon DEF y, StreamIn
          <6>2. QED
            BY <1>1, <2>1, <3>1, <4>2, <6>1, FilledFollows
        <5>2. QED
          BY <4>2, <5>1, Zenon
      <4>3. QED
        BY <4>1, <4>2
    <3>4. ASSUME listings.ended[x.serial - 1] # NoEnd, Index(y) >= listings.ended[x.serial - 1]
          PROVE  y.stable \subseteq y.seen
      <4>1. l.entries \in Seq(DirEntry) /\ y \in Stream
        BY <1>1, <2>1, ReplayTyped, Zenon DEF Stream, Listing, y
      <4>2. Index(y) \in Nat /\ Index(x) \in Nat
        BY <1>1, <4>1, IndexNat, Zenon
      <4>3. listings.ended[x.serial - 1] \in Nat
        <5>1. x.serial - 1 \in Generations
          BY <1>1, <3>2, GenerationOf
        <5>2. QED
          BY <3>4, <5>1 DEF ListingsInv
      <4>4. \A k \in DOMAIN l.entries :
               k > listings.ended[x.serial - 1] => l.entries[k].name \notin x.stable
        BY <1>1, <3>1, <3>4, Zenon DEF OwnIn, Reading
      <4>5. \A k \in DOMAIN l.entries : k > Index(y) => l.entries[k].name \notin y.stable
        BY <2>2, <3>4, <4>1, <4>2, <4>3, <4>4
      <4>6. QED
        BY <3>3, <4>1, <4>2, <4>5, AllSent
    <3>5. \A m \in Held(listings) : m.serial = x.serial => Follows(y, m)
      BY <1>1, <3>2, <3>3
    <3>6. Empty(y) => y.start = Index(y)
      BY <2>2, <2>3, <3>2, <3>3, Zenon
    <3>7. Reading(y) /\ Reading(x)
      BY <1>1, <2>2, Zenon DEF Reading
    <3>8. QED
      BY <2>2, <3>1, <3>2, <3>3, <3>4, <3>5, <3>6, <3>7, Zenon DEF OwnIn
  <2>5. StreamIn(y, listings, serials, dir)
    BY <1>2, <2>2, <2>3, <2>4 DEF StreamIn
  <2>6. stream' = [stream EXCEPT ![s] = y]
    BY <2>1 DEF y
  <2>7. QED
    BY <1>1, <2>5, <2>6, StreamStep, Zenon
<1>5. QED
  BY <1>3, <1>4, ReplayMoves

\* The read of stream s ends: what it means for stream u that its listing, if it
\* is the one that was read to the end, is dropped.
LEMMA DropStreams ==
    ASSUME ListingsInv, StreamsInv, Fresh, NEW s \in Streams, Empty(stream[s]),
           NEW d, Dropped(d, listings, stream[s].listing, stream[s].start), d # listings,
           NEW u \in Streams, u # s, stream[u].own
    PROVE  OwnIn(stream[u], d, serials)
<1> DEFINE x == stream[s]
           z == stream[u]
           l == x.listing
<1>1. /\ x \in Stream /\ z \in Stream /\ Reading(x) /\ Taken(l)
      /\ \A m \in Held(listings) : m.serial = l.serial => m = l
  BY DEF ListingsInv, Empty, Reading
<1>2. /\ OwnIn(z, listings, serials) /\ \A n \in z.stable : dir[n] # 0
      /\ Exhausted(x, dir)
  BY DEF StreamsInv, StreamIn
<1>3. /\ l \in Listing /\ l.entries \in Seq(DirEntry) /\ x.start \in Nat
      /\ l.generation = l.serial - 1 /\ l.generation \in Generations /\ l.serial \in 1..serials
  BY <1>1, GenerationOf, Zenon DEF Stream, Listing
<1>4. /\ Held(d) \subseteq Held(listings) /\ l \in Held(listings)
      /\ d.ended = [listings.ended EXCEPT ![l.generation] = x.start]
      /\ \A m \in Held(d) : m.serial # l.serial
  BY <1>1 DEF Dropped
<1>5. /\ serials \in Nat /\ z.serial \in 1..serials
      /\ listings.ended \in [Generations -> Nat \cup {NoEnd}]
  BY <1>2, Zenon DEF OwnIn, ListingsInv
<1>6. CASE z.serial # l.serial
  <2>1. d.ended[z.serial - 1] = listings.ended[z.serial - 1]
    <3>1. z.serial - 1 # l.generation
      BY <1>3, <1>5, <1>6
    <3>2. z.serial - 1 \in Generations
      BY <1>5, ListingAssumption DEF Fresh, Generations
    <3>3. QED
      BY <1>4, <1>5, <3>1, <3>2, Zenon
  <2>2. \A m \in Held(d) : m \in Held(listings)
    BY <1>4
  <2> HIDE DEF z
  <2>3. OwnIn(z, d, serials)
    BY <1>2, <2>1, <2>2, Zenon DEF OwnIn
  <2>4. QED
    BY <2>3 DEF z
<1>7. CASE z.serial = l.serial
  <2>1. d.ended[z.serial - 1] = x.start
    BY <1>3, <1>4, <1>5, <1>7
  <2>2. Follows(z, l)
    BY <1>2, <1>4, <1>7, Zenon DEF OwnIn
  <2>3. \A k \in DOMAIN l.entries : k > x.start => l.entries[k].name \notin z.stable
    BY <1>2, Zenon DEF Exhausted
  <2>4. ASSUME Index(z) >= x.start PROVE z.stable \subseteq z.seen
    <3>1. Index(z) \in Nat
      BY <1>1, IndexNat, Zenon
    <3>2. \A k \in DOMAIN l.entries : k > Index(z) => l.entries[k].name \notin z.stable
      BY <1>3, <2>3, <2>4, <3>1
    <3>3. QED
      BY <1>3, <2>2, <3>1, <3>2, AllSent, Zenon
  <2>5. Reading(z) => z.listing = l
    BY <1>2, <1>4, <1>7, Zenon DEF OwnIn, ListingsInv
  <2>6. ~(z.pc = "idle" /\ z.ended /\ z.kept /\ z.offset # 0)
    BY <1>2, <1>4, <1>7, Zenon DEF OwnIn
  <2>7. \A m \in Held(d) : m \in Held(listings)
    BY <1>4
  <2> HIDE DEF z, x
  <2>8. /\ z.serial \in 1..serials
        /\ z.offset # 0 => split_cookie(z.offset).generation = z.serial - 1
        /\ Reading(z) => z.listing.serial = z.serial /\ Follows(z, z.listing)
        /\ z.pc = "replay" \/ Empty(z) => z.start = Index(z)
        /\ \A m \in Held(d) : m.serial = z.serial => Follows(z, m)
        /\ z.ended => z.stable \subseteq z.seen
    BY <1>2, <2>7, Zenon DEF OwnIn
  <2>9. /\ Index(z) >= d.ended[z.serial - 1] => z.stable \subseteq z.seen
        /\ Reading(z) => \A k \in DOMAIN z.listing.entries :
              k > d.ended[z.serial - 1] => z.listing.entries[k].name \notin z.stable
    BY <2>1, <2>3, <2>4, <2>5
  <2>10. OwnIn(z, d, serials)
    BY <2>6, <2>8, <2>9, Zenon DEF OwnIn
  <2>11. QED
    BY <2>10 DEF z
<1>8. QED
  BY <1>6, <1>7, Zenon

\* The end of a read.
LEMMA EndStreams ==
    ASSUME ListingsInv, StreamsInv, Fresh, NEW s \in Streams, EndRead(s)
    PROVE  StreamsInv'
<1> DEFINE x == stream[s]
           l == x.listing
           y == [x EXCEPT !.pc = "idle", !.ended = (x.page = {} /\ x.unsure = {}),
                          !.kept = (listings' # listings), !.page = {}, !.unsure = {},
                          !.listing = NoListing, !.start = 0]
           f == finish(listings, l, x.start)
<1>1. /\ x.pc = "filled" /\ stream' = [stream EXCEPT ![s] = y] /\ UNCHANGED <<dir, epoch, serials>>
      /\ listings' = listings \/ (listings' = f /\ Empty(x))
      /\ listings' # listings =>
            /\ Held(listings') = {m \in Held(listings) : m.serial # l.serial}
            /\ \E m \in Held(listings) : m.serial = l.serial
            /\ listings'.ended = [listings.ended EXCEPT ![l.generation] = x.start]
  BY EndMoves, Zenon
<1>2. /\ x \in Stream /\ stream \in [Streams -> Stream] /\ Reading(x) /\ Taken(l)
      /\ listings.retained \in Seq(Listing) /\ Once(listings.retained)
      /\ listings.ended \in [Generations -> Nat \cup {NoEnd}] /\ serials \in Nat
  BY <1>1, Zenon DEF ListingsInv, Reading
<1>3. /\ StreamIn(x, listings, serials, dir) /\ NotEnded(listings)
      /\ \A n \in x.stable : dir[n] # 0
  BY DEF StreamsInv, StreamIn
<1>4. /\ l \in Listing /\ l.entries \in Seq(DirEntry) /\ x.start \in Nat
      /\ l.generation = l.serial - 1 /\ l.generation \in Generations /\ l.serial \in 1..serials
  BY <1>2, GenerationOf DEF Stream, Listing
<1>5. Dropped(f, listings, l, x.start)
  BY <1>2, FinishDrops, Zenon
<1>6. listings' # listings => Empty(x) /\ Dropped(listings', listings, l, x.start)
  BY <1>1, <1>5
<1>7. /\ y.pc = "idle" /\ y.ended = (x.page = {} /\ x.unsure = {}) /\ y.own = x.own
      /\ y.kept = (listings' # listings) /\ y.serial = x.serial /\ y.offset = x.offset
      /\ y.seen = x.seen /\ y.stable = x.stable
  BY <1>2 DEF Stream
<1> HIDE DEF y, f
<1>8. Held(listings') \subseteq Held(listings)
  BY <1>1
<1>9. ASSUME x.own PROVE OwnIn(y, listings', serials)
  <2>1. OwnIn(x, listings, serials)
    BY <1>3, <1>9 DEF StreamIn
  <2>2. l.serial = x.serial /\ Follows(x, l) /\ Index(y) = Index(x)
    BY <1>2, <1>7, <2>1, Zenon DEF OwnIn, Index
  <2>3. Empty(x) => x.start = Index(x) /\ x.stable \subseteq x.seen
    <3>1. SUFFICES ASSUME Empty(x) PROVE x.start = Index(x) /\ x.stable \subseteq x.seen
      OBVIOUS
    <3>2. x.start = Index(x) /\ Exhausted(x, dir)
      BY <1>3, <2>1, <3>1, Zenon DEF OwnIn, StreamIn
    <3>3. \A k \in DOMAIN l.entries : k > Index(x) => l.entries[k].name \notin x.stable
      BY <1>3, <3>2, Zenon DEF Exhausted
    <3>4. QED
      BY <1>4, <2>2, <3>2, <3>3, AllSent, Zenon
  <2>4. y.ended => y.stable \subseteq y.seen
    BY <1>1, <1>7, <2>3, Zenon DEF Empty
  <2>5. \A m \in Held(listings') : m.serial = x.serial => Follows(y, m)
    BY <1>7, <1>8, <2>1, FollowsOn, Zenon DEF OwnIn
  <2>6. ~Reading(y) /\ ~Empty(y) /\ y.pc # "replay"
    BY <1>7 DEF Reading, Empty
  <2>7. CASE listings' = listings
    <3>1. listings.ended[x.serial - 1] # NoEnd =>
             (Index(y) >= listings.ended[x.serial - 1] => y.stable \subseteq y.seen)
      BY <1>7, <2>1, <2>2, Zenon DEF OwnIn
    <3>2. y.offset # 0 => split_cookie(y.offset).generation = y.serial - 1
      BY <1>7, <2>1, Zenon DEF OwnIn
    <3>3. QED
      BY <1>7, <2>1, <2>4, <2>5, <2>6, <2>7, <3>1, <3>2, Zenon DEF OwnIn
  <2>8. CASE listings' # listings
    <3>1. listings'.ended[x.serial - 1] = x.start /\ x.start # NoEnd
      <4>1. /\ listings'.ended = [listings.ended EXCEPT ![l.generation] = x.start]
            /\ listings.ended \in [Generations -> Nat \cup {NoEnd}]
        BY <1>1, <1>2, <2>8, Zenon
      <4>2. x.serial - 1 = l.generation /\ l.generation \in Generations /\ x.start \in Nat
        BY <1>4, <2>2, Zenon
      <4>3. QED
        BY <4>1, <4>2 DEF NoEnd
    <3>2. \A m \in Held(listings') : m.serial # x.serial
      BY <1>1, <2>2, <2>8, Zenon
    <3>3. x.start = Index(y) /\ y.stable \subseteq y.seen /\ Index(y) >= x.start
      BY <1>4, <1>6, <1>7, <2>2, <2>3, <2>8
    <3>4. y.offset # 0 => split_cookie(y.offset).generation = y.serial - 1
      BY <1>7, <2>1, Zenon DEF OwnIn
    <3>5. y.serial \in 1..serials
      BY <1>7, <2>1, Zenon DEF OwnIn
    <3>6. QED
      BY <1>7, <2>4, <2>5, <2>6, <3>1, <3>2, <3>3, <3>4, <3>5, Zenon DEF OwnIn
  <2>9. QED
    BY <2>7, <2>8, Zenon
<1>10. StreamIn(y, listings', serials, dir)
  <2>1. ~Empty(y) /\ y.pc = "idle" /\ \A n \in y.stable : dir[n] # 0
    BY <1>3, <1>7 DEF Empty
  <2>2. QED
    BY <1>7, <1>9, <2>1, Zenon DEF StreamIn
<1>11. ASSUME NEW u \in Streams, u # s
       PROVE  StreamIn(stream[u], listings', serials, dir)
  <2>1. StreamIn(stream[u], listings, serials, dir)
    BY DEF StreamsInv
  <2>2. CASE listings' = listings
    BY <2>1, <2>2, Zenon
  <2>3. CASE listings' # listings
    <3>1. PICK d : d = listings'
      OBVIOUS
    <3>2. stream[u].own => OwnIn(stream[u], d, serials)
      BY <1>6, <1>11, <2>3, <3>1, DropStreams, Zenon
    <3>3. QED
      BY <2>1, <3>1, <3>2 DEF StreamIn
  <2>4. QED
    BY <2>2, <2>3
<1>12. NotEnded(listings')
  <2>1. CASE listings' = listings
    BY <1>3, <2>1
  <2>2. CASE listings' # listings
    <3>1. ASSUME NEW m \in Held(listings') PROVE listings'.ended[m.generation] = NoEnd
      <4>1. m \in Held(listings) /\ m.serial # l.serial
        BY <1>1, <2>2
      <4>2. m.generation = m.serial - 1 /\ m.serial \in 1..serials /\ m.generation \in Generations
        BY <4>1, HeldReadable, GenerationOf, Zenon
      <4>3. m.generation # l.generation
        BY <1>2, <1>4, <4>1, <4>2
      <4>4. listings'.ended[m.generation] = listings.ended[m.generation]
        BY <1>1, <1>2, <2>2, <4>2, <4>3, Zenon
      <4>5. QED
        BY <1>3, <4>1, <4>4, Zenon DEF NotEnded
    <3>2. QED
      BY <3>1 DEF NotEnded
  <2>3. QED
    BY <2>1, <2>2
<1>13. \A u \in Streams : StreamIn(stream'[u], listings', serials, dir)
  BY <1>1, <1>2, <1>10, <1>11, Zenon
<1>14. QED
  BY <1>1, <1>12, <1>13 DEF StreamsInv

\* A listing is taken, and the stream that asked for the first one starts on it.
LEMMA PushStreams ==
    ASSUME ListingsInv, StreamsInv, Fresh, NEW s \in Streams, PushStep(s), Fresh'
    PROVE  StreamsInv'
<1> DEFINE x == stream[s]
           first == x.offset = 0
<1>1. PICK l \in Listing :
         /\ x.pc = "list" /\ UNCHANGED <<dir, epoch>>
         /\ serials' = serials + 1 /\ listings' = push(listings, l)
         /\ l.serial = serials + 1 /\ l.generation = listings.next_generation
         /\ \A n \in Present : \E k \in DOMAIN l.entries : l.entries[k].name = n
         /\ stream' = [stream EXCEPT ![s] =
               [x EXCEPT !.pc = "replay", !.listing = l, !.owned = TRUE,
                         !.start = split_cookie(x.offset).index, !.own = first,
                         !.serial = IF first THEN l.serial ELSE @,
                         !.seen   = IF first THEN {} ELSE @,
                         !.stable = IF first THEN Present ELSE @]]
  BY PushMoves, Zenon
<1> DEFINE y == [x EXCEPT !.pc = "replay", !.listing = l, !.owned = TRUE,
                          !.start = split_cookie(x.offset).index, !.own = first,
                          !.serial = IF first THEN l.serial ELSE @,
                          !.seen   = IF first THEN {} ELSE @,
                          !.stable = IF first THEN Present ELSE @]
<1>2. /\ x \in Stream /\ stream \in [Streams -> Stream] /\ serials \in Nat
      /\ listings.retained \in Seq(Listing) /\ Once(listings.retained)
      /\ listings.next_generation = serials % COOKIE_GENERATIONS
      /\ listings.ended \in [Generations -> Nat \cup {NoEnd}]
  BY DEF ListingsInv
<1>3. /\ StreamIn(x, listings, serials, dir) /\ NotEnded(listings) /\ ~x.ended
      /\ \A n \in x.stable : dir[n] # 0
  BY <1>1 DEF StreamsInv, StreamIn
<1>4. serials \in Generations /\ l.generation = serials
  <2>1. serials \in 0..(COOKIE_GENERATIONS - 1)
    BY <1>1, <1>2, ListingAssumption DEF Fresh
  <2>2. serials % COOKIE_GENERATIONS = serials
    BY <2>1, ListingAssumption
  <2>3. QED
    BY <1>1, <1>2, <2>1, <2>2 DEF Generations
<1>5. \A m \in Held(listings) : m.serial \in 1..serials /\ m.generation = m.serial - 1
                                /\ m.generation \in Generations /\ m.serial # l.serial
  <2>1. ASSUME NEW m \in Held(listings)
        PROVE  /\ m.serial \in 1..serials /\ m.generation = m.serial - 1
               /\ m.generation \in Generations
    BY HeldReadable, GenerationOf
  <2>2. QED
    BY <1>1, <1>2, <2>1
<1>6. Held(listings') \subseteq Held(listings) \cup {l}
  BY <1>1, <1>2, <1>5, PushHolds
<1>7. listings'.ended = [listings.ended EXCEPT ![l.generation] = NoEnd]
  BY <1>1, PushCounts
<1>8. /\ listings'.ended[serials] = NoEnd
      /\ \A g \in Generations : g # serials => listings'.ended[g] = listings.ended[g]
  BY <1>2, <1>4, <1>7, Zenon
<1>9. NotEnded(listings')
  <2>1. ASSUME NEW m \in Held(listings') PROVE listings'.ended[m.generation] = NoEnd
    <3>1. CASE m = l
      BY <1>4, <1>8, <3>1, Zenon
    <3>2. CASE m # l
      <4>1. m \in Held(listings) /\ m.generation # serials /\ m.generation \in Generations
        BY <1>2, <1>5, <1>6, <3>2
      <4>2. QED
        BY <1>3, <1>8, <4>1, Zenon DEF NotEnded
    <3>3. QED
      BY <3>1, <3>2
  <2>2. QED
    BY <2>1 DEF NotEnded
<1>10. ASSUME NEW u \in Streams, u # s
       PROVE  StreamIn(stream[u], listings', serials', dir)
  <2> DEFINE z == stream[u]
  <2>1. StreamIn(z, listings, serials, dir)
    BY DEF StreamsInv
  <2>2. ASSUME z.own PROVE OwnIn(z, listings', serials')
    <3>1. OwnIn(z, listings, serials)
      BY <2>1, <2>2 DEF StreamIn
    <3>2. z.serial \in 1..serials /\ z.serial \in 1..serials' /\ z.serial # l.serial
          /\ z.serial - 1 \in Generations /\ z.serial - 1 # serials
      BY <1>1, <1>2, <3>1, ListingAssumption DEF OwnIn, Fresh, Generations
    <3>3. listings'.ended[z.serial - 1] = listings.ended[z.serial - 1]
      BY <1>8, <3>2, Zenon
    <3>4. \A m \in Held(listings') : m.serial = z.serial => m \in Held(listings)
      BY <1>6, <3>2, Zenon
    <3> HIDE DEF z
    <3>5. QED
      BY <3>1, <3>2, <3>3, <3>4, Zenon DEF OwnIn
  <2> HIDE DEF z
  <2>3. StreamIn(z, listings', serials', dir)
    BY <2>1, <2>2 DEF StreamIn
  <2>4. QED
    BY <2>3 DEF z
<1>11. StreamIn(y, listings', serials', dir)
  <2>1. /\ y.pc = "replay" /\ y.own = first /\ y.ended = x.ended /\ y.listing = l
        /\ y.offset = x.offset /\ y.start = Index(x)
        /\ first => y.serial = l.serial /\ y.seen = {} /\ y.stable = Present
        /\ ~first => y.stable = x.stable
    BY <1>2, Zenon DEF Stream, Index
  <2> HIDE DEF y
  <2>2. \A n \in y.stable : dir[n] # 0
    BY <1>3, <2>1, Zenon DEF Present
  <2>3. ASSUME first PROVE OwnIn(y, listings', serials')
    <3>1. Index(y) = 0 /\ y.start = 0
      <4>1. 0 % COOKIE_SPAN = 0
        BY ListingAssumption
      <4>2. QED
        BY <2>1, <2>3, <4>1, Zenon DEF Index, split_cookie
    <3>2. Follows(y, l)
      <4>1. \A k \in DOMAIN l.entries : ~(k <= 0)
        BY DEF Listing
      <4>2. QED
        BY <1>1, <2>1, <2>3, <3>1, <4>1, Zenon DEF Follows
    <3>3. \A m \in Held(listings') : m.serial = y.serial => Follows(y, m)
      BY <1>5, <1>6, <2>1, <2>3, <3>2, Zenon
    <3>4. y.serial \in 1..serials' /\ y.serial - 1 = serials
      BY <1>1, <1>2, <2>1, <2>3
    <3>5. listings'.ended[y.serial - 1] = NoEnd
      BY <1>8, <3>4, Zenon
    <3>6. y.offset = 0 /\ ~y.ended /\ y.pc = "replay" /\ y.listing.serial = y.serial
          /\ y.listing = l
      BY <1>3, <2>1, <2>3, Zenon
    <3>7. QED
      BY <3>1, <3>2, <3>3, <3>4, <3>5, <3>6, Zenon DEF OwnIn
  <2>4. ~Empty(y) /\ ~y.ended /\ y.pc = "replay" /\ y.own = first
    BY <1>3, <2>1 DEF Empty
  <2>5. QED
    BY <2>2, <2>3, <2>4, Zenon DEF StreamIn
<1>12. stream' = [stream EXCEPT ![s] = y]
  BY <1>1, Zenon
<1> HIDE DEF y
<1>13. \A u \in Streams : StreamIn(stream'[u], listings', serials', dir)
  BY <1>2, <1>10, <1>11, <1>12, Zenon
<1>14. QED
  BY <1>1, <1>9, <1>13 DEF StreamsInv

\* A listing is asked for, or fails, or a stream starts over.
LEMMA OtherStreams ==
    ASSUME ListingsInv, StreamsInv, NEW s \in Streams,
           StartListing(s) \/ ListingFails(s) \/ Restart(s)
    PROVE  StreamsInv'
<1> DEFINE x == stream[s]
<1>1. x \in Stream /\ stream \in [Streams -> Stream] /\ StreamIn(x, listings, serials, dir)
  BY Zenon DEF ListingsInv, StreamsInv
<1>2. CASE StartListing(s) \/ ListingFails(s)
  <2>1. /\ UNCHANGED <<dir, listings, serials>> /\ ~Reading(x)
        /\ \E y : /\ stream' = [stream EXCEPT ![s] = y]
                  /\ y.pc \in {"list", "idle"} /\ ~y.ended
                  /\ y.own = x.own /\ y.serial = x.serial
                  /\ y.offset = x.offset /\ y.seen = x.seen /\ y.stable = x.stable
    <3>1. CASE StartListing(s)
      <4> DEFINE y == [x EXCEPT !.pc = "list", !.ended = FALSE]
      <4>1. stream' = [stream EXCEPT ![s] = y] /\ UNCHANGED <<dir, listings, serials>>
            /\ x.pc = "idle"
        BY <1>1, <3>1, Zenon DEF StartListing, Idle
      <4>2. /\ y.pc = "list" /\ ~y.ended /\ y.own = x.own /\ y.serial = x.serial
            /\ y.offset = x.offset /\ y.seen = x.seen /\ y.stable = x.stable
        BY <1>1 DEF Stream
      <4>3. QED
        BY <4>1, <4>2, Zenon DEF Reading
    <3>2. CASE ListingFails(s)
      <4> DEFINE y == [x EXCEPT !.pc = "idle"]
      <4>1. stream' = [stream EXCEPT ![s] = y] /\ UNCHANGED <<dir, listings, serials>>
            /\ x.pc = "list"
        BY <1>1, <3>2 DEF ListingFails
      <4>2. ~x.ended
        BY <1>1, <4>1 DEF StreamIn
      <4>3. /\ y.pc = "idle" /\ ~y.ended /\ y.own = x.own /\ y.serial = x.serial
            /\ y.offset = x.offset /\ y.seen = x.seen /\ y.stable = x.stable
        BY <1>1, <4>2 DEF Stream
      <4>4. QED
        BY <4>1, <4>3, Zenon DEF Reading
    <3>3. QED
      BY <1>2, <3>1, <3>2
  <2>2. PICK y : /\ stream' = [stream EXCEPT ![s] = y]
                 /\ y.pc \in {"list", "idle"} /\ ~y.ended
                 /\ y.own = x.own /\ y.serial = x.serial
                 /\ y.offset = x.offset /\ y.seen = x.seen /\ y.stable = x.stable
    BY <2>1, Zenon
  <2>3. ~Reading(y) /\ ~Empty(y) /\ y.pc # "replay" /\ Index(y) = Index(x)
    BY <2>2 DEF Reading, Empty, Index
  <2> HIDE DEF x
  <2>4. ASSUME x.own PROVE OwnIn(y, listings, serials)
    <3>1. OwnIn(x, listings, serials)
      BY <1>1, <2>4, Zenon DEF StreamIn
    <3>2. \A m \in Held(listings) : m.serial = x.serial => Follows(y, m)
      BY <2>2, <3>1, FollowsOn, Zenon DEF OwnIn
    <3>3. QED
      BY <2>2, <2>3, <3>1, <3>2, Zenon DEF OwnIn
  <2>5. StreamIn(y, listings, serials, dir)
    BY <1>1, <2>2, <2>3, <2>4, Zenon DEF StreamIn
  <2>6. QED
    BY <2>1, <2>2, <2>5, StreamStep, Zenon
<1>3. CASE Restart(s)
  <2>1. stream' = [stream EXCEPT ![s] = NewStream] /\ UNCHANGED <<dir, listings, serials>>
    BY <1>3 DEF Restart
  <2>2. StreamIn(NewStream, listings, serials, dir)
    BY DEF StreamIn, NewStream, Empty
  <2>3. QED
    BY <2>1, <2>2, StreamStep, Zenon
<1>4. QED
  BY <1>2, <1>3

\* A name that changes is no longer one that stayed.
LEMMA ChangeStreams ==
    ASSUME ListingsInv, StreamsInv, NEW n \in Names, NEW obj \in 0..(MaxChanges + 1), Change(n, obj)
    PROVE  StreamsInv'
<1>1. /\ stream \in [Streams -> Stream] /\ dir \in [Names -> Nat]
      /\ \A s \in Streams : stream[s].pc = "idle"
      /\ dir' = [dir EXCEPT ![n] = obj] /\ UNCHANGED <<listings, serials>>
      /\ stream' = [s \in Streams |-> [stream[s] EXCEPT !.stable = @ \ {n}]]
  BY DEF ListingsInv, Change, Idle
<1>2. ASSUME NEW s \in Streams
      PROVE  StreamIn(stream'[s], listings, serials, dir')
  <2> DEFINE x == stream[s]
             y == [x EXCEPT !.stable = @ \ {n}]
  <2>1. stream'[s] = y /\ x \in Stream /\ StreamIn(x, listings, serials, dir) /\ x.pc = "idle"
    BY <1>1 DEF StreamsInv
  <2>2. /\ y.pc = "idle" /\ y.own = x.own /\ y.serial = x.serial /\ y.ended = x.ended
        /\ y.kept = x.kept /\ y.offset = x.offset /\ y.seen = x.seen /\ y.stable = x.stable \ {n}
        /\ x.stable \subseteq Names
    BY <2>1 DEF Stream
  <2>3. \A m \in y.stable : dir'[m] # 0
    BY <1>1, <2>1, <2>2, Zenon DEF StreamIn
  <2> HIDE DEF x, y
  <2>4. ~Reading(y) /\ ~Empty(y) /\ Index(y) = Index(x) /\ y.stable \subseteq x.stable
    BY <2>2 DEF Reading, Empty, Index
  <2>5. ASSUME x.own PROVE OwnIn(y, listings, serials)
    <3>1. OwnIn(x, listings, serials)
      BY <2>1, <2>5, Zenon DEF StreamIn
    <3>2. \A m \in Held(listings) : m.serial = x.serial => Follows(y, m)
      BY <2>2, <2>4, <3>1, FollowsOn, Zenon DEF OwnIn
    <3>3. x.stable \subseteq x.seen => y.stable \subseteq y.seen
      BY <2>2, Zenon
    <3>4. /\ y.serial \in 1..serials
          /\ y.offset # 0 => split_cookie(y.offset).generation = y.serial - 1
          /\ \A m \in Held(listings) : m.serial = y.serial => Follows(y, m)
          /\ y.ended => y.stable \subseteq y.seen
      BY <2>2, <3>1, <3>2, <3>3, Zenon DEF OwnIn
    <3>5. listings.ended[y.serial - 1] # NoEnd =>
             (Index(y) >= listings.ended[y.serial - 1] => y.stable \subseteq y.seen)
      BY <2>2, <2>4, <3>1, <3>3 DEF OwnIn
    <3>6. y.ended /\ y.kept /\ y.offset # 0 =>
             /\ \A m \in Held(listings) : m.serial # y.serial
             /\ listings.ended[y.serial - 1] # NoEnd /\ Index(y) >= listings.ended[y.serial - 1]
      BY <2>1, <2>2, <2>4, <3>1, Zenon DEF OwnIn
    <3>7. QED
      BY <2>2, <2>4, <3>4, <3>5, <3>6, Zenon DEF OwnIn
  <2>6. StreamIn(y, listings, serials, dir')
    BY <2>1, <2>2, <2>3, <2>4, <2>5, Zenon DEF StreamIn
  <2>7. QED
    BY <2>1, <2>6
<1>3. QED
  BY <1>1, <1>2, Zenon DEF StreamsInv

\* Listings are numbered on.
LEMMA SerialsGrow ==
    ASSUME ListingsInv, [Next]_vars
    PROVE  serials' = serials \/ serials' = serials + 1
<1>1. CASE \E s \in Streams : PushStep(s)
  BY <1>1, PushMoves, Zenon
<1>2. CASE \E s \in Streams : ReplayStep(s)
  BY <1>2, ReplayMoves
<1>3. CASE \E s \in Streams :
              ListingFails(s) \/ EndRead(s) \/ Resume(s) \/ StartListing(s) \/ Restart(s)
  <2>1. PICK s \in Streams :
           ListingFails(s) \/ EndRead(s) \/ Resume(s) \/ StartListing(s) \/ Restart(s)
    BY <1>3
  <2>2. CASE ListingFails(s) \/ StartListing(s) \/ Restart(s)
    BY <2>2 DEF ListingFails, StartListing, Restart
  <2>3. CASE EndRead(s)
    BY <2>3, EndMoves, Zenon
  <2>4. CASE Resume(s)
    BY <2>4 DEF Resume, ResumeOwn, ResumeCurrent, ReadEnded
  <2>5. QED
    BY <2>1, <2>2, <2>3, <2>4
<1>4. CASE \E n \in Names, obj \in 0..(MaxChanges + 1) : Change(n, obj)
  BY <1>4 DEF Change
<1>5. CASE UNCHANGED vars
  BY <1>5 DEF vars
<1>6. QED
  BY <1>1, <1>2, <1>3, <1>4, <1>5 DEF Next, InFlight

\* The streams stay where their listings say, as long as the generations have
\* not wrapped around.
LEMMA NextStreams ==
    ASSUME ListingsInv, Fresh => StreamsInv, [Next]_vars
    PROVE  (Fresh => StreamsInv)'
<1>1. SUFFICES ASSUME Fresh' PROVE StreamsInv'
  OBVIOUS
<1>2. Fresh /\ StreamsInv
  <2>1. serials \in Nat /\ (serials' = serials \/ serials' = serials + 1)
    BY SerialsGrow DEF ListingsInv
  <2>2. serials' <= COOKIE_GENERATIONS
    BY <1>1 DEF Fresh
  <2>3. serials <= COOKIE_GENERATIONS
    BY <2>1, <2>2, ListingAssumption
  <2>4. Fresh
    BY <2>3 DEF Fresh
  <2>5. QED
    BY <2>4, Zenon
<1>3. CASE \E s \in Streams : InFlight(s) \/ Resume(s) \/ StartListing(s) \/ Restart(s)
  BY <1>1, <1>2, <1>3, PushStreams, ReplayStreams, EndStreams, ResumeStreams, OtherStreams, Zenon
     DEF InFlight
<1>4. CASE \E n \in Names, obj \in 0..(MaxChanges + 1) : Change(n, obj)
  BY <1>2, <1>4, ChangeStreams, Zenon
<1>5. CASE UNCHANGED vars
  BY <1>2, <1>5 DEF vars, StreamsInv
<1>6. QED
  BY <1>3, <1>4, <1>5 DEF Next

\* No stream has started.
LEMMA InitStreams ==
    ASSUME Init
    PROVE  StreamsInv
<1>1. listings = NewListings /\ stream = [s \in Streams |-> NewStream]
  BY DEF Init
<1>2. listings.retained = <<>>
  BY <1>1, Zenon DEF NewListings
<1>3. NotEnded(listings)
  BY <1>2 DEF NotEnded, Held
<1>4. StreamIn(NewStream, listings, serials, dir)
  BY DEF StreamIn, NewStream, Empty
<1>5. QED
  BY <1>1, <1>3, <1>4, Zenon DEF StreamsInv

\* Until the generations of a handle's listings wrap around, every stream that
\* has had all its pages from one listing is where that listing says, and knows
\* of it whether it has ended.
THEOREM StreamsKept == Spec => [](Fresh => StreamsInv)
<1>1. Init => ListingsInv /\ (Fresh => StreamsInv)
  BY InitListings, InitStreams
<1>2. ListingsInv /\ (Fresh => StreamsInv) /\ [Next]_vars => ListingsInv' /\ (Fresh => StreamsInv)'
  BY NextListings, NextStreams
<1>3. QED
  BY <1>1, <1>2, PTL DEF Spec

------------------------------------------------------------------------------
(* The properties, for a handle that has taken no more listings than there  *)
(* are generations.                                                          *)

\* The streams that list the directory.
Listers == {s \in Streams : stream[s].pc = "list"}

\* Every stream that lists takes one listing more, and the limit allows it.
Bounded == serials + Cardinality(Listers) <= MaxListings

\* A step that leaves no more streams listing.
LEMMA FewerListers ==
    ASSUME ListingsInv, Bounded, serials' = serials, Listers' \subseteq Listers
    PROVE  Bounded'
<1>1. IsFiniteSet(Listers)
  BY ReadsAssumption, FS_Subset DEF Listers
<1>2. /\ IsFiniteSet(Listers') /\ Cardinality(Listers') <= Cardinality(Listers)
  BY <1>1, FS_Subset
<1>3. Cardinality(Listers') \in Nat /\ Cardinality(Listers) \in Nat
  BY <1>1, <1>2, FS_CardinalityType
<1>4. PICK a, b : a = Cardinality(Listers') /\ b = Cardinality(Listers)
  BY Zenon
<1>5. serials \in Nat /\ serials + b <= MaxListings /\ a \in Nat /\ b \in Nat /\ a <= b
  BY <1>2, <1>3, <1>4, Zenon DEF Bounded, ListingsInv
<1>6. serials' + a <= MaxListings
  BY <1>5, ReadsAssumption
<1>7. QED
  BY <1>4, <1>6 DEF Bounded

\* The bound of the model is kept.
LEMMA NextBounded ==
    ASSUME ListingsInv, Bounded, [Next]_vars
    PROVE  Bounded'
<1>1. stream \in [Streams -> Stream] /\ serials \in Nat
  BY DEF ListingsInv
<1>2. IsFiniteSet(Listers) /\ Cardinality(Listers) \in Nat
  BY ReadsAssumption, FS_Subset, FS_CardinalityType DEF Listers
<1>3. CASE \E s \in Streams : PushStep(s)
  <2>1. PICK s \in Streams : PushStep(s)
    BY <1>3
  <2>2. /\ stream[s].pc = "list" /\ serials' = serials + 1 /\ stream'[s].pc # "list"
        /\ \A u \in Streams : u # s => stream'[u] = stream[u]
    <3>1. PICK l \in Listing :
             /\ stream[s].pc = "list" /\ serials' = serials + 1
             /\ LET first == stream[s].offset = 0
                IN  stream' = [stream EXCEPT ![s] =
                      [stream[s] EXCEPT
                         !.pc = "replay", !.listing = l, !.owned = TRUE,
                         !.start = split_cookie(stream[s].offset).index, !.own = first,
                         !.serial = IF first THEN l.serial ELSE @,
                         !.seen   = IF first THEN {} ELSE @,
                         !.stable = IF first THEN Present ELSE @]]
      BY <2>1, PushMoves, Zenon
    <3>2. stream[s] \in Stream
      BY <1>1
    <3>3. QED
      BY <1>1, <3>1, <3>2 DEF Stream
  <2>3. s \in Listers /\ Listers' = Listers \ {s}
    BY <2>2 DEF Listers
  <2>4. Cardinality(Listers \ {s}) = Cardinality(Listers) - 1
    BY <1>2, <2>3, FS_RemoveElement
  <2>5. PICK a, b : a = Cardinality(Listers') /\ b = Cardinality(Listers)
    OBVIOUS
  <2>6. a = b - 1 /\ b \in Nat /\ serials + b <= MaxListings
    BY <1>2, <2>3, <2>4, <2>5, Zenon DEF Bounded
  <2>7. serials' + a <= MaxListings
    BY <1>1, <2>2, <2>6, ReadsAssumption
  <2>8. QED
    BY <2>5, <2>7 DEF Bounded
<1>4. CASE \E s \in Streams : StartListing(s)
  <2>1. PICK s \in Streams : StartListing(s)
    BY <1>4
  <2>2. /\ stream[s].pc = "idle" /\ serials' = serials
        /\ serials + Cardinality(Listers) < MaxListings
        /\ stream' = [stream EXCEPT ![s].pc = "list", ![s].ended = FALSE]
    BY <2>1 DEF StartListing, Idle, Listers
  <2>3. stream'[s].pc = "list" /\ \A u \in Streams : u # s => stream'[u] = stream[u]
    BY <1>1, <2>2 DEF Stream
  <2>4. s \notin Listers /\ Listers' = Listers \cup {s}
    BY <2>2, <2>3, Zenon DEF Listers
  <2>5. Cardinality(Listers \cup {s}) = Cardinality(Listers) + 1
    BY <1>2, <2>4, FS_AddElement, Zenon
  <2>6. PICK a, b : a = Cardinality(Listers') /\ b = Cardinality(Listers)
    OBVIOUS
  <2>7. a = b + 1 /\ b \in Nat /\ serials + b < MaxListings
    BY <1>2, <2>2, <2>4, <2>5, <2>6
  <2>8. serials' + a <= MaxListings
    BY <1>1, <2>2, <2>7, ReadsAssumption
  <2>9. QED
    BY <2>6, <2>8 DEF Bounded
<1>5. CASE \E s \in Streams : ReplayStep(s)
  <2>1. PICK s \in Streams : ReplayStep(s)
    BY <1>5
  <2>2. serials' = serials /\ \E y : stream' = [stream EXCEPT ![s] = y] /\ y.pc # "list"
    <3>1. CASE stream' = [stream EXCEPT ![s] = [stream[s] EXCEPT !.pc = "idle"]]
      <4>1. [stream[s] EXCEPT !.pc = "idle"].pc # "list"
        BY <1>1 DEF Stream
      <4>2. QED
        BY <2>1, <3>1, <4>1, ReplayMoves, Zenon
    <3>2. CASE stream' # [stream EXCEPT ![s] = [stream[s] EXCEPT !.pc = "idle"]]
      <4>1. PICK sent, last, page, unsure :
               stream' = [stream EXCEPT ![s] = Filled(stream[s], sent, last, page, unsure)]
        BY <2>1, <3>2, ReplayMoves
      <4>2. Filled(stream[s], sent, last, page, unsure).pc # "list"
        BY <1>1 DEF Filled, Stream
      <4>3. QED
        BY <2>1, <4>1, <4>2, ReplayMoves, Zenon
    <3>3. QED
      BY <3>1, <3>2
  <2>3. Listers' \subseteq Listers
    BY <1>1, <2>2 DEF Listers
  <2>4. QED
    BY <2>2, <2>3, FewerListers, Zenon
<1>6. CASE \E s \in Streams : ListingFails(s) \/ EndRead(s) \/ Resume(s) \/ Restart(s)
  <2>1. PICK s \in Streams : ListingFails(s) \/ EndRead(s) \/ Resume(s) \/ Restart(s)
    BY <1>6, Zenon
  <2>2. /\ serials' = serials /\ stream'[s].pc # "list"
        /\ \A u \in Streams : u # s => stream'[u] = stream[u]
    <3>1. CASE ListingFails(s)
      BY <1>1, <3>1 DEF ListingFails, Stream
    <3>2. CASE EndRead(s)
      <4> DEFINE x == stream[s]
                 y == [x EXCEPT !.pc = "idle", !.ended = (x.page = {} /\ x.unsure = {}),
                                !.kept = (listings' # listings), !.page = {}, !.unsure = {},
                                !.listing = NoListing, !.start = 0]
      <4>1. stream' = [stream EXCEPT ![s] = y] /\ serials' = serials
        BY <3>2, EndMoves, Zenon
      <4>2. y.pc = "idle"
        BY <1>1 DEF Stream
      <4> HIDE DEF y
      <4>3. QED
        BY <1>1, <4>1, <4>2
    <3>3. CASE ResumeOwn(s)
      BY <1>1, <3>3 DEF ResumeOwn, Stream
    <3>4. CASE ResumeCurrent(s)
      BY <1>1, <3>4 DEF ResumeCurrent, Stream
    <3>5. CASE ReadEnded(s)
      BY <1>1, <3>5, Zenon DEF ReadEnded, Stream, Idle
    <3>6. CASE Restart(s)
      BY <1>1, <3>6 DEF Restart, NewStream
    <3>7. QED
      BY <2>1, <3>1, <3>2, <3>3, <3>4, <3>5, <3>6, Zenon DEF Resume
  <2>3. Listers' \subseteq Listers
    BY <2>2 DEF Listers
  <2>4. QED
    BY <2>2, <2>3, FewerListers
<1>7. CASE (\E n \in Names, obj \in 0..(MaxChanges + 1) : Change(n, obj)) \/ UNCHANGED vars
  <2>1. serials' = serials /\ \A u \in Streams : stream'[u].pc = stream[u].pc
    BY <1>1, <1>7 DEF Change, vars, Stream
  <2>2. Listers' \subseteq Listers
    BY <2>1 DEF Listers
  <2>3. QED
    BY <2>1, <2>2, FewerListers
<1>8. QED
  BY <1>3, <1>4, <1>5, <1>6, <1>7, Zenon DEF Next, InFlight

\* With as many generations as listings, generations never wrap around.
LEMMA AlwaysFresh ==
    ASSUME MaxListings <= COOKIE_GENERATIONS
    PROVE  Spec => [](ListingsInv /\ Fresh /\ StreamsInv)
<1>1. Init => ListingsInv /\ Bounded /\ (Fresh => StreamsInv)
  <2>1. SUFFICES ASSUME Init PROVE ListingsInv /\ Bounded /\ (Fresh => StreamsInv)
    OBVIOUS
  <2>2. Listers = {}
    BY <2>1 DEF Init, Listers, NewStream
  <2>3. Cardinality(Listers) = 0
    BY <2>2, FS_EmptySet
  <2>4. Bounded
    BY <2>1, <2>3, ReadsAssumption DEF Init, Bounded
  <2>5. QED
    BY <2>1, <2>4, InitListings, InitStreams, Zenon
<1>2. ListingsInv /\ Bounded /\ (Fresh => StreamsInv) /\ [Next]_vars
         => ListingsInv' /\ Bounded' /\ (Fresh => StreamsInv)'
  BY NextListings, NextBounded, NextStreams, Zenon
<1>3. ListingsInv /\ Bounded /\ (Fresh => StreamsInv) => ListingsInv /\ Fresh /\ StreamsInv
  <2>1. SUFFICES ASSUME ListingsInv, Bounded PROVE Fresh
    OBVIOUS
  <2>2. Cardinality(Listers) \in Nat
    BY ReadsAssumption, FS_Subset, FS_CardinalityType, Zenon DEF Listers
  <2>3. PICK b : b = Cardinality(Listers)
    OBVIOUS
  <2>4. b \in Nat /\ serials + b <= MaxListings /\ serials \in Nat
    BY <2>1, <2>2, <2>3, Zenon DEF Bounded, ListingsInv
  <2>5. QED
    BY <2>4, ReadsAssumption, ListingAssumption DEF Fresh
<1>4. QED
  BY <1>1, <1>2, <1>3, PTL DEF Spec

\* As long as the handle retains the listing a stream started on, the cookie of
\* the stream finds that listing, for any number of streams, names and listings
\* the handle keeps.
THEOREM StreamsOwn ==
    ASSUME MaxListings <= COOKIE_GENERATIONS
    PROVE  Spec => []StreamsResumeTheirOwn
<1>1. ListingsInv /\ Fresh /\ StreamsInv => StreamsResumeTheirOwn
  <2>1. SUFFICES ASSUME ListingsInv, Fresh, StreamsInv, NEW s \in Streams,
                        stream[s].offset # 0, stream[s].own,
                        NEW k \in DOMAIN listings.retained,
                        listings.retained[k].serial = stream[s].serial
                 PROVE  get(listings, split_cookie(stream[s].offset).generation).serial
                            = stream[s].serial
    BY Zenon DEF StreamsResumeTheirOwn
  <2>2. OwnIn(stream[s], listings, serials)
    BY <2>1 DEF StreamsInv, StreamIn
  <2>3. listings.retained[k] \in Held(listings)
    BY DEF Held
  <2>4. QED
    BY <2>1, <2>2, <2>3, OwnRetained, Zenon
<1>2. QED
  BY <1>1, AlwaysFresh, PTL

\* A stream that is at the end of its own listing has been sent every name that
\* was there all along.
THEOREM NoneMissed ==
    ASSUME MaxListings <= COOKIE_GENERATIONS
    PROVE  Spec => []NothingMissed
<1>1. StreamsInv => NothingMissed
  BY Zenon DEF StreamsInv, StreamIn, OwnIn, NothingMissed
<1>2. QED
  BY <1>1, AlwaysFresh, PTL

\* A stream that has been told it is at its end is told so again, whatever the
\* streams it shares the handle with have done.
THEOREM EndStays ==
    ASSUME MaxListings <= COOKIE_GENERATIONS
    PROVE  Spec => []EndIsFinal
<1>1. ListingsInv /\ Fresh /\ StreamsInv => EndIsFinal
  <2>1. SUFFICES ASSUME ListingsInv, Fresh, StreamsInv, NEW s \in Streams, Idle(s),
                        stream[s].ended, stream[s].own, stream[s].kept, stream[s].offset # 0
                 PROVE  ~Retained(stream[s].offset) /\ Ended(stream[s].offset)
    BY Zenon DEF EndIsFinal
  <2>2. OwnIn(stream[s], listings, serials) /\ stream[s].pc = "idle"
    BY <2>1 DEF StreamsInv, StreamIn, Idle
  <2>3. /\ \A l \in Held(listings) : l.serial # stream[s].serial
        /\ listings.ended[stream[s].serial - 1] # NoEnd
        /\ Index(stream[s]) >= listings.ended[stream[s].serial - 1]
        /\ split_cookie(stream[s].offset).generation = stream[s].serial - 1
    BY <2>1, <2>2, Zenon DEF OwnIn
  <2>4. ~Retained(stream[s].offset)
    BY <2>1, <2>2, <2>3, OwnRetained, Zenon
  <2>5. QED
    BY <2>3, <2>4, Zenon DEF Ended, has_ended, Index
<1>2. QED
  BY <1>1, AlwaysFresh, PTL

\* The step that sends a page is replay_listing's.
LEMMA OnlyReplayFills ==
    ASSUME ListingsInv, [Next]_vars, NEW s \in Streams, stream[s].pc = "replay",
           stream'[s].pc = "filled"
    PROVE  ReplayStep(s)
<1>1. stream \in [Streams -> Stream] /\ stream[s] \in Stream
  BY DEF ListingsInv
<1>2. ASSUME NEW u \in Streams, InFlight(u) \/ Resume(u) \/ StartListing(u) \/ Restart(u), u # s
      PROVE  FALSE
  <2>1. \E y : stream' = [stream EXCEPT ![u] = y]
    <3>1. CASE PushStep(u)
      <4>1. PICK order \in SetToSeqs(Present), attrs \in BOOLEAN : PushListing(u, order, attrs)
        BY <3>1 DEF PushStep
      <4>2. QED
        BY <1>1, <4>1, Zenon DEF PushListing
    <3>2. CASE ReplayStep(u)
      BY <3>2, ReplayMoves, Zenon
    <3>3. CASE EndRead(u)
      BY <3>3, EndMoves, Zenon
    <3>4. CASE ListingFails(u)
      BY <1>1, <3>4, Zenon DEF ListingFails
    <3>5. CASE ResumeOwn(u)
      BY <1>1, <3>5 DEF ResumeOwn
    <3>6. CASE ResumeCurrent(u)
      BY <1>1, <3>6 DEF ResumeCurrent
    <3>7. CASE ReadEnded(u)
      BY <1>1, <3>7 DEF ReadEnded
    <3>8. CASE StartListing(u)
      BY <1>1, <3>8 DEF StartListing
    <3>9. CASE Restart(u)
      BY <1>1, <3>9, Zenon DEF Restart
    <3>10. QED
      BY <1>2, <3>1, <3>2, <3>3, <3>4, <3>5, <3>6, <3>7, <3>8, <3>9, Zenon DEF InFlight, Resume
  <2>2. stream'[s] = stream[s]
    BY <1>1, <1>2, <2>1, Zenon
  <2>3. QED
    BY <2>2
<1>3. ASSUME \/ PushStep(s) \/ EndRead(s) \/ ListingFails(s)
             \/ Resume(s) \/ StartListing(s) \/ Restart(s)
      PROVE  FALSE
  <2>1. CASE PushStep(s)
    BY <2>1, PushMoves, Zenon
  <2>2. CASE EndRead(s)
    BY <2>2, EndMoves, Zenon
  <2>3. CASE ListingFails(s) \/ Resume(s) \/ StartListing(s) \/ Restart(s)
    BY <2>3
       DEF ListingFails, Resume, ResumeOwn, ResumeCurrent, ReadEnded, StartListing, Restart, Idle
  <2>4. QED
    BY <1>3, <2>1, <2>2, <2>3, Zenon
<1>4. ~(\E n \in Names, obj \in 0..(MaxChanges + 1) : Change(n, obj))
  BY DEF Change, Idle
<1>5. ~UNCHANGED vars
  BY DEF vars
<1>6. QED
  BY <1>2, <1>3, <1>4, <1>5, Zenon DEF Next, InFlight

\* No page holds a name its stream was sent before.
THEOREM NoneTwice ==
    ASSUME MaxListings <= COOKIE_GENERATIONS
    PROVE  Spec => NothingTwice
<1>1. ListingsInv /\ Fresh /\ StreamsInv /\ [Next]_vars =>
         [\A s \in Streams :
             stream[s].pc = "replay" /\ stream'[s].pc = "filled" /\ stream[s].own =>
                 \A e \in stream'[s].page \cup stream'[s].unsure :
                     e.name \notin stream[s].seen]_vars
  <2>1. SUFFICES ASSUME ListingsInv, Fresh, StreamsInv, [Next]_vars, NEW s \in Streams,
                        stream[s].pc = "replay", stream'[s].pc = "filled", stream[s].own,
                        NEW e \in stream'[s].page \cup stream'[s].unsure
                 PROVE  e.name \notin stream[s].seen
    OBVIOUS
  <2> DEFINE x == stream[s]
             l == x.listing
  <2>2. x \in Stream /\ stream \in [Streams -> Stream] /\ OwnIn(x, listings, serials)
    BY <2>1, Zenon DEF ListingsInv, StreamsInv, StreamIn
  <2>3. ReplayStep(s)
    BY <2>1, OnlyReplayFills
  <2>4. stream' # [stream EXCEPT ![s] = [x EXCEPT !.pc = "idle"]]
    BY <2>1, <2>2 DEF Stream
  <2>5. PICK sent, last, page, unsure :
              /\ Sent(x, sent, last, page, unsure)
              /\ stream' = [stream EXCEPT ![s] = Filled(x, sent, last, page, unsure)]
    BY <2>1, <2>3, <2>4, ReplayMoves, Zenon
  <2>6. stream'[s].page = page /\ stream'[s].unsure = unsure
    BY <2>2, <2>5, Zenon DEF Filled, Stream
  <2>7. PICK k \in sent : e.name = l.entries[k].name
    BY <2>1, <2>5, <2>6, Zenon DEF Sent
  <2>8. l.entries \in Seq(DirEntry) /\ x.start \in Nat /\ k \in (x.start + 1)..Len(l.entries)
    BY <2>2, <2>5, <2>7, Zenon DEF Stream, Listing, Sent
  <2>9. k \in DOMAIN l.entries /\ k > x.start
    BY <2>8
  <2>10. x.start = Index(x) /\ Follows(x, l)
    BY <2>1, <2>2, Zenon DEF OwnIn, Reading
  <2>11. QED
    BY <2>7, <2>9, <2>10, Zenon DEF Follows
<1>2. QED
  BY <1>1, AlwaysFresh, PTL DEF Spec, NothingTwice

==============================================================================
