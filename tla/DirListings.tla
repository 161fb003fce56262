----------------------------- MODULE DirListings -----------------------------
(***************************************************************************)
(* The listings a directory handle of the path adapter retains              *)
(* (typed-fuse-core/src/path_fs.rs): resume cookies and the DirListings      *)
(* bookkeeping, as functions of the value its mutex guards.                 *)
(*                                                                         *)
(* A listing is a record [serial, generation, epoch, attrs, entries]; the   *)
(* serial number stands for the identity of its Arc, the entries are a      *)
(* sequence of [name, obj] pairs.                                           *)
(***************************************************************************)
EXTENDS Integers, SequencesExt

CONSTANTS
    COOKIE_SPAN,         \* 2 ^ COOKIE_INDEX_BITS (2^27 in the code)
    COOKIE_GENERATIONS,  \* generations a cookie can tell apart (16)
    RETAINED_LISTINGS    \* listings a handle keeps (4)

ASSUME ListingAssumption ==
    /\ COOKIE_SPAN \in Nat \ {0}
    /\ COOKIE_GENERATIONS \in Nat \ {0}
    /\ RETAINED_LISTINGS \in Nat \ {0}

\* The most entries a listing can hold and still fit its cookies.
MAX_LISTING_LEN == COOKIE_SPAN - 1

Generations == 0..(COOKIE_GENERATIONS - 1)

\* Mutated forms, here and below: a definition as a bug would have it. Nothing
\* uses them but the experiments that show the properties notice such a bug.
listing_cookie_SameEntry(generation, index) == generation * COOKIE_SPAN + index

\* The code's shift, mask and "or" on disjoint bits. `index' counts from 0.
listing_cookie(generation, index) == generation * COOKIE_SPAN + index + 1

split_cookie_SkipsOne(offset) ==
    [generation |-> (offset \div COOKIE_SPAN) % COOKIE_GENERATIONS,
     index      |-> (offset % COOKIE_SPAN) + 1]

split_cookie(offset) ==
    [generation |-> (offset \div COOKIE_SPAN) % COOKIE_GENERATIONS,
     index      |-> offset % COOKIE_SPAN]

------------------------------------------------------------------------------
NoEnd == -1    \* None, in the `ended' array

NewListings ==
    [next_generation |-> 0, retained |-> <<>>, ended |-> [g \in Generations |-> NoEnd]]

has_ended(d, generation, index) ==
    d.ended[generation] # NoEnd /\ index >= d.ended[generation]

\* The positions of `retained' that hold the generation; get finds the first.
Holding(d, generation) ==
    {k \in 1..Len(d.retained) : d.retained[k].generation = generation}

get_Newest(d, generation) == d.retained[Len(d.retained)]

get(d, generation) ==
    d.retained[CHOOSE k \in Holding(d, generation) :
                   \A j \in Holding(d, generation) : k <= j]

current(d) == d.retained[Len(d.retained)]

\* The positions of `retained' that hold the very listing. retain drops them:
\* a listing is pushed once, so there is at most one.
Places(d, listing) == {k \in DOMAIN d.retained : d.retained[k].serial = listing.serial}

finish_Forgets(d, listing, end) ==
    LET held == Places(d, listing)
    IN  IF held = {} THEN d ELSE [d EXCEPT !.retained = RemoveAt(@, CHOOSE k \in held : TRUE)]

\* finish: the listing is dropped, and where it ended is remembered, unless it
\* was evicted in the meantime.
finish(d, listing, end) ==
    LET held == Places(d, listing)
    IN  IF held = {} THEN d
        ELSE [d EXCEPT !.retained = RemoveAt(@, CHOOSE k \in held : TRUE),
                       !.ended[listing.generation] = end]

\* push: the new listing is the newest; the oldest makes room for it.
push(d, listing) ==
    [next_generation |-> (d.next_generation + 1) % COOKIE_GENERATIONS,
     retained |-> Append(IF Len(d.retained) = RETAINED_LISTINGS THEN Tail(d.retained)
                                                                ELSE d.retained, listing),
     ended |-> [d.ended EXCEPT ![listing.generation] = NoEnd]]

==============================================================================
