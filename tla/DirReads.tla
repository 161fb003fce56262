------------------------------- MODULE DirReads -------------------------------
(***************************************************************************)
(* readdir and readdirplus of PathNodeFs on one directory handle that        *)
(* several streams share (FreeBSD gives the opens of a process one handle).  *)
(*                                                                         *)
(* A read holds the adapter's `operations' lock shared from its first step  *)
(* to its last, so reads interleave with each other but not with changes to *)
(* the directory. The critical sections of the handle's mutex are steps of  *)
(* their own: the choice of a listing, push after list_dir, and finish.      *)
(*                                                                         *)
(* External: the filesystem's directory (`dir', which object each name      *)
(* stands for), and the kernel, whose streams start at offset 0, resume at  *)
(* the cookie of the last entry they got, may repeat a read and may start    *)
(* over. Its buffer always has room for one entry.                          *)
(***************************************************************************)
EXTENDS DirListings, FiniteSets

CONSTANTS
    Streams,        \* the streams that share the handle
    Names,          \* names the directory may hold
    LookupErrors,   \* may the filesystem's lookup fail other than by ENOENT?
    MaxListings,    \* bound: listings ever taken
    MaxChanges      \* bound: changes to the directory

ASSUME ReadsAssumption ==
    /\ IsFiniteSet(Streams) /\ IsFiniteSet(Names)
    /\ LookupErrors \in BOOLEAN /\ MaxListings \in Nat /\ MaxChanges \in Nat

VARIABLES
    dir,        \* dir[n]: the object the name stands for, 0 if there is none
    epoch,      \* PathNode::entries_epoch of the directory
    listings,   \* PathDirHandle::listings
    serials,    \* listings taken so far
    stream      \* the state of each stream and of the read it has in flight

vars == <<dir, epoch, listings, serials, stream>>

NoListing == [serial |-> 0, generation |-> 0, epoch |-> 0, attrs |-> FALSE, entries |-> <<>>]

\* pc, listing, start, owned, page and unsure belong to the read in flight, the
\* last two being the entries it sends, apart from those it sends as listed
\* because their lookup failed; offset is the kernel's, as is ended: it was
\* told the stream is at its end. serial,
\* own, kept, seen and stable are history: the listing the stream started on,
\* whether every page came from it, whether the handle noted its end, the names
\* sent so far, and the names that have not changed since it started.
NewStream ==
    [pc |-> "idle", offset |-> 0, listing |-> NoListing, start |-> 0, owned |-> FALSE,
     page |-> {}, unsure |-> {}, ended |-> FALSE, serial |-> 0, own |-> FALSE, kept |-> FALSE,
     seen |-> {}, stable |-> {}]

Present == {n \in Names : dir[n] # 0}

Init ==
    /\ dir \in [Names -> {0, 1}]
    /\ epoch = 0
    /\ listings = NewListings
    /\ serials = 0
    /\ stream = [s \in Streams |-> NewStream]

Idle(s) == stream[s].pc = "idle"

\* What directory_listing gives a nonzero cookie without listing again.
Retained(offset) == Holding(listings, split_cookie(offset).generation) # {}

Ended(offset) == has_ended(listings, split_cookie(offset).generation, split_cookie(offset).index)

------------------------------------------------------------------------------
\* directory_listing: the cookie names a retained listing.
ResumeOwn(s) ==
    LET c == split_cookie(stream[s].offset)
        l == get(listings, c.generation)
    IN  /\ Idle(s) /\ stream[s].offset # 0
        /\ Retained(stream[s].offset)
        /\ stream' = [stream EXCEPT ![s].pc = "replay", ![s].listing = l, ![s].start = c.index,
                                    ![s].owned = TRUE,
                                    ![s].own = @ /\ l.serial = stream[s].serial]
        /\ UNCHANGED <<dir, epoch, listings, serials>>

\* directory_listing: the listing has ended at or before the cookie; the read
\* is answered with nothing.
ReadEnded(s) ==
    /\ Idle(s) /\ stream[s].offset # 0
    /\ ~Retained(stream[s].offset) /\ Ended(stream[s].offset)
    /\ stream' = [stream EXCEPT ![s].ended = TRUE]
    /\ UNCHANGED <<dir, epoch, listings, serials>>

\* directory_listing: the listing was evicted; the current one is borrowed.
ResumeCurrent(s) ==
    LET c == split_cookie(stream[s].offset)
    IN  /\ Idle(s) /\ stream[s].offset # 0
        /\ ~Retained(stream[s].offset) /\ ~Ended(stream[s].offset)
        /\ listings.retained # <<>>
        /\ stream' = [stream EXCEPT ![s].pc = "replay", ![s].listing = current(listings),
                                    ![s].start = c.index, ![s].owned = FALSE, ![s].own = FALSE]
        /\ UNCHANGED <<dir, epoch, listings, serials>>

\* directory_listing: list_dir runs outside the handle's mutex, for a read from
\* the start or one that finds no listing at all.
StartListing(s) ==
    /\ Idle(s)
    /\ serials + Cardinality({u \in Streams : stream[u].pc = "list"}) < MaxListings
    /\ stream[s].offset # 0 =>
          ~Retained(stream[s].offset) /\ ~Ended(stream[s].offset) /\ listings.retained = <<>>
    /\ stream' = [stream EXCEPT ![s].pc = "list", ![s].ended = FALSE]
    /\ UNCHANGED <<dir, epoch, listings, serials>>

\* list_dir returns the names in some order, with or without attributes; the
\* listing is pushed unless it has too many entries (EOVERFLOW) or fails.
PushListing(s, order, attrs) ==
    LET l == [serial |-> serials + 1, generation |-> listings.next_generation,
              epoch |-> epoch, attrs |-> attrs,
              entries |-> [k \in DOMAIN order |-> [name |-> order[k], obj |-> dir[order[k]]]]]
        first == stream[s].offset = 0
    IN  /\ stream[s].pc = "list"
        /\ Len(order) <= MAX_LISTING_LEN
        /\ listings' = push(listings, l)
        /\ serials' = serials + 1
        /\ stream' = [stream EXCEPT
               ![s].pc = "replay", ![s].listing = l, ![s].owned = TRUE,
               ![s].start = split_cookie(stream[s].offset).index,
               ![s].own = first,
               ![s].serial = IF first THEN l.serial ELSE @,
               ![s].seen   = IF first THEN {} ELSE @,
               ![s].stable = IF first THEN Present ELSE @]
        /\ UNCHANGED <<dir, epoch>>

ListingFails(s) ==
    /\ stream[s].pc = "list"
    /\ stream' = [stream EXCEPT ![s].pc = "idle"]
    /\ UNCHANGED <<dir, epoch, listings, serials>>

\* replay_listing. An entry that needs a lookup is skipped if its name is gone
\* and sent as it is now if it is not; when the lookup fails the entry is sent
\* as listed, unless it has no attributes to send, which ends the reply before
\* it. `failing' are the indices whose lookup fails; `last' is the index of
\* the last entry the buffer takes.
Replay(s, plus, failing, last) ==
    LET l         == stream[s].listing
        needsAttr == plus /\ ~l.attrs
        lookups   == epoch # l.epoch \/ needsAttr
        offered   == {k \in (stream[s].start + 1)..Len(l.entries) :
                         ~needsAttr \/ \A f \in failing : k < f}
        sendable  == {k \in offered :
                         ~lookups \/ k \in failing \/ dir[l.entries[k].name] # 0}
        sent      == {k \in sendable : k <= last}
        Entry(k)  == IF lookups /\ k \notin failing
                     THEN [l.entries[k] EXCEPT !.obj = dir[l.entries[k].name]]
                     ELSE l.entries[k]
    IN  /\ stream[s].pc = "replay"
        /\ failing \subseteq {k \in 1..Len(l.entries) : k > stream[s].start}
        /\ failing # {} => LookupErrors /\ lookups
        /\ IF sendable = {} THEN last = 0 ELSE last \in sendable
        /\ IF sendable = {} /\ needsAttr /\ failing # {}
           THEN stream' = [stream EXCEPT ![s].pc = "idle"]
           ELSE stream' = [stream EXCEPT
                    ![s].pc = "filled",
                    ![s].page = {Entry(k) : k \in sent \ failing},
                    ![s].unsure = {Entry(k) : k \in sent \cap failing},
                    ![s].seen = @ \cup {l.entries[k].name : k \in sent},
                    ![s].offset = IF sent = {} THEN @ ELSE listing_cookie(l.generation, last - 1)]
        /\ UNCHANGED <<dir, epoch, listings, serials>>

\* The end of readdir and readdirplus: a read that sent nothing ends the stream
\* and drops the listing, unless it was borrowed.
EndRead(s) ==
    LET r     == stream[s]
        empty == r.page = {} /\ r.unsure = {}
    IN  /\ r.pc = "filled"
        /\ listings' = IF empty /\ r.owned
                       THEN finish(listings, r.listing, r.start) ELSE listings
        /\ stream' = [stream EXCEPT ![s].pc = "idle", ![s].ended = empty,
                                    ![s].kept = (listings' # listings),
                                    ![s].page = {}, ![s].unsure = {},
                                    ![s].listing = NoListing, ![s].start = 0]
        /\ UNCHANGED <<dir, epoch, serials>>

\* rewinddir, or the next opendir of a process that shares the handle.
Restart(s) ==
    /\ Idle(s) /\ stream[s].offset # 0
    /\ stream' = [stream EXCEPT ![s] = NewStream]
    /\ UNCHANGED <<dir, epoch, listings, serials>>

\* A mutated form of Change: the change leaves entries_epoch alone.
Change_SameEpoch(n, obj) ==
    /\ \A s \in Streams : Idle(s)
    /\ epoch < MaxChanges
    /\ dir' = [dir EXCEPT ![n] = obj]
    /\ stream' = [s \in Streams |-> [stream[s] EXCEPT !.stable = @ \ {n}]]
    /\ UNCHANGED <<epoch, listings, serials>>

\* create, mknod, mkdir, symlink, link, unlink, rmdir and rename hold the
\* `operations' lock exclusively; the epoch moves even if the change fails.
Change(n, obj) ==
    /\ \A s \in Streams : Idle(s)
    /\ epoch < MaxChanges
    /\ epoch' = epoch + 1
    /\ dir' = [dir EXCEPT ![n] = obj]
    /\ stream' = [s \in Streams |-> [stream[s] EXCEPT !.stable = @ \ {n}]]
    /\ UNCHANGED <<listings, serials>>

ReplayStep(s) ==
    LET all == 1..Len(stream[s].listing.entries)
    IN  \E plus \in BOOLEAN, failing \in SUBSET all, last \in all \cup {0} :
            Replay(s, plus, failing, last)

PushStep(s) == \E order \in SetToSeqs(Present), attrs \in BOOLEAN : PushListing(s, order, attrs)

\* A read that has started runs to its end ...
InFlight(s) == PushStep(s) \/ ListingFails(s) \/ ReplayStep(s) \/ EndRead(s)

\* ... and a stream resumes where it is.
Resume(s) == ResumeOwn(s) \/ ResumeCurrent(s) \/ ReadEnded(s)

Next ==
    \/ \E s \in Streams : InFlight(s) \/ Resume(s) \/ StartListing(s) \/ Restart(s)
    \/ \E n \in Names, obj \in 0..(MaxChanges + 1) : Change(n, obj)

Spec == Init /\ [][Next]_vars

------------------------------------------------------------------------------
(* Properties.                                                               *)

\* As long as the handle still retains a stream's listing, a read the stream
\* resumes gets that listing (ARCHITECTURE.md: "a nonzero read resumes the
\* listing its cookie names. The handle keeps the four most recent listings,
\* so two streams interleaved on one handle ... each resume their own").
StreamsResumeTheirOwn ==
    \A s \in Streams :
        /\ Idle(s) /\ stream[s].offset # 0 /\ stream[s].own
        /\ \E k \in DOMAIN listings.retained : listings.retained[k].serial = stream[s].serial
        => get(listings, split_cookie(stream[s].offset).generation).serial = stream[s].serial

\* What a read sends is what the directory holds while it is sent, however
\* old the listing is, unless the lookup that would tell fails: a name that
\* has been removed is not reported, and one that now stands for something
\* else is sent as that.
PageIsCurrent ==
    \A s \in Streams : \A e \in stream[s].page : dir[e.name] # 0 /\ dir[e.name] = e.obj

\* A stream that reads its own listing to the end has been sent every name
\* that was there all along.
NothingMissed ==
    \A s \in Streams : stream[s].ended /\ stream[s].own => stream[s].stable \subseteq stream[s].seen

\* ... and no name twice.
NothingTwice ==
    [][\A s \in Streams :
          stream[s].pc = "replay" /\ stream'[s].pc = "filled" /\ stream[s].own =>
              \A e \in stream'[s].page \cup stream'[s].unsure : e.name \notin stream[s].seen]_vars

\* Once a stream has been told it is at its end, reading again at the same
\* place tells it so again without listing the directory, whatever the other
\* streams do in the meantime ("A repeated read at that point stays empty
\* instead of listing again"). A listing evicted during its last read is the
\* exception the comment of finish makes.
EndIsFinal ==
    \A s \in Streams : Idle(s) /\ stream[s].ended /\ stream[s].own /\ stream[s].kept =>
        stream[s].offset = 0 \/ (~Retained(stream[s].offset) /\ Ended(stream[s].offset))

==============================================================================
