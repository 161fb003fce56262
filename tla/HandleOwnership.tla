--------------------------- MODULE HandleOwnership ---------------------------
(***************************************************************************)
(* What an open handle promises (ARCHITECTURE.md, "File-handle lifetime"):  *)
(* requests borrow the payload while the handle is open; closing admits no  *)
(* new borrower; once the borrowers are gone the payload is passed by value  *)
(* to the consuming callback exactly once. A handle still open when the     *)
(* runtime is torn down is discarded instead.                               *)
(***************************************************************************)
CONSTANT Users      \* the requests that may borrow the handle

VARIABLES
    phase,          \* who owns the payload
    borrowers       \* the users that may dereference it

vars == <<phase, borrowers>>

Phases == {"open", "closing", "consumed", "discarded"}

TypeOK == phase \in Phases /\ borrowers \subseteq Users

Init == phase = "open" /\ borrowers = {}

Borrow(u) ==
    /\ phase = "open" /\ u \notin borrowers
    /\ borrowers' = borrowers \cup {u}
    /\ UNCHANGED phase

Return(u) ==
    /\ u \in borrowers
    /\ borrowers' = borrowers \ {u}
    /\ UNCHANGED phase

Close ==
    /\ phase = "open"
    /\ phase' = "closing"
    /\ UNCHANGED borrowers

Consume ==
    /\ phase = "closing" /\ borrowers = {}
    /\ phase' = "consumed"
    /\ UNCHANGED borrowers

Discard ==
    /\ phase = "open" /\ borrowers = {}
    /\ phase' = "discarded"
    /\ UNCHANGED borrowers

Next ==
    \/ Close \/ Consume \/ Discard
    \/ \E u \in Users : Borrow(u) \/ Return(u)

Spec == Init /\ [][Next]_vars

\* A request returns what it borrowed, and a drained handle is consumed.
FairSpec ==
    /\ Spec
    /\ WF_vars(Consume)
    /\ \A u \in Users : WF_vars(Return(u))

=============================================================================
