----------------------------- MODULE HandleRecord -----------------------------
(***************************************************************************)
(* One HandleRecord of typed-fuse-core/src/runtime.rs at the level of its   *)
(* mutex, its condition variable and its Arc: requests clone the record out *)
(* of the handle table and acquire a HandleLease; release takes the record  *)
(* out of the table, waits on `drained' and moves the payload out; whoever  *)
(* drops the last Arc runs Drop for HandleRecord.                           *)
(***************************************************************************)
EXTENDS Naturals, FiniteSets

CONSTANT Users      \* requests that use the handle
ASSUME UsersFinite == IsFiniteSet(Users)

VARIABLES
    active, closing, taken,   \* HandleState
    payload,                  \* "held" in the cell, "moved" out, or "dropped" in place
    inTable,                  \* is the record in the HandleTable?
    user,                     \* where each request is
    closer                    \* where the one release is

state == <<active, closing, taken>>
vars == <<active, closing, taken, payload, inTable, user, closer>>

TypeOK ==
    /\ active \in Nat /\ closing \in BOOLEAN /\ taken \in BOOLEAN
    /\ payload \in {"held", "moved", "dropped"}
    /\ inTable \in BOOLEAN
    /\ user \in [Users -> {"away", "cloned", "leased", "leaving"}]
    /\ closer \in {"away", "removed", "blocked", "woken", "taking", "consuming", "done"}

\* HandleRecord::new, put into the table.
Init ==
    /\ active = 0 /\ closing = FALSE /\ taken = FALSE
    /\ payload = "held"
    /\ inTable = TRUE
    /\ user = [u \in Users |-> "away"]
    /\ closer = "away"

\* Who owns an Arc of the record besides user u.
OthersOwn(u) ==
    \/ inTable
    \/ closer \in {"removed", "blocked", "woken", "taking", "consuming"}
    \/ \E v \in Users \ {u} : user[v] # "away"

\* Drop for HandleRecord, when the last Arc goes.
DropRecord == payload' = IF taken THEN payload ELSE "dropped"

------------------------------------------------------------------------------
\* Runtime::file and ::dir: the record is cloned out of the table.
Fetch(u) ==
    /\ user[u] = "away" /\ inTable
    /\ user' = [user EXCEPT ![u] = "cloned"]
    /\ UNCHANGED <<state, payload, inTable, closer>>

\* Mutated forms, here and below: a definition as a bug would have it. Nothing
\* uses them but the experiments that show the properties notice such a bug.
Acquire_WhileClosing(u) ==
    /\ user[u] = "cloned"
    /\ user' = [user EXCEPT ![u] = "leased"]
    /\ active' = active + 1
    /\ UNCHANGED <<closing, taken, payload, inTable, closer>>

\* acquire.
Acquire(u) ==
    /\ user[u] = "cloned"
    /\ IF closing
       THEN user' = [user EXCEPT ![u] = "leaving"] /\ UNCHANGED active
       ELSE user' = [user EXCEPT ![u] = "leased"] /\ active' = active + 1
    /\ UNCHANGED <<closing, taken, payload, inTable, closer>>

DropLease_NoNotify(u) ==
    /\ user[u] = "leased"
    /\ user' = [user EXCEPT ![u] = "leaving"]
    /\ active' = IF active > 0 THEN active - 1 ELSE 0
    /\ UNCHANGED <<closing, taken, payload, inTable, closer>>

\* Drop for HandleLease: the last one wakes a closer that waits.
DropLease(u) ==
    LET left == IF active > 0 THEN active - 1 ELSE 0
    IN  /\ user[u] = "leased"
        /\ user' = [user EXCEPT ![u] = "leaving"]
        /\ active' = left
        /\ closer' = IF left = 0 /\ closing /\ closer = "blocked" THEN "woken" ELSE closer
        /\ UNCHANGED <<closing, taken, payload, inTable>>

DropArc(u) ==
    /\ user[u] = "leaving"
    /\ user' = [user EXCEPT ![u] = "away"]
    /\ IF OthersOwn(u) THEN UNCHANGED payload ELSE DropRecord
    /\ UNCHANGED <<state, inTable, closer>>

------------------------------------------------------------------------------
\* Runtime::release: the record leaves the table.
Remove ==
    /\ closer = "away" /\ inTable
    /\ inTable' = FALSE
    /\ closer' = "removed"
    /\ UNCHANGED <<state, payload, user>>

WaitOrTake_NoWait == closer' = "taking" /\ taken' = TRUE

\* The test of close_and_take's loop, with the state mutex held.
WaitOrTake ==
    /\ closer' = IF active # 0 THEN "blocked" ELSE "taking"
    /\ taken' = (active = 0)

\* close_and_take, up to its first wait or to drop(state).
Close ==
    /\ closer = "removed"
    /\ closing' = TRUE
    /\ WaitOrTake
    /\ UNCHANGED <<active, payload, inTable, user>>

\* A condition variable may wake its waiter for no reason.
SpuriousWakeup ==
    /\ closer = "blocked"
    /\ closer' = "woken"
    /\ UNCHANGED <<state, payload, inTable, user>>

Recheck ==
    /\ closer = "woken"
    /\ WaitOrTake
    /\ UNCHANGED <<active, closing, payload, inTable, user>>

\* ManuallyDrop::take, after the state mutex has been released.
Take ==
    /\ closer = "taking"
    /\ payload' = "moved"
    /\ closer' = "consuming"
    /\ UNCHANGED <<state, inTable, user>>

\* fs.release has consumed the payload and release drops its Arc.
Released ==
    /\ closer = "consuming"
    /\ closer' = "done"
    /\ IF \E u \in Users : user[u] # "away" THEN UNCHANGED payload ELSE DropRecord
    /\ UNCHANGED <<state, inTable, user>>

\* The runtime is dropped with the handle still open, after its last request.
DropTable ==
    /\ inTable /\ closer = "away" /\ \A u \in Users : user[u] = "away"
    /\ inTable' = FALSE
    /\ DropRecord
    /\ UNCHANGED <<state, user, closer>>

------------------------------------------------------------------------------
UserStep(u) == Acquire(u) \/ DropLease(u) \/ DropArc(u)

CloserStep == Close \/ Recheck \/ Take \/ Released

Next ==
    \/ Remove \/ CloserStep \/ SpuriousWakeup \/ DropTable
    \/ \E u \in Users : Fetch(u) \/ UserStep(u)

Spec == Init /\ [][Next]_vars

\* Threads run and callbacks return. Spurious wakeups are not to be relied on,
\* and nobody has to use or release the handle.
FairSpec == Spec /\ WF_vars(CloserStep) /\ \A u \in Users : WF_vars(UserStep(u))

------------------------------------------------------------------------------
Leased == {u \in Users : user[u] = "leased"}

\* A HandleLease dereferences the payload without a lock: as long as one
\* exists the payload is in its cell ("acquiring the lease increments `active`;
\* close waits for it").
LeaseIsValid == Leased # {} => payload = "held"

\* The strengthening that makes LeaseIsValid inductive.
Ownership ==
    /\ active = Cardinality(Leased)
    /\ taken => closing /\ active = 0
    /\ closing <=> closer \in {"blocked", "woken", "taking", "consuming", "done"}
    /\ taken <=> closer \in {"taking", "consuming", "done"}
    /\ payload = "moved" <=> closer \in {"consuming", "done"}
    /\ inTable => closer = "away"
    /\ payload = "dropped" => ~inTable /\ closer = "away" /\ \A u \in Users : user[u] = "away"
    /\ closer = "away" /\ ~inTable => \A u \in Users : user[u] = "away"

\* A payload moved out to the consuming callback or dropped in place is gone
\* for good: Drop for HandleRecord does not drop it again, whichever thread
\* owns the last Arc.
PayloadLeavesOnce == [][payload # "held" => UNCHANGED payload]_payload

\* The handle as its users see it.
phase ==
    IF payload = "moved" THEN "consumed"
    ELSE IF payload = "dropped" THEN "discarded"
    ELSE IF closing THEN "closing" ELSE "open"

Promise == INSTANCE HandleOwnership WITH phase <- phase, borrowers <- Leased

\* Mutex, condition variable and reference counts together keep the promise of
\* HandleOwnership: no borrower after closing, consumed once and only drained.
ImplementsOwnership == Promise!Spec

\* ... and its liveness: no wakeup of close_and_take is lost.
ImplementsOwnershipFairly == Promise!FairSpec

=============================================================================
