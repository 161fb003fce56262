------------------------------ MODULE MCSession ------------------------------
(* Instances of Session for TLC. *)
EXTENDS Session

CONSTANTS w1, w2

\* Every request there is a trampoline for.
AllRequests == DOMAIN GoodReplies


==============================================================================
