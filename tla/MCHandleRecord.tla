--------------------------- MODULE MCHandleRecord ---------------------------
(* Instances of HandleRecord for TLC. *)
EXTENDS HandleRecord

CONSTANTS u1, u2, u3, u4

=============================================================================
