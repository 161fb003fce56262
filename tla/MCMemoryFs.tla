------------------------------ MODULE MCMemoryFs ------------------------------
(* Instances of MemoryFs for TLC. *)
EXTENDS MemoryFs, TLC

CONSTANTS n1, n2

\* Names are interchangeable: the code never compares them for order here.
Symmetry == Permutations(Names)

==============================================================================
