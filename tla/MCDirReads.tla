----------------------------- MODULE MCDirReads -----------------------------
(* Instances of DirReads for TLC. *)
EXTENDS DirReads

CONSTANTS s1, s2, n1, n2

Symmetry == Permutations(Streams) \cup Permutations(Names)

=============================================================================
