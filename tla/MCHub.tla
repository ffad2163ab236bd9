-------------------------------- MODULE MCHub --------------------------------
(* Small instances of Hub for TLC. *)
EXTENDS Hub, TLC

CONSTANTS c1, c2, c3, g1, g2

Symmetry == Permutations(Conns)
=============================================================================
