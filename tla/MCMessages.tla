----------------------------- MODULE MCMessages -----------------------------
(* Small instances of Messages for TLC. *)
EXTENDS Messages, TLC

CONSTANTS r1, r2, r3, k1, x1, x2

Symmetry == Permutations(Requests) \cup Permutations(Texts)
=============================================================================
