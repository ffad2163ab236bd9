----------------------------- MODULE MCUploads -----------------------------
(* Small instances of Uploads. *)
EXTENDS Uploads, TLC

CONSTANTS u1, u2, k1, m1, p1, p2, c1, a1

FullSymmetry == Permutations(Clients) \cup Permutations(Users)

=============================================================================
