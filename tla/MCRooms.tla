------------------------------- MODULE MCRooms -------------------------------
(* Small instances of Rooms for TLC. *)
EXTENDS Rooms, TLC

CONSTANTS u1, u2, u3, r1, r2

Symmetry == Permutations(Users) \cup Permutations(Clients)
=============================================================================
