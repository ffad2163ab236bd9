------------------------------- MODULE MCLogins -------------------------------
(* Small instances of Logins for TLC. *)
EXTENDS Logins, TLC

Symmetry == Permutations(Procs) \cup Permutations(Devices) \cup Permutations(Tokens)
=============================================================================
