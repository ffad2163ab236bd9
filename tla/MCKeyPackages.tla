---------------------------- MODULE MCKeyPackages ----------------------------
(* Small instances of KeyPackages. *)
EXTENDS KeyPackages, TLC

CONSTANTS a, d1, d2

OneAccount == d1 :> a @@ d2 :> a

RequestSymmetry == Permutations(Publishers) \cup Permutations(Claimers)

AllSymmetry == RequestSymmetry \cup Permutations(Refs) \cup Permutations(Devices)
=============================================================================
