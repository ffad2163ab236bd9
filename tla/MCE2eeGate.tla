----------------------------- MODULE MCE2eeGate -----------------------------
(* Small instances of E2eeGate. *)
EXTENDS E2eeGate, TLC

AdminSymmetry == Permutations(Admins)
=============================================================================
