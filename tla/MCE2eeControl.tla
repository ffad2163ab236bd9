--------------------------- MODULE MCE2eeControl ---------------------------
(* Small instances of E2eeControl: account A with devices a1 and a2,       *)
(* account B with device b1, and rooms that start with both or with B.     *)
EXTENDS E2eeControl, TLC

CONSTANTS A, B, a1, a2, b1, i1, i2, k1, k2

MCOwner == [d \in Devices |-> IF d = b1 THEN B ELSE A]

OneHandle == {<<i1, k1>>}

\* A third request has the id of one and the key of the other.
DriftHandles == {<<i1, k1>>, <<i2, k2>>, <<i2, k1>>}

AllTrusted   == [d \in Devices |-> "active"]
SecondAbsent == [d \in Devices |-> IF d = a2 THEN "absent" ELSE "active"]
Everyone     == [r \in Rooms |-> {A, B}]
OnlyB        == [r \in Rooms |-> {B}]

SubmitterSymmetry == Permutations(Submitters)
=============================================================================
