--------------------------- MODULE MCE2eeClients ---------------------------
EXTENDS E2eeClients

CONSTANTS a, b, c, ua, ub, uc

OwnerOf == [d \in Devices |-> CASE d = a -> ua [] d = b -> ub [] d = c -> uc]

(* a and b, with their accounts, may be exchanged. *)
Swap == {[x \in {a, b, ua, ub} |-> CASE x = a -> b [] x = b -> a [] x = ua -> ub [] x = ub -> ua]}
=============================================================================
