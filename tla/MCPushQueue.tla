---------------------------- MODULE MCPushQueue ----------------------------
(* Small instances of PushQueue. *)
EXTENDS PushQueue, TLC

NodeSymmetry == Permutations(Nodes)
=============================================================================
