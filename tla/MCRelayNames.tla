---------------------------- MODULE MCRelayNames ----------------------------
(* RelayStore with identity in focus: endpoints that register, move between   *)
(* two projects, take names from each other, close and come back, while a     *)
(* message is sent by endpoint, by name or by session reference.              *)
EXTENDS RelayStore, TLC

Symmetric == Permutations(Endpoints) \cup Permutations(Aliases) \cup Permutations(Containers)

=============================================================================
