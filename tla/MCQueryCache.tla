---------------------------- MODULE MCQueryCache ----------------------------
(* Instances of QueryCache for TLC. *)
EXTENDS QueryCache

CONSTANTS d1

OneAndAll == {d1, All}
AllFaults == FaultKinds
=============================================================================
