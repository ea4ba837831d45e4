--------------------------- MODULE MCTokenSession ---------------------------
(* Instances of TokenSession for TLC. *)
EXTENDS TokenSession, TLC

AllFaults == FaultKinds
Symmetry  == Permutations(Requests) \cup Permutations(Servers)
=============================================================================
