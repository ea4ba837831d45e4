------------------------ MODULE MCRequestMiddleware -------------------------
(* Instances of RequestMiddleware for TLC. *)
EXTENDS RequestMiddleware, TLC

AllFaults == FaultKinds

Symmetry == Permutations(Requests) \cup Permutations(Bodies)
=============================================================================
