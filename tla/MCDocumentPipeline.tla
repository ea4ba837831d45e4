------------------------- MODULE MCDocumentPipeline -------------------------
(* Instances of DocumentPipeline for TLC. *)
EXTENDS DocumentPipeline, TLC

AllFaults == FaultKinds

\* Whether an event is dropped changes nothing in the stores.
StoreFaults == FaultKinds \ {"kafka"}

NoFaults == {}

Symmetry == Permutations(Workers)
=============================================================================
