--------------------------- MODULE MCTokenBucket ---------------------------
(* Instances of TokenBucket for TLC. *)
EXTENDS TokenBucket, TLC

AllFaults == BucketFaultKinds
Symmetry  == Permutations(Consumers)
=============================================================================
