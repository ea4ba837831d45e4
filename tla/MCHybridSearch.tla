--------------------------- MODULE MCHybridSearch ---------------------------
(* Instances of HybridSearch for TLC. *)
EXTENDS HybridSearch

UpTo3 == 0..3
From1 == 1..3
UpTo7 == 0..7
=============================================================================
