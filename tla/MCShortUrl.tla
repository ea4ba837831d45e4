----------------------------- MODULE MCShortUrl -----------------------------
(* Instances of ShortUrl for TLC. *)
EXTENDS ShortUrl, TLC

Symmetry == Permutations(Docs) \cup Permutations(Codes)
              \cup Permutations(Shares) \cup Permutations(Visits)
=============================================================================
