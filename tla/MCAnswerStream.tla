--------------------------- MODULE MCAnswerStream ---------------------------
(* Instances of AnswerStream for TLC. *)
EXTENDS AnswerStream

AllFaults == FaultKinds
=============================================================================
