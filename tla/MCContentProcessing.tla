------------------------ MODULE MCContentProcessing ------------------------
(* Instances of ContentProcessing for TLC. *)
EXTENDS ContentProcessing, TLC

\* Requests are interchangeable.
Interchangeable == Permutations(Operators)
=============================================================================
