--------------------------- MODULE MCRetrievalSync ---------------------------
(* Instances of RetrievalSync for TLC. *)
EXTENDS RetrievalSync, TLC
=============================================================================
