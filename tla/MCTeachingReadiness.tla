------------------------- MODULE MCTeachingReadiness -------------------------
(* Instances of TeachingReadiness for TLC. *)
EXTENDS TeachingReadiness, TLC
=============================================================================
