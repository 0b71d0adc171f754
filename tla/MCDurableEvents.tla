-------------------------- MODULE MCDurableEvents --------------------------
(* Instances of DurableEvents for TLC. *)
EXTENDS DurableEvents, TLC
=============================================================================
