------------------------- MODULE MCLearningIdentity -------------------------
(* Instances of LearningIdentity for TLC. *)
EXTENDS LearningIdentity, TLC

\* None of these is told from its like.
Interchangeable ==
    Permutations(Clients) \cup Permutations(Versions)
        \cup Permutations(Attributes) \cup Permutations(Slots)
=============================================================================
