--------------------------- MODULE ProfileHistory ---------------------------
(***************************************************************************)
(* What the learning profile promises to a learner and to the clients that *)
(* read it, without drafts, evidence, marks or counters.  Published        *)
(* versions are a history that only grows, and whose latest is in force.   *)
(* The profile is in use, in question, restricted or archived, as          *)
(* publications and people make it; of a learner's profiles one at most is *)
(* not archived; and no client stays informed of a profile that has        *)
(* changed.                                                                *)
(*                                                                         *)
(* Reopen is no promise: the domain model says that an archived profile    *)
(* receives no draft, and nothing has it come back.  The publishing        *)
(* commands do not ask, so that the action is here for what is left then.  *)
(***************************************************************************)
CONSTANTS Clients, Versions, Attributes

VARIABLES
    phase,      \* the status of the profile
    history,    \* its published versions, as pairs of a version and its attributes
    current,    \* the version in force, or None
    elsewhere,  \* the learner has another profile, which is not archived
    informed    \* the clients who know the profile as it is

profile == <<phase, history, current, elsewhere, informed>>

None == "none"

Init ==
    /\ phase = "draft"
    /\ history = {}
    /\ current = None
    /\ elsewhere = FALSE
    /\ informed = {}

\* v, with these attributes, is added to the history and is in force.
Enter(v, attributes) ==
    /\ \A h \in history : h[1] # v
    /\ history' = history \cup {<<v, attributes>>}
    /\ current' = v
    /\ informed' = {}
    /\ UNCHANGED elsewhere

\* A publication ends a review, and leaves a restriction as it is.
Publish(v, attributes) ==
    /\ phase # "archived"
    /\ phase' = IF phase = "restricted" THEN "restricted" ELSE "active"
    /\ Enter(v, attributes)

\* What the code does and nobody promises: a publication brings an archived
\* profile back into use, though never beside another one.
Reopen(v, attributes) ==
    /\ phase = "archived"
    /\ ~elsewhere
    /\ phase' = "active"
    /\ Enter(v, attributes)

\* By somebody who knows what comes into question.
Question ==
    /\ phase = "active"
    /\ informed # {}
    /\ phase' = "needs_review"
    /\ informed' = {}
    /\ UNCHANGED <<history, current, elsewhere>>

\* Likewise, of what becomes restricted or archived.
Close(closed) ==
    /\ phase # "archived"
    /\ informed # {}
    /\ phase' = closed
    /\ informed' = {}
    /\ UNCHANGED <<history, current, elsewhere>>

Inform(c) ==
    /\ informed' = informed \cup {c}
    /\ UNCHANGED <<phase, history, current, elsewhere>>

\* Drafts, evidence and preferences, which clients may have to read again.
Work ==
    /\ informed' = {}
    /\ UNCHANGED <<phase, history, current, elsewhere>>

OpenAnother ==
    /\ phase = "archived"
    /\ ~elsewhere
    /\ elsewhere' = TRUE
    /\ UNCHANGED <<phase, history, current, informed>>

ArchiveAnother ==
    /\ elsewhere
    /\ elsewhere' = FALSE
    /\ UNCHANGED <<phase, history, current, informed>>

Next ==
    \/ \E v \in Versions, attributes \in SUBSET Attributes :
        Publish(v, attributes) \/ Reopen(v, attributes)
    \/ Question
    \/ \E closed \in {"restricted", "archived"} : Close(closed)
    \/ \E c \in Clients : Inform(c)
    \/ Work \/ OpenAnother \/ ArchiveAnother

Spec == Init /\ [][Next]_profile
=============================================================================
