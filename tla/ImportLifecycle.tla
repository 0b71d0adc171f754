-------------------------- MODULE ImportLifecycle --------------------------
(***************************************************************************)
(* What content processing promises of an import, without rows, stages,    *)
(* tasks or requests.  An import is worked on, one numbered attempt after  *)
(* the other; an attempt may validate a proposal; content is offered for   *)
(* review, and from there to a teacher, only when the current attempt has; *)
(* and what has been deleted stays deleted.                                *)
(*                                                                         *)
(* The code compares no version of the row it saves.  Once a save has      *)
(* discarded another one (overwritten), what is left of the promise is     *)
(* Overwrite: the attempts it knows to be validated, and the last two of   *)
(* the clauses above.                                                      *)
(***************************************************************************)
EXTENDS Naturals

VARIABLES phase,       \* what can be done with the import
          number,      \* the current attempt
          validated,   \* the attempts that validated a proposal
          overwritten  \* a save discarded another one

lifecycle == <<phase, number, validated, overwritten>>

Init ==
    /\ phase = "none"
    /\ number = 0
    /\ validated = {}
    /\ overwritten = FALSE

Unfinished == phase \in {"working", "failed"}

Import ==
    /\ phase = "none"
    /\ phase' = "working"
    /\ number' = 1
    /\ UNCHANGED <<validated, overwritten>>

\* An attempt that failed may still be run on, by a task that is queued twice.
Validate ==
    /\ Unfinished
    /\ number \notin validated
    /\ validated' = validated \cup {number}
    /\ phase' \in {phase, "offered"}
    /\ UNCHANGED <<number, overwritten>>

Offer ==
    /\ Unfinished
    /\ number \in validated
    /\ phase' = "offered"
    /\ UNCHANGED <<number, validated, overwritten>>

Fail ==
    /\ Unfinished
    /\ phase' = "failed"
    /\ UNCHANGED <<number, validated, overwritten>>

\* Cancelling ends an attempt at once only before it has validated anything;
\* later it shows as a failure.
Cancel ==
    /\ Unfinished
    /\ number \notin validated
    /\ phase' = "cancelled"
    /\ UNCHANGED <<number, validated, overwritten>>

\* A retry of what failed or was cancelled.
Restart ==
    /\ phase \in {"failed", "cancelled"}
    /\ phase' = "working"
    /\ number' = number + 1
    /\ number' \notin validated
    /\ UNCHANGED <<validated, overwritten>>

Grant ==
    /\ phase = "offered"
    /\ phase' = "taught"
    /\ UNCHANGED <<number, validated, overwritten>>

Withdraw ==
    /\ phase = "taught"
    /\ phase' = "offered"
    /\ UNCHANGED <<number, validated, overwritten>>

Delete ==
    /\ phase \notin {"none", "deleted"}
    /\ phase' = "deleted"
    /\ UNCHANGED <<number, validated, overwritten>>

Overwrite ==
    /\ overwritten'
    /\ validated \subseteq validated'
    /\ phase' \in {"offered", "taught"} => number' \in validated'
    /\ phase = "deleted" => phase' = "deleted"

Next ==
    \/ Import \/ Validate \/ Offer \/ Fail \/ Cancel \/ Restart
    \/ Grant \/ Withdraw \/ Delete \/ Overwrite

Spec == Init /\ [][Next]_lifecycle
=============================================================================
