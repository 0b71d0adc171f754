-------------------------- MODULE TeachingDecisions --------------------------
(***************************************************************************)
(* What the governance of teaching readiness promises, without snapshots,  *)
(* row locks or transactions.  Each decision is taken in one step, on a    *)
(* lineage that nobody has decided on; it stays as evidence, and replaces  *)
(* the decision that was current.  READY is granted to a resource that     *)
(* shows the status it is granted for and has what the decision found to   *)
(* be searched.  Only READY decisions are revoked.                         *)
(*                                                                         *)
(* Two things are what the code does, not what it is meant to do: that     *)
(* readiness outlives a later decision other than READY (TeachingHasReady  *)
(* in TeachingReadiness), and that a save which comes late takes it away   *)
(* while its decision stands (TaughtIsImmutable there).                    *)
(***************************************************************************)
CONSTANTS Evaluations, Lineages, Mutable

VARIABLES
    job,       \* the status of the processing job
    searched,  \* what searches of the resource read
    evidence,  \* every decision ever taken: its evaluation, outcome and lineage
    current    \* the evaluation that is current, if any

decisions == <<job, searched, evidence, current>>

Init ==
    /\ job = "review"
    /\ searched = {}
    /\ evidence = {}
    /\ current = {}

\* The fields of a lineage may have moved on by now, but for the two that matter.
Granted(lineage) ==
    /\ job = lineage.job
    /\ job = "review" \/ (job = "teaching" /\ current # {})
    /\ lineage.searched # {}
    /\ lineage.searched \subseteq searched

Decide(k, decision, lineage) ==
    /\ job # "deleted"
    /\ \A e \in evidence : e.key # k /\ e.lineage # lineage
    /\ decision = "ready" => Granted(lineage)
    /\ evidence' = evidence \cup {[key |-> k, decision |-> decision, lineage |-> lineage]}
    /\ current' = {k}
    /\ job' = IF decision = "ready" THEN "teaching" ELSE job
    /\ UNCHANGED searched

Revoke ==
    /\ \E e \in evidence : current = {e.key} /\ e.decision = "ready"
    /\ current' = {}
    /\ job' = IF job = "teaching" THEN "review" ELSE job
    /\ UNCHANGED <<searched, evidence>>

\* A late save, or the pipeline, writes a status that the job had before.
Overwrite(status) ==
    /\ job # "deleted"
    /\ job' = status
    /\ UNCHANGED <<searched, evidence, current>>

Delete ==
    /\ job # "deleted"
    /\ job' = "deleted"
    /\ UNCHANGED <<searched, evidence, current>>

\* Synchronization, whatever it does, takes nothing away.
Synchronize(found) ==
    /\ searched' = searched \cup found
    /\ UNCHANGED <<job, evidence, current>>

Next ==
    \/ \E k \in Evaluations, decision \in {"ready", "blocked", "stale"}, lineage \in Lineages :
        Decide(k, decision, lineage)
    \/ Revoke
    \/ \E status \in Mutable : Overwrite(status)
    \/ Delete
    \/ \E lineage \in Lineages : Synchronize(lineage.searched)

Spec == Init /\ [][Next]_decisions
=============================================================================
