-------------------------- MODULE TeachingReadiness --------------------------
(***************************************************************************)
(* Whether a resource may be taught, beside the retrieval index that this  *)
(* rests on.  An evaluation takes a snapshot without a lock, decides, then *)
(* locks the processing job, takes the snapshot again and records itself;  *)
(* READY moves the job to READY_FOR_TEACHING.  An invalidation locks the   *)
(* evaluation first and the job second.                                    *)
(*                                                                         *)
(* The job is one of those that reached review.  The pipeline, and the     *)
(* requests that save their copy of the whole row without a lock, are in   *)
(* ContentProcessing; this module has what they may do to the status.  An  *)
(* evaluation is named by its idempotency key.  Transactions that die      *)
(* leave nothing, so deaths are not modelled.                              *)
(***************************************************************************)
EXTENDS RetrievalSync

CONSTANTS
    Evaluators,   \* evaluations that may be in flight together
    EvaluationKeys,
    Mutable       \* statuses in which a request may change the job: _ensure_mutable

ASSUME NobodyEvaluates == "nobody" \notin Evaluators
ASSUME ReviewIsMutable == "review" \in Mutable /\ Mutable \cap {"teaching", "deleted"} = {}

VARIABLES
    job,          \* status of the processing job
    evaluation,   \* the TeachingReadinessEvaluation of a key
    evaluator,    \* what an evaluation in flight is doing
    invalidator,  \* what an invalidation in flight is doing
    holder,       \* who holds the lock of the job row
    discarded     \* ghost: current evaluations whose grant a late save has overwritten

readinessVars == <<job, evaluation, evaluator, invalidator, holder, discarded>>
allVars       == <<syncVars, readinessVars>>

JobStatuses == Mutable \cup {"teaching", "deleted"}
Nobody      == "nobody"

\* What the lineage fingerprint digests. At most one run of a resource is ever
\* synchronized, so that the latest one is the set's only member.
Lineage == [job : JobStatuses, valid : BOOLEAN, searched : SUBSET Keys]

Snapshot ==
    [job |-> job, valid |-> Complete(content),
     searched |-> {k \in Keys : run[k].status = "synchronized" /\ generation[k] = "active"}]

\* Mutant: the generation is not looked at.
Passes_Unindexed(lineage) ==
    /\ lineage.job \in {"review", "teaching"}
    /\ lineage.valid

\* TeachingReadinessPolicy, as far as the rest of the model can make it fail.
Passes(lineage) ==
    /\ lineage.job \in {"review", "teaching"}
    /\ lineage.valid
    /\ lineage.searched # {}

NoEvaluation == [decision |-> "none"]
Evaluation   == [decision : {"ready", "blocked", "stale"}, lineage : Lineage, invalidated : BOOLEAN]

Resting   == [at |-> "resting"]
Evaluator == {Resting} \cup
    [at : {"observed"}, key : EvaluationKeys, seen : Lineage] \cup
    [at : {"locked"}, key : EvaluationKeys, seen : Lineage, stale : BOOLEAN,
     replaces : SUBSET EvaluationKeys]

Invalidation == {Resting} \cup [at : {"aimed", "holding"}, key : EvaluationKeys]

Recorded == {k \in EvaluationKeys : evaluation[k] # NoEvaluation}
Current  == {k \in Recorded : ~evaluation[k].invalidated}

\* The current evaluation, unless it is of this lineage.
Outdated(lineage) == {k \in Current : evaluation[k].lineage # lineage}

ReadinessInit ==
    /\ job = "review"
    /\ evaluation = [k \in EvaluationKeys |-> NoEvaluation]
    /\ evaluator = [p \in Evaluators |-> Resting]
    /\ invalidator = Resting
    /\ holder = Nobody
    /\ discarded = {}
-----------------------------------------------------------------------------
\* A request with a new key takes a snapshot, unless it is already decided on.
Observe(p, k) ==
    /\ evaluator[p] = Resting
    /\ k \notin Recorded
    /\ job # "deleted"
    /\ \A j \in Current : evaluation[j].lineage # Snapshot
    /\ evaluator' = [evaluator EXCEPT ![p] = [at |-> "observed", key |-> k, seen |-> Snapshot]]
    /\ UNCHANGED <<job, evaluation, invalidator, holder, discarded>>

\* Mutant: no select_for_update.
LockJob_Unlocked(p) ==
    /\ evaluator[p].at = "observed"
    /\ evaluator' = [evaluator EXCEPT ![p] =
            IF job = "deleted" THEN Resting
            ELSE [at |-> "locked", key |-> evaluator[p].key, seen |-> evaluator[p].seen,
                  stale |-> Snapshot # evaluator[p].seen, replaces |-> Outdated(evaluator[p].seen)]]
    /\ UNCHANGED <<job, evaluation, invalidator, holder, discarded>>

\* The job is locked, then the snapshot taken again, and the evaluation to replace
\* looked up; there is no snapshot of a deleted job.
LockJob(p) ==
    /\ evaluator[p].at = "observed"
    /\ holder = Nobody
    /\ LET seen == evaluator[p].seen IN
        IF job = "deleted"
        THEN /\ evaluator' = [evaluator EXCEPT ![p] = Resting]
             /\ UNCHANGED holder
        ELSE /\ evaluator' = [evaluator EXCEPT ![p] =
                    [at |-> "locked", key |-> evaluator[p].key, seen |-> seen,
                     stale |-> Snapshot # seen, replaces |-> Outdated(seen)]]
             /\ holder' = p
    /\ UNCHANGED <<job, evaluation, invalidator, discarded>>

Decision(p) ==
    IF evaluator[p].stale THEN "stale"
    ELSE IF Passes(evaluator[p].seen) THEN "ready" ELSE "blocked"

\* Mutant: the key is not unique.
Collides_LineageOnly(p) == \E k \in Recorded : evaluation[k].lineage = evaluator[p].seen

\* cp_readiness_lineage_policy_unique and the unique key, whatever is invalidated.
Collides(p) ==
    \/ evaluator[p].key \in Recorded
    \/ \E k \in Recorded : evaluation[k].lineage = evaluator[p].seen

\* A row that an invalidation holds has to be waited for.
MayWrite(p) == ~(invalidator.at = "holding" /\ invalidator.key \in evaluator[p].replaces)

\* Mutant: the lock is kept.
LetsGo_KeepsLock(p) ==
    /\ evaluator' = [evaluator EXCEPT ![p] = Resting]
    /\ UNCHANGED holder

LetsGo(p) ==
    /\ evaluator' = [evaluator EXCEPT ![p] = Resting]
    /\ holder' = Nobody

\* Replacing an evaluation withdraws readiness on the copy of the job, and
\* grant_teaching_readiness wants that copy to be ready for review.
Refused(p) ==
    /\ Decision(p) = "ready"
    /\ ~(job = "review" \/ (job = "teaching" /\ evaluator[p].replaces # {}))

\* Of a decision other than READY, the copy of the job is never saved.
Record(p) ==
    /\ evaluator[p].at = "locked"
    /\ MayWrite(p)
    /\ ~Collides(p) /\ ~Refused(p)
    /\ job' = IF Decision(p) = "ready" THEN "teaching" ELSE job
    /\ evaluation' = [k \in EvaluationKeys |->
            IF k = evaluator[p].key
            THEN [decision |-> Decision(p), lineage |-> evaluator[p].seen, invalidated |-> FALSE]
            ELSE IF k \in evaluator[p].replaces THEN [evaluation[k] EXCEPT !.invalidated = TRUE]
            ELSE evaluation[k]]
    /\ LetsGo(p)
    /\ discarded' = {}
    /\ UNCHANGED invalidator

RecordFails(p) ==
    /\ evaluator[p].at = "locked"
    /\ MayWrite(p)
    /\ Collides(p) \/ Refused(p)
    /\ LetsGo(p)
    /\ UNCHANGED <<job, evaluation, invalidator, discarded>>

\* Mutant: the evaluation is not checked for None.
Aim_Unchecked(k) ==
    /\ invalidator = Resting
    /\ invalidator' = [at |-> "aimed", key |-> IF k \in Current THEN k ELSE Nobody]
    /\ UNCHANGED <<job, evaluation, evaluator, holder, discarded>>

\* The query of an invalidation finds the current READY evaluation.
Aim(k) ==
    /\ invalidator = Resting
    /\ k \in Current
    /\ evaluation[k].decision = "ready"
    /\ invalidator' = [at |-> "aimed", key |-> k]
    /\ UNCHANGED <<job, evaluation, evaluator, holder, discarded>>

\* Its lock may come later, on a row that no longer qualifies: nothing to do.
LockEvaluation ==
    /\ invalidator.at = "aimed"
    /\ invalidator' = IF invalidator.key \in Current
                      THEN [at |-> "holding", key |-> invalidator.key]
                      ELSE Resting
    /\ UNCHANGED <<job, evaluation, evaluator, holder, discarded>>

\* Mutants: only the job, or only the evaluation, is written.
Invalidate_JobOnly ==
    /\ invalidator.at = "holding"
    /\ holder = Nobody
    /\ job' = IF job = "teaching" THEN "review" ELSE job
    /\ invalidator' = Resting
    /\ UNCHANGED <<evaluation, evaluator, holder, discarded>>
Invalidate_EvaluationOnly ==
    /\ invalidator.at = "holding"
    /\ holder = Nobody
    /\ evaluation' = [evaluation EXCEPT ![invalidator.key].invalidated = TRUE]
    /\ invalidator' = Resting
    /\ UNCHANGED <<job, evaluator, holder, discarded>>

Invalidate ==
    /\ invalidator.at = "holding"
    /\ holder = Nobody
    /\ evaluation' = [evaluation EXCEPT ![invalidator.key].invalidated = TRUE]
    /\ job' = IF job = "teaching" THEN "review" ELSE job
    /\ invalidator' = Resting
    /\ discarded' = {}
    /\ UNCHANGED <<evaluator, holder>>

\* The evaluation waits for the row, the invalidation for the job. PostgreSQL
\* aborts either of them.
Deadlocked(p) == evaluator[p].at = "locked" /\ ~MayWrite(p)

AbortEvaluation(p) ==
    /\ Deadlocked(p)
    /\ LetsGo(p)
    /\ UNCHANGED <<job, evaluation, invalidator, discarded>>

AbortInvalidation(p) ==
    /\ Deadlocked(p)
    /\ invalidator' = Resting
    /\ UNCHANGED <<job, evaluation, evaluator, holder, discarded>>

\* Evaluations whose READY the job shows.
Granted == {k \in Current : job = "teaching" /\ evaluation[k].decision = "ready"}

\* A request that read the job while it could be changed, a cancellation or a
\* retry, saves its copy of the whole row: the database makes it wait for the
\* lock, but nothing compares the copy with the row. Any number of requests may
\* have read the job before it was granted anything, and any of them be this
\* late; only the row of a deleted import refuses them. Stage tasks, which take
\* the job from one of these statuses to another, do nothing else here.
SaveCopy(status) ==
    /\ job # "deleted"
    /\ holder = Nobody
    /\ job' = status
    /\ discarded' = discarded \cup Granted
    /\ UNCHANGED <<evaluation, evaluator, invalidator, holder>>

\* The import is deleted: the job, and with it every part of the content.
Delete ==
    /\ job # "deleted"
    /\ holder = Nobody
    /\ job' = "deleted"
    /\ IF content = Nothing THEN UNCHANGED syncVars ELSE Withhold(Parts)
    /\ UNCHANGED <<evaluation, evaluator, invalidator, holder, discarded>>

Evaluates(p) == Record(p) \/ RecordFails(p) \/ AbortEvaluation(p)
Invalidates  == LockEvaluation \/ Invalidate \/ \E p \in Evaluators : AbortInvalidation(p)

ReadinessStep ==
    \/ \E p \in Evaluators :
        \/ \E k \in EvaluationKeys : Observe(p, k)
        \/ LockJob(p)
        \/ Evaluates(p)
    \/ \E k \in EvaluationKeys : Aim(k)
    \/ Invalidates
    \/ \E status \in Mutable : SaveCopy(status)

TRInit == SyncInit /\ ReadinessInit
TRNext ==
    \/ SyncNext /\ UNCHANGED readinessVars
    \/ ReadinessStep /\ UNCHANGED syncVars
    \/ Delete

\* A row lock goes to those who wait for it in the order they asked.
ReadinessFairness ==
    /\ \A p \in Evaluators :
        /\ SF_allVars(LockJob(p) /\ UNCHANGED syncVars)
        /\ SF_allVars(Evaluates(p) /\ UNCHANGED syncVars)
    /\ SF_allVars(Invalidates /\ UNCHANGED syncVars)

TRSpec ==
    /\ TRInit /\ [][TRNext]_allVars
    /\ ReadinessFairness
    /\ \A r \in Requests : WF_allVars(RequestStep(r) /\ UNCHANGED readinessVars)
-----------------------------------------------------------------------------
TypeOK ==
    /\ SyncTypeOK
    /\ job \in JobStatuses
    /\ evaluation \in [EvaluationKeys -> {NoEvaluation} \cup Evaluation]
    /\ evaluator \in [Evaluators -> Evaluator]
    /\ invalidator \in Invalidation
    /\ holder \in Evaluators \cup {Nobody}
    /\ discarded \in SUBSET EvaluationKeys

\* At most one evaluation of the resource is current.
OneCurrentEvaluation == \A j, k \in Current : j = k

\* A current READY evaluation is one that the job shows, unless a request that
\* had read the job before saved its copy over the grant.
ReadyIsGranted ==
    \A k \in Current \ discarded : evaluation[k].decision = "ready" => job \in {"teaching", "deleted"}

\* What may be taught has a current evaluation, of whatever decision.
TeachingIsAccounted == job = "teaching" => Current # {}

\* What may be taught can be searched, whatever synchronization does later.
TeachingIsSearchable == job = "teaching" => \E k \in Keys : generation[k] = "active"

\* Evaluations are evidence: all that changes is that they stop being current.
EvaluationsAreEvidence ==
    [][\A k \in Recorded :
        evaluation'[k] \in {evaluation[k], [evaluation[k] EXCEPT !.invalidated = TRUE]}]_allVars

\* Snapshots, locks and transactions implement decisions that are taken in one
\* step: each replaces the current one, and none is taken on what is no longer true.
Evidence ==
    {[key |-> k, decision |-> evaluation[k].decision, lineage |-> evaluation[k].lineage] : k \in Recorded}

Decisions == INSTANCE TeachingDecisions
                WITH Evaluations <- EvaluationKeys, Lineages <- Lineage,
                     searched <- SearchedKeys, evidence <- Evidence, current <- Current

ImplementsDecisions == Decisions!Spec

\* Whatever waits for whom, every evaluation ends.
EvaluationsEnd == \A p \in Evaluators : evaluator[p].at = "observed" ~> evaluator[p] = Resting

\* "Cannot mutate a processing job in status READY_FOR_TEACHING": a job that may
\* be taught is changed by invalidating its evaluation, or by deleting it.
TaughtIsImmutable ==
    [][job = "teaching" => job' \in {"teaching", "deleted"} \/ ~(Current \subseteq Current')]_allVars

\* "readiness is revoked before the new decision is applied"
TeachingHasReady ==
    job = "teaching" => \E k \in Current : evaluation[k].decision = "ready"
=============================================================================
