----------------------- MODULE TeachingReadinessProofs -----------------------
(***************************************************************************)
(* What holds of TeachingReadiness for every number of evaluations,        *)
(* requests and keys.                                                      *)
(*                                                                         *)
(* Three facts carry the argument.  While an evaluation holds the job, the *)
(* evaluations it is to replace are those it has looked up (Locking); it   *)
(* finds no current one but these (Collides), so that it is alone          *)
(* afterwards; and the generations that it saw active when it observed are *)
(* still active when it grants (Promised).                                 *)
(***************************************************************************)
EXTENDS TeachingReadiness, RetrievalSyncProofs

\* An invalidation keeps the row it has locked from being replaced.
Held == invalidator.at = "holding" => invalidator.key \in Current

\* What an evaluation has seen active stays active.
Promised ==
    \A p \in Evaluators : evaluator[p].at \in {"observed", "locked"} =>
        \A k \in evaluator[p].seen.searched : generation[k] = "active"

\* While the job is locked, what was looked up under the lock stays true.
Informed(p) == holder = p /\ evaluator[p].replaces = Outdated(evaluator[p].seen)
Locking     == \A p \in Evaluators : evaluator[p].at = "locked" => Informed(p)

TRInv ==
    /\ TypeOK
    /\ SyncInv
    /\ OneCurrentEvaluation
    /\ ReadyIsGranted
    /\ TeachingIsAccounted
    /\ TeachingIsSearchable
    /\ Held
    /\ Promised
    /\ Locking
-----------------------------------------------------------------------------
LEMMA TRInitInv == TRInit => TRInv
<1> SUFFICES ASSUME TRInit PROVE TRInv
  OBVIOUS
<1>1. SyncInv
  BY SyncInitInv DEF TRInit
<1>2. Recorded = {} /\ Current = {}
  BY DEF TRInit, ReadinessInit, Recorded, Current
<1>3. TypeOK
  BY <1>1, ReviewIsMutable DEF TRInit, ReadinessInit, TypeOK, SyncInv, JobStatuses, Evaluator, Invalidation
<1> QED BY <1>1, <1>2, <1>3 DEF TRInit, ReadinessInit, TRInv, OneCurrentEvaluation, ReadyIsGranted,
           TeachingIsAccounted, TeachingIsSearchable, Held, Promised, Locking, Resting

\* Evaluations that nobody touches stay recorded and current as they are.
LEMMA SameEvaluations ==
    ASSUME UNCHANGED evaluation PROVE Recorded' = Recorded /\ Current' = Current
BY DEF Recorded, Current

\* What an evaluation in flight has with it.
LEMMA InFlight ==
    ASSUME TypeOK, NEW p \in Evaluators, evaluator[p].at \in {"observed", "locked"}
    PROVE  /\ evaluator[p] \in Evaluator
           /\ evaluator[p].key \in EvaluationKeys
           /\ evaluator[p].seen \in Lineage
           /\ evaluator[p].seen.searched \subseteq Keys
<1>1. evaluator[p] \in Evaluator /\ evaluator[p] # Resting
  BY DEF TypeOK, Resting
<1>2. evaluator[p].key \in EvaluationKeys /\ evaluator[p].seen \in Lineage
  BY <1>1 DEF Evaluator
<1> QED BY <1>1, <1>2 DEF Lineage

\* Locks and evaluations that nobody touches stay as they are.
LEMMA SameLocks ==
    ASSUME Locking, UNCHANGED <<evaluation, evaluator, holder>>
    PROVE  Locking'
BY DEF Locking, Informed, Outdated, Current, Recorded

\* The index moves beside the evaluations.
LEMMA SyncKeeps ==
    ASSUME TRInv, SyncInv', UNCHANGED readinessVars,
           \A k \in Keys : generation[k] = "active" => generation'[k] = "active"
    PROVE  TRInv'
<1>1. UNCHANGED <<job, evaluation, evaluator, invalidator, holder, discarded>>
  BY DEF readinessVars
<1>2. Current' = Current
  BY <1>1, SameEvaluations
<1>3. TypeOK'
  BY <1>1 DEF TRInv, TypeOK, SyncInv
<1>4. Promised'
  <2> SUFFICES ASSUME NEW p \in Evaluators, evaluator[p].at \in {"observed", "locked"},
                      NEW k \in evaluator[p].seen.searched
               PROVE  generation'[k] = "active"
    BY <1>1 DEF Promised
  <2>1. k \in Keys
    BY InFlight DEF TRInv
  <2> QED BY <2>1 DEF TRInv, Promised
<1>5. Locking'
  BY <1>1, SameLocks DEF TRInv
<1> QED BY <1>1, <1>2, <1>3, <1>4, <1>5 DEF TRInv, OneCurrentEvaluation, ReadyIsGranted,
           TeachingIsAccounted, TeachingIsSearchable, Held

\* A step that only moves an evaluation, whose promises are kept.
LEMMA EvaluatorKeeps ==
    ASSUME TRInv, UNCHANGED syncVars, UNCHANGED <<job, evaluation, invalidator, discarded>>,
           evaluator' \in [Evaluators -> Evaluator], holder' \in Evaluators \cup {Nobody},
           Promised', Locking'
    PROVE  TRInv'
<1>1. Current' = Current
  BY SameEvaluations
<1>2. SyncInv' /\ generation' = generation
  BY SyncNextKeeps DEF TRInv, syncVars
<1>3. TypeOK'
  BY <1>2 DEF TRInv, TypeOK, SyncInv
<1> QED BY <1>1, <1>2, <1>3 DEF TRInv, OneCurrentEvaluation, ReadyIsGranted,
           TeachingIsAccounted, TeachingIsSearchable, Held

LEMMA ObserveKeeps ==
    ASSUME TRInv, NEW p \in Evaluators, NEW k \in EvaluationKeys, Observe(p, k), UNCHANGED syncVars
    PROVE  TRInv'
<1> DEFINE now == [at |-> "observed", key |-> k, seen |-> Snapshot]
<1>1. Snapshot \in Lineage
  <2>1. Complete(content) \in BOOLEAN
    BY DEF Complete
  <2> QED BY <2>1 DEF Snapshot, Lineage, TRInv, TypeOK
<1>2. now \in Evaluator
  BY <1>1 DEF Evaluator
<1>3. evaluator' = [evaluator EXCEPT ![p] = now]
  BY DEF Observe
<1>4. evaluator' \in [Evaluators -> Evaluator]
  BY <1>2, <1>3 DEF TRInv, TypeOK
<1>5. Promised'
  <2>1. \A q \in Evaluators : q # p => evaluator'[q] = evaluator[q]
    BY <1>3 DEF TRInv, TypeOK
  <2>2. evaluator'[p].seen.searched = Snapshot.searched
    BY <1>3 DEF TRInv, TypeOK
  <2>3. \A j \in Snapshot.searched : generation[j] = "active"
    BY DEF Snapshot
  <2> QED BY <2>1, <2>2, <2>3 DEF TRInv, Promised, syncVars
<1>6. Locking'
  <2> SUFFICES ASSUME NEW q \in Evaluators, evaluator'[q].at = "locked"
               PROVE  Informed(q)'
    BY DEF Locking
  <2>1. q # p /\ evaluator'[q] = evaluator[q]
    BY <1>3 DEF TRInv, TypeOK
  <2> QED BY <2>1 DEF Observe, TRInv, Locking, Informed, Outdated, Current, Recorded
<1> QED BY <1>4, <1>5, <1>6, EvaluatorKeeps DEF Observe, TRInv, TypeOK

\* An evaluation that goes nowhere keeps what it has been promised.
LEMMA RestingKeeps ==
    ASSUME TRInv, NEW p \in Evaluators, UNCHANGED syncVars, UNCHANGED <<job, evaluation, invalidator, discarded>>,
           evaluator' = [evaluator EXCEPT ![p] = Resting],
           UNCHANGED holder \/ (evaluator[p].at = "locked" /\ holder' = Nobody)
    PROVE  TRInv'
<1>1. evaluator' \in [Evaluators -> Evaluator]
  BY DEF TRInv, TypeOK, Evaluator
<1>2. Promised'
  BY DEF TRInv, TypeOK, Promised, Resting, syncVars
<1>3. Locking'
  <2> SUFFICES ASSUME NEW q \in Evaluators, evaluator'[q].at = "locked"
               PROVE  Informed(q)'
    BY DEF Locking
  <2>1. q # p /\ evaluator'[q] = evaluator[q]
    BY DEF TRInv, TypeOK, Resting
  <2>2. Informed(q)
    BY <2>1 DEF TRInv, Locking
  <2>3. UNCHANGED holder
    BY <2>1, <2>2 DEF TRInv, Locking, Informed
  <2> QED BY <2>1, <2>2, <2>3 DEF Informed, Outdated, Current, Recorded
<1>4. holder' \in Evaluators \cup {Nobody}
  BY DEF TRInv, TypeOK
<1> QED BY <1>1, <1>2, <1>3, <1>4, EvaluatorKeeps

LEMMA LockJobKeeps ==
    ASSUME TRInv, NEW p \in Evaluators, LockJob(p), UNCHANGED syncVars
    PROVE  TRInv'
<1> DEFINE e   == evaluator[p]
           now == [at |-> "locked", key |-> e.key, seen |-> e.seen,
                   stale |-> Snapshot # e.seen, replaces |-> Outdated(e.seen)]
<1>1. e.at = "observed" /\ e.key \in EvaluationKeys /\ e.seen \in Lineage
  BY InFlight DEF LockJob, TRInv
<1>2. CASE job = "deleted"
  BY <1>2, RestingKeeps DEF LockJob, TRInv, TypeOK
<1>3. CASE job # "deleted"
  <2>1. evaluator' = [evaluator EXCEPT ![p] = now] /\ holder' = p
    BY <1>3 DEF LockJob
  <2>2. now \in Evaluator
    <3>1. Outdated(e.seen) \in SUBSET EvaluationKeys
      BY DEF Outdated, Current, Recorded
    <3> HIDE DEF e
    <3> QED BY <1>1, <3>1 DEF Evaluator
  <2>3. evaluator' \in [Evaluators -> Evaluator]
    BY <2>1, <2>2 DEF TRInv, TypeOK
  <2>4. now.seen = e.seen
    OBVIOUS
  <2>5. evaluator'[p].seen = e.seen /\ \A q \in Evaluators : q # p => evaluator'[q] = evaluator[q]
    BY <2>1, <2>4 DEF TRInv, TypeOK
  <2>6. Promised'
    BY <1>1, <2>5 DEF TRInv, Promised, syncVars
  <2>7. Locking'
    <3> SUFFICES ASSUME NEW q \in Evaluators, evaluator'[q].at = "locked"
                 PROVE  Informed(q)'
      BY DEF Locking
    <3>1. q = p
      BY <2>5, NobodyEvaluates DEF LockJob, TRInv, Locking, Informed, Nobody
    <3>2. evaluator'[p].replaces = Outdated(e.seen)
      BY <2>1 DEF TRInv, TypeOK
    <3> QED BY <2>1, <2>5, <3>1, <3>2 DEF LockJob, Informed, Outdated, Current, Recorded
  <2> QED BY <2>1, <2>3, <2>6, <2>7, EvaluatorKeeps DEF LockJob
<1> QED BY <1>2, <1>3

\* Withdrawing an evaluation changes nothing else of it.
LEMMA Withdrawing ==
    ASSUME NEW e \in Evaluation
    PROVE  /\ [e EXCEPT !.invalidated = TRUE] \in Evaluation
           /\ [e EXCEPT !.invalidated = TRUE] # NoEvaluation
           /\ [e EXCEPT !.invalidated = TRUE].invalidated = TRUE
BY DEF Evaluation, NoEvaluation

\* An evaluation of a lineage that no other has replaces every current one.
LEMMA Recording ==
    ASSUME TRInv, NEW p \in Evaluators, Record(p)
    PROVE  /\ Current' = {evaluator[p].key}
           /\ Recorded' = Recorded \cup {evaluator[p].key}
           /\ Current \subseteq evaluator[p].replaces
           /\ evaluation' \in [EvaluationKeys -> {NoEvaluation} \cup Evaluation]
           /\ evaluation'[evaluator[p].key].decision = Decision(p)
           /\ evaluation'[evaluator[p].key].lineage = evaluator[p].seen
<1> DEFINE e   == evaluator[p]
           new == [decision |-> Decision(p), lineage |-> e.seen, invalidated |-> FALSE]
<1>1. /\ e.at = "locked" /\ e.key \in EvaluationKeys /\ e.seen \in Lineage /\ e.seen.searched \subseteq Keys
  BY InFlight DEF Record, TRInv
<1>2. Decision(p) \in {"ready", "blocked", "stale"}
  BY DEF Decision
<1>3. new \in Evaluation /\ new # NoEvaluation /\ new.invalidated = FALSE /\ new.decision = Decision(p) /\ new.lineage = e.seen
  BY <1>1, <1>2 DEF Evaluation, NoEvaluation
<1>4. e.key \notin Recorded /\ Current \subseteq e.replaces
  BY <1>1 DEF Record, Collides, TRInv, Locking, Informed, Outdated, Current
<1>5. evaluation \in [EvaluationKeys -> {NoEvaluation} \cup Evaluation]
  BY DEF TRInv, TypeOK
<1>6. \A k \in Recorded : evaluation[k] \in Evaluation
  BY <1>5 DEF Recorded
<1>7. /\ evaluation'[e.key] = new
      /\ \A k \in EvaluationKeys : k # e.key /\ k \in e.replaces =>
            evaluation'[k] = [evaluation[k] EXCEPT !.invalidated = TRUE]
      /\ \A k \in EvaluationKeys : k # e.key /\ k \notin e.replaces => evaluation'[k] = evaluation[k]
  BY <1>1 DEF Record
<1>8. e.replaces \subseteq Current /\ Current \subseteq Recorded /\ Recorded \subseteq EvaluationKeys
  BY <1>1 DEF TRInv, Locking, Informed, Outdated, Current, Recorded
<1>9. evaluation' \in [EvaluationKeys -> {NoEvaluation} \cup Evaluation]
  <2>1. \A k \in EvaluationKeys : evaluation'[k] \in {NoEvaluation} \cup Evaluation
    BY <1>3, <1>5, <1>6, <1>7, <1>8, Withdrawing
  <2>2. evaluation' = [k \in EvaluationKeys |-> evaluation'[k]]
    BY DEF Record
  <2> QED BY <2>1, <2>2
<1>10. Current' = {e.key}
  <2>1. e.key \in Current'
    BY <1>1, <1>3, <1>7 DEF Current, Recorded
  <2>2. ASSUME NEW k \in Current', k # e.key PROVE FALSE
    <3>1. k \in EvaluationKeys /\ evaluation'[k] # NoEvaluation /\ ~evaluation'[k].invalidated
      BY <2>2 DEF Current, Recorded
    <3>2. CASE k \in e.replaces
      <4>1. evaluation[k] \in Evaluation
        BY <1>6, <1>8, <3>2
      <4>2. evaluation'[k] = [evaluation[k] EXCEPT !.invalidated = TRUE]
        BY <1>7, <2>2, <3>1, <3>2
      <4>3. evaluation'[k].invalidated = TRUE
        BY <4>1, <4>2, Withdrawing
      <4> QED BY <3>1, <4>3
    <3>3. CASE k \notin e.replaces
      BY <1>4, <1>7, <2>2, <3>1, <3>3 DEF Current, Recorded
    <3> QED BY <3>2, <3>3
  <2> QED BY <2>1, <2>2
<1>11. Recorded' = Recorded \cup {e.key}
  <2>1. ASSUME NEW k \in EvaluationKeys, k # e.key
        PROVE  evaluation'[k] = NoEvaluation <=> evaluation[k] = NoEvaluation
    <3>1. CASE k \notin e.replaces
      BY <1>7, <2>1, <3>1
    <3>2. CASE k \in e.replaces
      <4>1. evaluation[k] \in Evaluation /\ evaluation[k] # NoEvaluation
        BY <1>6, <1>8, <3>2 DEF Recorded
      <4> QED BY <1>7, <2>1, <3>2, <4>1, Withdrawing
    <3> QED BY <3>1, <3>2
  <2> QED BY <1>1, <1>3, <1>7, <2>1 DEF Recorded
<1> QED BY <1>3, <1>4, <1>7, <1>9, <1>10, <1>11

LEMMA RecordKeeps ==
    ASSUME TRInv, NEW p \in Evaluators, Record(p), UNCHANGED syncVars
    PROVE  TRInv'
<1> DEFINE e == evaluator[p]
<1>1. e.at = "locked" /\ e.seen.searched \subseteq Keys
  BY InFlight DEF Record, TRInv
<1>2. /\ Current' = {e.key} /\ Current \subseteq e.replaces
      /\ evaluation' \in [EvaluationKeys -> {NoEvaluation} \cup Evaluation]
      /\ evaluation'[e.key].decision = Decision(p)
  BY Recording
<1>3. /\ evaluator' = [evaluator EXCEPT ![p] = Resting] /\ holder' = Nobody
       /\ UNCHANGED invalidator /\ discarded' = {}
       /\ job' = IF Decision(p) = "ready" THEN "teaching" ELSE job
  BY DEF Record, LetsGo
<1>4. SyncInv' /\ UNCHANGED <<run, generation>>
  BY SyncNextKeeps DEF TRInv, syncVars
<1>5. TypeOK'
  BY <1>2, <1>3, <1>4 DEF TRInv, TypeOK, SyncInv, JobStatuses, Evaluator
<1>6. OneCurrentEvaluation' /\ TeachingIsAccounted'
  BY <1>2 DEF OneCurrentEvaluation, TeachingIsAccounted
<1>7. ReadyIsGranted'
  BY <1>2, <1>3 DEF ReadyIsGranted
<1>8. Decision(p) = "ready" => e.seen.searched # {}
  BY DEF Decision, Passes
<1>9. TeachingIsSearchable'
  <2>1. CASE Decision(p) = "ready"
    <3>1. PICK k \in e.seen.searched : TRUE
      BY <1>8, <2>1
    <3>2. generation[k] = "active" /\ k \in Keys
      BY <1>1, <3>1 DEF TRInv, Promised
    <3> QED BY <1>4, <3>2 DEF TeachingIsSearchable
  <2>2. CASE Decision(p) # "ready"
    BY <1>3, <1>4, <2>2 DEF TRInv, TeachingIsSearchable
  <2> QED BY <2>1, <2>2
<1>10. Held'
  <2>1. SUFFICES ASSUME invalidator.at = "holding" PROVE FALSE
    BY <1>3 DEF Held
  <2>2. invalidator.key \in e.replaces
    BY <1>2, <2>1 DEF TRInv, Held
  <2> QED BY <2>1, <2>2 DEF Record, MayWrite
<1>11. Promised'
  BY <1>3, <1>4 DEF TRInv, TypeOK, Promised, Resting
<1>12. Locking'
  <2> SUFFICES ASSUME NEW q \in Evaluators, evaluator'[q].at = "locked" PROVE FALSE
    BY DEF Locking
  <2>1. q # p /\ evaluator'[q] = evaluator[q]
    BY <1>3 DEF TRInv, TypeOK, Resting
  <2> QED BY <1>1, <2>1 DEF TRInv, Locking, Informed
<1> QED BY <1>4, <1>5, <1>6, <1>7, <1>9, <1>10, <1>11, <1>12 DEF TRInv

\* A step of an invalidation that writes nothing.
LEMMA InvalidatorKeeps ==
    ASSUME TRInv, UNCHANGED syncVars, UNCHANGED <<job, evaluation, evaluator, holder, discarded>>,
           invalidator' \in Invalidation, Held'
    PROVE  TRInv'
<1>1. Current' = Current
  BY SameEvaluations
<1>2. SyncInv' /\ generation' = generation
  BY SyncNextKeeps DEF TRInv, syncVars
<1>3. TypeOK'
  BY <1>2 DEF TRInv, TypeOK, SyncInv
<1>4. Promised'
  BY <1>2 DEF TRInv, Promised
<1>5. Locking'
  BY SameLocks DEF TRInv
<1> QED BY <1>1, <1>2, <1>3, <1>4, <1>5 DEF TRInv, OneCurrentEvaluation, ReadyIsGranted,
           TeachingIsAccounted, TeachingIsSearchable

\* Of the one evaluation that is current, an invalidation leaves none.
LEMMA Revoking ==
    ASSUME TRInv, Invalidate
    PROVE  /\ invalidator.key \in Current /\ Current' = {}
           /\ evaluation' \in [EvaluationKeys -> {NoEvaluation} \cup Evaluation]
           /\ job' = IF job = "teaching" THEN "review" ELSE job
           /\ invalidator' = Resting /\ discarded' = {}
           /\ UNCHANGED <<evaluator, holder>>
<1> DEFINE k == invalidator.key
<1>1. /\ k \in Current
      /\ evaluation' = [evaluation EXCEPT ![k] = [evaluation[k] EXCEPT !.invalidated = TRUE]]
      /\ job' = IF job = "teaching" THEN "review" ELSE job
      /\ invalidator' = Resting /\ discarded' = {}
      /\ UNCHANGED <<evaluator, holder>>
  BY DEF TRInv, Held, Invalidate
<1>2. k \in EvaluationKeys /\ evaluation[k] \in Evaluation
  BY <1>1 DEF Current, Recorded, TRInv, TypeOK
<1>3. evaluation' \in [EvaluationKeys -> {NoEvaluation} \cup Evaluation]
  BY <1>1, <1>2, Withdrawing DEF TRInv, TypeOK
<1>4. /\ evaluation'[k].invalidated = TRUE
      /\ \A j \in EvaluationKeys : j # k => evaluation'[j] = evaluation[j]
  BY <1>1, <1>2, Withdrawing DEF TRInv, TypeOK
<1>5. Current' = {}
  <2> SUFFICES ASSUME NEW j \in Current' PROVE FALSE
    OBVIOUS
  <2>1. j \in EvaluationKeys /\ evaluation'[j] # NoEvaluation /\ ~evaluation'[j].invalidated
    BY DEF Current, Recorded
  <2>2. j # k
    BY <1>4, <2>1
  <2>3. j \in Current
    BY <1>4, <2>1, <2>2 DEF Current, Recorded
  <2> QED BY <1>1, <2>2, <2>3 DEF TRInv, OneCurrentEvaluation
<1> QED BY <1>1, <1>3, <1>5

LEMMA InvalidateKeeps ==
    ASSUME TRInv, Invalidate, UNCHANGED syncVars
    PROVE  TRInv'
<1>1. /\ Current' = {}
      /\ evaluation' \in [EvaluationKeys -> {NoEvaluation} \cup Evaluation]
      /\ job' = IF job = "teaching" THEN "review" ELSE job
      /\ invalidator' = Resting /\ discarded' = {}
      /\ UNCHANGED <<evaluator, holder>>
  BY Revoking
<1>2. SyncInv' /\ generation' = generation
  BY SyncNextKeeps DEF TRInv, syncVars
<1>3. TypeOK'
  BY <1>1, <1>2, ReviewIsMutable DEF TRInv, TypeOK, SyncInv, JobStatuses, Invalidation
<1>4. job' # "teaching"
  BY <1>1
<1>5. Promised'
  BY <1>1, <1>2 DEF TRInv, Promised
<1>6. Locking'
  BY <1>1, NobodyEvaluates DEF Invalidate, TRInv, Locking, Informed, Nobody
<1> QED BY <1>1, <1>2, <1>3, <1>4, <1>5, <1>6 DEF TRInv, OneCurrentEvaluation, ReadyIsGranted,
           TeachingIsAccounted, TeachingIsSearchable, Held, Resting

\* A late save discards what was granted, and takes nothing else along.
LEMMA SaveCopyKeeps ==
    ASSUME TRInv, NEW status \in Mutable, SaveCopy(status), UNCHANGED syncVars
    PROVE  TRInv'
<1>1. /\ job # "deleted" /\ job' = status /\ job' # "teaching" /\ job' \in JobStatuses
      /\ discarded' = discarded \cup Granted
      /\ UNCHANGED <<evaluation, evaluator, invalidator, holder>>
  BY ReviewIsMutable DEF SaveCopy, JobStatuses
<1>2. Current' = Current /\ Granted \subseteq EvaluationKeys
  BY <1>1, SameEvaluations DEF Granted, Current, Recorded
<1>3. SyncInv' /\ generation' = generation
  BY SyncNextKeeps DEF TRInv, syncVars
<1>4. TypeOK'
  BY <1>1, <1>2, <1>3 DEF TRInv, TypeOK, SyncInv
<1>5. ReadyIsGranted'
  <2> SUFFICES ASSUME NEW k \in Current, k \notin discarded, k \notin Granted,
                      evaluation[k].decision = "ready"
               PROVE  FALSE
    BY <1>1, <1>2 DEF ReadyIsGranted
  <2>1. job = "teaching"
    BY <1>1 DEF TRInv, ReadyIsGranted
  <2> QED BY <2>1 DEF Granted
<1>6. Locking'
  BY <1>1, SameLocks DEF TRInv
<1> QED BY <1>1, <1>2, <1>3, <1>4, <1>5, <1>6 DEF TRInv, OneCurrentEvaluation,
           TeachingIsAccounted, TeachingIsSearchable, Held, Promised

\* The content goes with the job; the generations stay.
LEMMA DeleteImplements ==
    ASSUME TRInv, Delete PROVE [SyncNext]_syncVars /\ UNCHANGED <<run, generation>>
<1>1. CASE content = Nothing
  BY <1>1 DEF Delete, syncVars
<1>2. CASE content # Nothing
  <2>1. Withhold(Parts)
    BY <1>2 DEF Delete
  <2>2. SyncNext
    BY <2>1 DEF SyncNext
  <2> QED BY <2>1, <2>2 DEF Withhold
<1> QED BY <1>1, <1>2

LEMMA DeleteKeeps ==
    ASSUME TRInv, Delete PROVE TRInv'
<1>1. SyncInv' /\ UNCHANGED <<run, generation>>
  BY DeleteImplements, SyncNextKeeps DEF TRInv
<1>2. /\ job' = "deleted"
      /\ UNCHANGED <<evaluation, evaluator, invalidator, holder, discarded>>
  BY DEF Delete
<1>3. Current' = Current
  BY <1>2, SameEvaluations
<1>4. TypeOK'
  BY <1>1, <1>2 DEF TRInv, TypeOK, SyncInv, JobStatuses
<1>5. Locking'
  BY <1>2, SameLocks DEF TRInv
<1> QED BY <1>1, <1>2, <1>3, <1>4, <1>5 DEF TRInv, OneCurrentEvaluation, ReadyIsGranted,
           TeachingIsAccounted, TeachingIsSearchable, Held, Promised

\* The invariant is inductive.
LEMMA TRNextKeeps == TRInv /\ [TRNext]_allVars => TRInv'
<1> SUFFICES ASSUME TRInv, [TRNext]_allVars PROVE TRInv'
  OBVIOUS
<1>1. CASE [SyncNext]_syncVars /\ UNCHANGED readinessVars
  BY <1>1, SyncNextKeeps, ActiveStays, SyncKeeps DEF TRInv
<1>2. ASSUME UNCHANGED syncVars, NEW p \in Evaluators, NEW k \in EvaluationKeys, Observe(p, k)
      PROVE  TRInv'
  BY <1>2, ObserveKeeps
<1>3. ASSUME UNCHANGED syncVars, NEW p \in Evaluators, LockJob(p) \/ Evaluates(p)
      PROVE  TRInv'
  <2>1. CASE RecordFails(p) \/ AbortEvaluation(p)
    BY <1>3, <2>1, RestingKeeps DEF RecordFails, AbortEvaluation, Deadlocked, LetsGo
  <2> QED BY <1>3, <2>1, LockJobKeeps, RecordKeeps DEF Evaluates
<1>4. ASSUME UNCHANGED syncVars, NEW k \in EvaluationKeys, Aim(k) PROVE TRInv'
  BY <1>4, InvalidatorKeeps DEF Aim, Invalidation, Held
<1>5. ASSUME UNCHANGED syncVars, Invalidates PROVE TRInv'
  <2>1. CASE LockEvaluation
    <3>1. invalidator.key \in EvaluationKeys
      BY <2>1 DEF LockEvaluation, TRInv, TypeOK, Invalidation, Resting
    <3>2. Current' = Current
      BY <2>1, SameEvaluations DEF LockEvaluation
    <3>3. Held'
      BY <2>1, <3>2 DEF LockEvaluation, Held, Resting
    <3>4. invalidator' \in Invalidation
      BY <2>1, <3>1 DEF LockEvaluation, Invalidation
    <3> QED BY <1>5, <2>1, <3>3, <3>4, InvalidatorKeeps DEF LockEvaluation
  <2>2. ASSUME NEW p \in Evaluators, AbortInvalidation(p) PROVE TRInv'
    BY <1>5, <2>2, InvalidatorKeeps DEF AbortInvalidation, Invalidation, Held, Resting
  <2> QED BY <1>5, <2>1, <2>2, InvalidateKeeps DEF Invalidates
<1>6. CASE UNCHANGED allVars
  BY <1>1, <1>6 DEF allVars
<1>7. ASSUME UNCHANGED syncVars, NEW status \in Mutable, SaveCopy(status) PROVE TRInv'
  BY <1>7, SaveCopyKeeps
<1>8. CASE ReadinessStep /\ UNCHANGED syncVars
  BY <1>2, <1>3, <1>4, <1>5, <1>7, <1>8 DEF ReadinessStep
<1> QED BY <1>1, <1>6, <1>8, DeleteKeeps DEF TRNext

LEMMA TRInvariance == TRSpec => []TRInv
BY TRInitInv, TRNextKeeps, PTL DEF TRSpec
-----------------------------------------------------------------------------
\* Type correctness of the composition.
THEOREM TypesCorrect == TRSpec => []TypeOK
<1>1. TRInv => TypeOK
  BY DEF TRInv
<1> QED BY <1>1, TRInvariance, PTL

\* Two evaluations never both stand, although they decide before they lock.
THEOREM CurrentIsUnique == TRSpec => []OneCurrentEvaluation
<1>1. TRInv => OneCurrentEvaluation
  BY DEF TRInv
<1> QED BY <1>1, TRInvariance, PTL

\* READY on the record is READY_FOR_TEACHING on the job, or has been: nothing but
\* a save of a copy that was read before takes the status away while it stands.
THEOREM ReadyShows == TRSpec => []ReadyIsGranted
<1>1. TRInv => ReadyIsGranted
  BY DEF TRInv
<1> QED BY <1>1, TRInvariance, PTL

\* A job that may be taught is never without a current evaluation. (It may be
\* one that is not READY.)
THEOREM TeachingHasEvidence == TRSpec => []TeachingIsAccounted
<1>1. TRInv => TeachingIsAccounted
  BY DEF TRInv
<1> QED BY <1>1, TRInvariance, PTL

\* The index under a job that may be taught stays there, from the snapshot
\* taken without a lock through every later synchronization.
THEOREM TeachingHasIndex == TRSpec => []TeachingIsSearchable
<1>1. TRInv => TeachingIsSearchable
  BY DEF TRInv
<1> QED BY <1>1, TRInvariance, PTL

\* What an evaluation has recorded is kept, but for its being current.
LEMMA RecordedStay ==
    ASSUME TRInv, [TRNext]_allVars, NEW k \in Recorded
    PROVE  evaluation'[k] \in {evaluation[k], [evaluation[k] EXCEPT !.invalidated = TRUE]}
<1>0. k \in EvaluationKeys
  BY DEF Recorded
<1>1. CASE UNCHANGED evaluation
  BY <1>1
<1>2. ASSUME NEW p \in Evaluators, Record(p)
      PROVE  evaluation'[k] \in {evaluation[k], [evaluation[k] EXCEPT !.invalidated = TRUE]}
  <2>1. k # evaluator[p].key
    BY <1>2 DEF Record, Collides
  <2> QED BY <1>0, <1>2, <2>1 DEF Record
<1>3. CASE Invalidate
  BY <1>0, <1>3 DEF Invalidate, TRInv, TypeOK
<1>4. CASE ReadinessStep
  BY <1>1, <1>2, <1>3, <1>4 DEF ReadinessStep, Observe, LockJob, Evaluates, RecordFails, AbortEvaluation, Aim,
     Invalidates, LockEvaluation, AbortInvalidation, SaveCopy
<1> QED BY <1>1, <1>4 DEF TRNext, Delete, readinessVars, allVars

LEMMA OutcomesStay ==
    ASSUME TRInv, [TRNext]_allVars, NEW k \in Recorded
    PROVE  /\ k \in Recorded'
           /\ evaluation'[k].decision = evaluation[k].decision
           /\ evaluation'[k].lineage = evaluation[k].lineage
<1>1. k \in EvaluationKeys /\ evaluation[k] \in Evaluation
  BY DEF Recorded, TRInv, TypeOK
<1>2. evaluation'[k] \in {evaluation[k], [evaluation[k] EXCEPT !.invalidated = TRUE]}
  BY RecordedStay
<1> QED BY <1>1, <1>2, Withdrawing DEF Recorded, Evaluation, NoEvaluation

\* Evaluations are evidence (EvaluationsAreEvidence): whoever replaces or
\* invalidates one leaves its decision and its lineage alone.
THEOREM EvidenceIsKept == TRSpec => EvaluationsAreEvidence
<1>1. TRInv /\ [TRNext]_allVars =>
        [\A k \in Recorded :
            evaluation'[k] \in {evaluation[k], [evaluation[k] EXCEPT !.invalidated = TRUE]}]_allVars
  BY RecordedStay
<1> QED BY <1>1, TRInvariance, PTL DEF TRSpec, EvaluationsAreEvidence

\* The composition implements RetrievalSync: evaluating, invalidating and
\* deleting are to the index stutters or the withholding of the content.
THEOREM IndexIsUndisturbed == TRSpec => SyncInit /\ [][SyncNext]_syncVars
<1>1. TRInit => SyncInit
  BY DEF TRInit
<1>2. TRInv /\ [TRNext]_allVars => [SyncNext]_syncVars
  <2> SUFFICES ASSUME TRInv, [TRNext]_allVars PROVE [SyncNext]_syncVars
    OBVIOUS
  <2>1. CASE Delete
    BY <2>1, DeleteImplements
  <2>2. CASE UNCHANGED allVars
    BY <2>2 DEF allVars
  <2> QED BY <2>1, <2>2 DEF TRNext
<1> QED BY <1>1, <1>2, TRInvariance, PTL DEF TRSpec

\* Therefore what synchronization promises of the index is kept in the
\* composition too: deleting withholds every part of the content, at any moment,
\* and evaluating and invalidating do nothing to it.
THEOREM IndexStaysImplemented == TRSpec => ImplementsIndex
BY IndexIsUndisturbed, SyncImplements, PTL

-----------------------------------------------------------------------------
(* The refinement of TeachingDecisions *)

\* What a decision rests on but the index is under the lock: a job that cannot
\* have been deleted or changed since the second snapshot.
Steady ==
    \A p \in Evaluators : evaluator[p].at = "locked" =>
        /\ job # "deleted"
        /\ ~evaluator[p].stale => evaluator[p].seen.job = job

\* An invalidation is after an evaluation that was READY, and still is.
Aiming ==
    invalidator.at \in {"aimed", "holding"} =>
        invalidator.key \in Recorded /\ evaluation[invalidator.key].decision = "ready"

LEMMA AimingStays ==
    ASSUME TRInv, Aiming, [TRNext]_allVars
    PROVE  Aiming'
<1>1. \A k \in Recorded :
        k \in Recorded' /\ evaluation'[k].decision = evaluation[k].decision
  BY OutcomesStay
<1>2. CASE UNCHANGED invalidator
  BY <1>1, <1>2 DEF Aiming
<1>3. ASSUME NEW k \in EvaluationKeys, Aim(k) PROVE Aiming'
  BY <1>3 DEF Aim, Aiming, Current, Recorded
<1>4. CASE LockEvaluation
  BY <1>1, <1>4 DEF LockEvaluation, Aiming, Resting
<1>5. CASE Invalidate \/ \E p \in Evaluators : AbortInvalidation(p)
  BY <1>5 DEF Invalidate, AbortInvalidation, Aiming, Resting
<1> QED BY <1>2, <1>3, <1>4, <1>5 DEF TRNext, ReadinessStep, Observe, LockJob, Evaluates, Record,
           RecordFails, AbortEvaluation, Invalidates, SaveCopy, Delete, allVars, readinessVars

LEMMA SteadyStays ==
    ASSUME TRInv, Steady, [TRNext]_allVars
    PROVE  Steady'
<1> SUFFICES ASSUME NEW q \in Evaluators, evaluator'[q].at = "locked"
             PROVE  /\ job' # "deleted"
                    /\ ~evaluator'[q].stale => evaluator'[q].seen.job = job'
  BY DEF Steady
<1>1. CASE evaluator'[q] = evaluator[q] /\ job' = job
  BY <1>1 DEF Steady
<1>2. ASSUME holder = Nobody, evaluator'[q] = evaluator[q] PROVE FALSE
  BY <1>2, NobodyEvaluates DEF TRInv, Locking, Informed, Nobody
<1>3. ASSUME NEW p \in Evaluators, LockJob(p), p = q
      PROVE  /\ job' # "deleted"
             /\ ~evaluator'[q].stale => evaluator'[q].seen.job = job'
  <2>1. job # "deleted"
    BY <1>3 DEF LockJob, TRInv, TypeOK, Resting
  <2>2. /\ evaluator'[q].seen = evaluator[q].seen
        /\ evaluator'[q].stale = (Snapshot # evaluator[q].seen)
    BY <1>3, <2>1 DEF LockJob, TRInv, TypeOK
  <2>3. Snapshot.job = job
    BY DEF Snapshot
  <2> QED BY <1>3, <2>1, <2>2, <2>3 DEF LockJob
<1>4. ASSUME NEW p \in Evaluators, Record(p) PROVE FALSE
  <2>1. evaluator[p].at = "locked" /\ evaluator' = [evaluator EXCEPT ![p] = Resting]
    BY <1>4 DEF Record, LetsGo
  <2>2. q # p /\ evaluator'[q] = evaluator[q]
    BY <2>1 DEF TRInv, TypeOK, Resting
  <2> QED BY <2>1, <2>2 DEF TRInv, Locking, Informed
<1>5. ASSUME NEW p \in Evaluators, evaluator' = [evaluator EXCEPT ![p] = Resting], job' = job
      PROVE  evaluator'[q] = evaluator[q] /\ job' = job
  BY <1>5 DEF TRInv, TypeOK, Resting
<1>6. ASSUME NEW p \in Evaluators, NEW k \in EvaluationKeys, Observe(p, k)
      PROVE  evaluator'[q] = evaluator[q] /\ job' = job
  BY <1>6 DEF Observe, TRInv, TypeOK
<1>7. ASSUME NEW p \in Evaluators, LockJob(p), p # q
      PROVE  evaluator'[q] = evaluator[q] /\ job' = job
  BY <1>7 DEF LockJob, TRInv, TypeOK
<1>8. ASSUME NEW p \in Evaluators, RecordFails(p) \/ AbortEvaluation(p)
      PROVE  evaluator'[q] = evaluator[q] /\ job' = job
  BY <1>5, <1>8 DEF RecordFails, AbortEvaluation, LetsGo
<1>9. CASE Invalidate \/ Delete \/ \E status \in Mutable : SaveCopy(status)
  BY <1>2, <1>9 DEF Invalidate, Delete, SaveCopy
<1>10. CASE UNCHANGED <<evaluator, job>>
  BY <1>1, <1>10
<1> QED BY <1>1, <1>3, <1>4, <1>6, <1>7, <1>8, <1>9, <1>10 DEF TRNext, ReadinessStep, Evaluates, Aim,
           Invalidates, LockEvaluation, AbortInvalidation, allVars, readinessVars

\* An evaluation is recorded as one decision, on what is true while it is locked.
LEMMA RecordImplements ==
    ASSUME TRInv, Steady, NEW p \in Evaluators, Record(p), UNCHANGED syncVars
    PROVE  Decisions!Next
<1> DEFINE k       == evaluator[p].key
           lineage == evaluator[p].seen
           new     == [key |-> k, decision |-> Decision(p), lineage |-> lineage]
<1>1. /\ evaluator[p].at = "locked" /\ k \in EvaluationKeys /\ lineage \in Lineage
      /\ lineage.searched \subseteq Keys
  BY InFlight DEF Record, TRInv
<1>2. Decision(p) \in {"ready", "blocked", "stale"}
  BY DEF Decision
<1>3. /\ Current' = {k}
      /\ Recorded' = Recorded \cup {k}
      /\ evaluation'[k].decision = Decision(p) /\ evaluation'[k].lineage = lineage
      /\ \A j \in Recorded : /\ evaluation'[j].decision = evaluation[j].decision
                             /\ evaluation'[j].lineage = evaluation[j].lineage
  BY Recording, OutcomesStay DEF TRNext, ReadinessStep, Evaluates
<1>4. Evidence' = Evidence \cup {new}
  BY <1>3 DEF Evidence
<1>5. ASSUME NEW e \in Evidence PROVE e.key # k /\ e.lineage # lineage
  BY DEF Evidence, Record, Collides
<1>6. job # "deleted"
  BY <1>1 DEF Steady
<1>7. job' = IF Decision(p) = "ready" THEN "teaching" ELSE job
  BY DEF Record
<1>8. ASSUME Decision(p) = "ready" PROVE Decisions!Granted(lineage)
  <2>1. ~evaluator[p].stale /\ Passes(lineage)
    BY <1>8 DEF Decision
  <2>2. job = lineage.job
    BY <1>1, <2>1 DEF Steady
  <2>3. evaluator[p].replaces \subseteq Current
    BY <1>1 DEF TRInv, Locking, Informed, Outdated
  <2>4. job = "review" \/ (job = "teaching" /\ Current # {})
    BY <1>8, <2>3 DEF Record, Refused
  <2>5. lineage.searched \subseteq SearchedKeys
    BY <1>1 DEF TRInv, Promised, SearchedKeys
  <2> QED BY <2>1, <2>2, <2>4, <2>5 DEF Passes, Decisions!Granted
<1>9. SearchedKeys' = SearchedKeys
  BY DEF SearchedKeys, syncVars
<1>10. Decisions!Decide(k, Decision(p), lineage)
  BY <1>3, <1>4, <1>5, <1>6, <1>7, <1>8, <1>9 DEF Decisions!Decide
<1> QED BY <1>1, <1>2, <1>10 DEF Decisions!Next

LEMMA InvalidateImplements ==
    ASSUME TRInv, Aiming, Invalidate, UNCHANGED syncVars
    PROVE  Decisions!Revoke
<1> DEFINE k == invalidator.key
           e == [key |-> k, decision |-> evaluation[k].decision, lineage |-> evaluation[k].lineage]
<1>1. k \in Current /\ Current' = {} /\ job' = IF job = "teaching" THEN "review" ELSE job
  BY Revoking
<1>2. Current = {k}
  BY <1>1 DEF TRInv, OneCurrentEvaluation
<1>3. e \in Evidence /\ e.key = k /\ e.decision = "ready"
  BY <1>1 DEF Current, Evidence, Aiming, Invalidate
<1>4. Evidence' = Evidence
  <2>1. TRNext
    BY DEF TRNext, ReadinessStep, Invalidates
  <2>2. Recorded' = Recorded
    <3>1. \A j \in EvaluationKeys : j # k => evaluation'[j] = evaluation[j]
      BY DEF Invalidate, TRInv, TypeOK
    <3>2. k \in Recorded /\ k \in Recorded'
      BY <1>1, <2>1, OutcomesStay DEF Current
    <3> QED BY <3>1, <3>2 DEF Recorded
  <2>3. \A j \in Recorded : /\ evaluation'[j].decision = evaluation[j].decision
                           /\ evaluation'[j].lineage = evaluation[j].lineage
    BY <2>1, OutcomesStay
  <2> QED BY <2>2, <2>3 DEF Evidence
<1>5. SearchedKeys' = SearchedKeys
  BY DEF SearchedKeys, syncVars
<1> QED BY <1>1, <1>2, <1>3, <1>4, <1>5 DEF Decisions!Revoke

\* Whatever synchronization does, a generation that was searched still is.
LEMMA SyncImplementsDecisions ==
    ASSUME TRInv, [SyncNext]_syncVars, UNCHANGED readinessVars
    PROVE  Decisions!Next
<1> DEFINE lineage == [job |-> "review", valid |-> TRUE, searched |-> SearchedKeys']
<1>1. lineage \in Lineage /\ lineage.searched = SearchedKeys'
  BY ReviewIsMutable DEF Lineage, JobStatuses, SearchedKeys
<1>2. SearchedKeys \subseteq SearchedKeys'
  BY ActiveStays DEF TRInv, SearchedKeys
<1>3. UNCHANGED <<job, Evidence, Current>>
  BY DEF readinessVars, Evidence, Current, Recorded
<1>4. Decisions!Synchronize(lineage.searched)
  BY <1>1, <1>2, <1>3 DEF Decisions!Synchronize
<1> QED BY <1>1, <1>4 DEF Decisions!Next

LEMMA DecisionSteps ==
    TRInv /\ Steady /\ Aiming /\ [TRNext]_allVars => [Decisions!Next]_(Decisions!decisions)
<1> SUFFICES ASSUME TRInv, Steady, Aiming, [TRNext]_allVars
             PROVE  [Decisions!Next]_(Decisions!decisions)
  OBVIOUS
<1>1. CASE SyncNext /\ UNCHANGED readinessVars
  BY <1>1, SyncImplementsDecisions
<1>2. CASE UNCHANGED <<job, evaluation, generation>>
  BY <1>2 DEF Decisions!decisions, SearchedKeys, Evidence, Current, Recorded
<1>3. CASE Delete
  <2>1. UNCHANGED <<SearchedKeys, Evidence, Current>>
    BY <1>3, DeleteImplements DEF Delete, SearchedKeys, Evidence, Current, Recorded
  <2> QED BY <1>3, <2>1 DEF Delete, Decisions!Delete, Decisions!Next
<1>4. ASSUME UNCHANGED syncVars, NEW p \in Evaluators, Record(p) PROVE Decisions!Next
  BY <1>4, RecordImplements
<1>5. CASE Invalidate /\ UNCHANGED syncVars
  BY <1>5, InvalidateImplements DEF Decisions!Next
<1>6. ASSUME NEW status \in Mutable, SaveCopy(status), UNCHANGED syncVars PROVE Decisions!Next
  <2>1. UNCHANGED <<SearchedKeys, Evidence, Current>>
    BY <1>6 DEF SaveCopy, syncVars, SearchedKeys, Evidence, Current, Recorded
  <2> QED BY <1>6, <2>1 DEF SaveCopy, Decisions!Overwrite, Decisions!Next
<1> QED BY <1>1, <1>2, <1>3, <1>4, <1>5, <1>6 DEF TRNext, ReadinessStep, Observe, LockJob, Evaluates, RecordFails,
           AbortEvaluation, Aim, Invalidates, LockEvaluation, AbortInvalidation,
           allVars, readinessVars, syncVars

\* Evaluations and invalidations, which decide on snapshots and take their locks
\* in different orders, implement decisions taken in one step (ImplementsDecisions).
THEOREM ImplementsTheDecisions == TRSpec => ImplementsDecisions
<1>1. TRInit => Decisions!Init
  BY DEF TRInit, SyncInit, ReadinessInit, Decisions!Init, SearchedKeys, Evidence, Current, Recorded
<1>2. TRInit => Steady /\ Aiming
  BY DEF TRInit, ReadinessInit, Steady, Aiming, Resting
<1>3. TRInv /\ Steady /\ Aiming /\ [TRNext]_allVars => Steady' /\ Aiming'
  BY SteadyStays, AimingStays
<1> QED BY <1>1, <1>2, <1>3, DecisionSteps, TRInvariance, PTL DEF TRSpec, ImplementsDecisions, Decisions!Spec
=============================================================================
