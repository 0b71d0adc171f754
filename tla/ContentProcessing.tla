------------------------ MODULE ContentProcessing ------------------------
(***************************************************************************)
(* The content-processing job of apps/content_processing: one row that     *)
(* moves through an ordered pipeline, one Celery task per stage, and the   *)
(* requests that act on it from outside the pipeline: import, retry,       *)
(* cancel, delete (apps/content_intelligence) and the grant of teaching    *)
(* readiness.  A reviewer's request for reprocessing is no action: its     *)
(* first query (apps/academic_review/infrastructure/persistence/           *)
(* repositories.py) locks a row joined to its nullable reviewer, which     *)
(* PostgreSQL refuses, so the request ends before it reaches the job.      *)
(*                                                                         *)
(* A stage task is one transaction under the job's row lock, so it is one  *)
(* action.  The requests take no lock: each reads the row, and saves all   *)
(* its columns some statements later.  One action is one statement of a    *)
(* request, or one transaction of it.                                      *)
(*                                                                         *)
(* Stages are numbers in the order of STAGE_SEQUENCE: 0 is CREATED, 1 is   *)
(* QUEUED, 2 is INSPECTING, and so on to LastStage, which is INDEXING.     *)
(***************************************************************************)
EXTENDS Naturals, FiniteSets

CONSTANTS Operators,    \* requests in flight at a time
          ReviewStage,  \* VALIDATING: a run may stop here for review
          LastStage,    \* INDEXING
          MaxAttempts,  \* RetryPolicy.MAX_ATTEMPTS
          TaskCap,      \* bound: queued tasks of one attempt and stage
          MaxFaults     \* bound: lost tasks and dead requests in a behaviour

ASSUME PipelineAssumption ==
    /\ ReviewStage \in Nat
    /\ LastStage \in Nat
    /\ ReviewStage >= 2
    /\ ReviewStage < LastStage
    /\ MaxAttempts \in Nat \ {0}
    /\ TaskCap \in Nat \ {0}
    /\ MaxFaults \in Nat

VARIABLES job,       \* the job row
          attempts,  \* the status of each attempt row
          results,   \* the stage results, as <<attempt, stage>>
          sessions,  \* attempts whose proposal has a review session open
          tasks,     \* queued process_stage tasks of each attempt and stage
          op,        \* the requests in flight
          overwrote, \* ghost: a request saved over a row it had not read
          faults     \* ghost: failures spent of MaxFaults

vars == <<job, attempts, results, sessions, tasks, op, overwrote, faults>>

Created == 0
Queued == 1
Inspecting == 2
AnyStage == 0..LastStage
Stage == Inspecting..LastStage
Attempt == 1..MaxAttempts
Early == {Created, Queued}

Statuses == {"ABSENT", "ACTIVE", "READY_FOR_REVIEW", "READY_FOR_TEACHING",
             "FAILED", "CANCELLED", "DELETED"}

\* "import" is whether legacy_import_job points to a row; "failure" is the
\* classification of the recorded failure code.
Job == [status : Statuses, stage : AnyStage, active : 0..MaxAttempts,
        cancel : BOOLEAN, failure : {"none", "retryable", "final"}, import : BOOLEAN]

NoJob == [status |-> "ABSENT", stage |-> Created, active |-> 0,
          cancel |-> FALSE, failure |-> "none", import |-> FALSE]

Steps == {"first", "queue", "queueing", "cancel", "cancelling", "cancelled",
          "retry", "retried", "delete"}

\* A request: its next statement, its copy of the row, the attempt it found.
Request == [pc : Steps, job : Job, att : 0..MaxAttempts]

Idle == [pc |-> "idle"]

TypeOK ==
    /\ job \in Job
    /\ attempts \in [Attempt -> {"none", "pending", "succeeded", "failed", "cancelled"}]
    /\ results \in SUBSET (Attempt \X Stage)
    /\ sessions \in SUBSET Attempt
    /\ tasks \in [Attempt \X Stage -> 0..TaskCap]
    /\ op \in [Operators -> Request \cup {Idle}]
    /\ overwrote \in BOOLEAN
    /\ faults \in 0..MaxFaults

Init ==
    /\ job = NoJob
    /\ attempts = [a \in Attempt |-> "none"]
    /\ results = {}
    /\ sessions = {}
    /\ tasks = [t \in Attempt \X Stage |-> 0]
    /\ op = [o \in Operators |-> Idle]
    /\ overwrote = FALSE
    /\ faults = 0

-----------------------------------------------------------------------------
(* The aggregate's transitions, on the copy of the row a caller holds *)

Immutable == {"DELETED", "READY_FOR_TEACHING"}

CanQueue(j) == j.status \notin Immutable /\ j.stage \in Early

\* Mutant: the job is left in the stage it was created in.
QueuedJob_SameStage(j) == j
QueuedJob(j) == [j EXCEPT !.stage = Queued]

CanBegin(j, a, s) ==
    /\ j.status \notin Immutable
    /\ a = j.active
    /\ ~j.cancel
    /\ j.stage \in {s - 1, s}

FailedJob(j, failure) == [j EXCEPT !.status = "FAILED", !.failure = failure]

\* Mutant: a cancellation takes effect at once in every stage.
CancelledJob_AnyStage(j) ==
    [j EXCEPT !.cancel = TRUE, !.status = "CANCELLED", !.failure = "retryable"]

\* request_cancellation, and cancel() when no stage has begun.
CancelledJob(j) ==
    IF j.stage \in Early
    THEN [j EXCEPT !.cancel = TRUE, !.status = "CANCELLED", !.failure = "retryable"]
    ELSE [j EXCEPT !.cancel = TRUE]

CanRetry(j) ==
    /\ j.status \in {"FAILED", "CANCELLED"}
    /\ j.active < MaxAttempts
    /\ j.failure # "final"

\* Mutant: the attempt number is left as it is.
RestartedJob_SameNumber(j) ==
    [j EXCEPT !.status = "ACTIVE", !.stage = Queued, !.cancel = FALSE, !.failure = "none"]

\* begin_retry.
RestartedJob(j) ==
    [j EXCEPT !.status = "ACTIVE", !.stage = Queued, !.active = @ + 1,
              !.cancel = FALSE, !.failure = "none"]

\* mark_deleted, after cancel() when the copy was ACTIVE; job.delete() then
\* clears the link to the import row.
DeletedJob(j) ==
    [(IF j.status = "ACTIVE" THEN CancelledJob(j) ELSE j)
        EXCEPT !.status = "DELETED", !.cancel = TRUE, !.import = FALSE]

-----------------------------------------------------------------------------
(* Helpers *)

At(o, pc) == op[o].pc = pc
Goto(o, pc, j, a) == op' = [op EXCEPT ![o] = [pc |-> pc, job |-> j, att |-> a]]
Done(o) == op' = [op EXCEPT ![o] = Idle]

\* A save writes every column, the foreign key to the import row with them:
\* once that row is deleted, the database refuses a copy that still names it.
LinkHolds(o) == op[o].job.import => job.import

Overwrites(o) == overwrote' = (overwrote \/ op[o].job # job)

\* Mutants: a save that leaves out the status, or the foreign key.
SaveJob_OldStatus(o, j) ==
    /\ LinkHolds(o)
    /\ job' = [j EXCEPT !.status = job.status]
    /\ Overwrites(o)
SaveJob_AnyLink(o, j) ==
    /\ job' = j
    /\ Overwrites(o)

\* job.save(): the version the copy was read at is not compared.
SaveJob(o, j) ==
    /\ LinkHolds(o)
    /\ job' = j
    /\ Overwrites(o)

\* get_active: the attempt the row names now, 0 when it has none.
ActiveAttempt ==
    IF job.active \in Attempt /\ attempts[job.active] # "none" THEN job.active ELSE 0

Dispatch(q, a, s) == q[<<a, s>>] < TaskCap /\ tasks' = [q EXCEPT ![<<a, s>>] = @ + 1]

Taken(a, s) == [tasks EXCEPT ![<<a, s>>] = @ - 1]

Fault == faults < MaxFaults /\ faults' = faults + 1

-----------------------------------------------------------------------------
(* Import: create_or_resolve, then queue *)

\* The row is inserted.  (An import that loses the race for it is refused by
\* cp_job_active_identity_unique, and changes nothing.)
CreateJob(o) ==
    /\ At(o, "idle")
    /\ job.status = "ABSENT"
    /\ job' = [NoJob EXCEPT !.status = "ACTIVE", !.active = 1, !.import = TRUE]
    /\ Goto(o, "first", job', 0)
    /\ UNCHANGED <<attempts, results, sessions, tasks, overwrote, faults>>

AppendFirstAttempt(o) ==
    /\ At(o, "first")
    /\ attempts' = [attempts EXCEPT ![1] = "pending"]
    /\ Goto(o, "queue", op[o].job, 0)
    /\ UNCHANGED <<job, results, sessions, tasks, overwrote, faults>>

\* A second import of the resource resolves to the row there is.
ResolveJob(o) ==
    /\ At(o, "idle")
    /\ job.status \notin {"ABSENT", "DELETED"}
    /\ job.import
    /\ Goto(o, "queue", job, 0)
    /\ UNCHANGED <<job, attempts, results, sessions, tasks, overwrote, faults>>

QueueFindsAttempt(o) ==
    /\ At(o, "queue")
    /\ ActiveAttempt # 0
    /\ CanQueue(op[o].job)
    /\ Goto(o, "queueing", op[o].job, ActiveAttempt)
    /\ UNCHANGED <<job, attempts, results, sessions, tasks, overwrote, faults>>

\* Mutant: the job is saved and never dispatched.
QueueSaves_NoDispatch(o) ==
    /\ At(o, "queueing")
    /\ SaveJob(o, QueuedJob(op[o].job))
    /\ Done(o)
    /\ UNCHANGED <<attempts, results, sessions, tasks, faults>>

\* The save and, outside any transaction, the dispatch that follows at once.
\* The task carries INSPECTING whatever restart_stage the attempt records.
QueueSaves(o) ==
    /\ At(o, "queueing")
    /\ SaveJob(o, QueuedJob(op[o].job))
    /\ Dispatch(tasks, op[o].att, Inspecting)
    /\ Done(o)
    /\ UNCHANGED <<attempts, results, sessions, faults>>

-----------------------------------------------------------------------------
(* Cancel *)

CancelReads(o) ==
    /\ At(o, "idle")
    /\ job.status \notin Immutable \cup {"ABSENT"}
    /\ Goto(o, "cancel", job, 0)
    /\ UNCHANGED <<job, attempts, results, sessions, tasks, overwrote, faults>>

CancelFindsAttempt(o) ==
    /\ At(o, "cancel")
    /\ Goto(o, "cancelling", op[o].job, ActiveAttempt)
    /\ UNCHANGED <<job, attempts, results, sessions, tasks, overwrote, faults>>

\* The attempt row is saved before the job row, in a statement of its own.
CancelMarksAttempt(o) ==
    /\ At(o, "cancelling")
    /\ op[o].job.stage \in Early
    /\ op[o].att # 0
    /\ attempts' = [attempts EXCEPT ![op[o].att] = "cancelled"]
    /\ Overwrites(o)
    /\ Goto(o, "cancelled", op[o].job, op[o].att)
    /\ UNCHANGED <<job, results, sessions, tasks, faults>>

CancelPending(o) ==
    \/ At(o, "cancelled")
    \/ At(o, "cancelling") /\ (op[o].job.stage \notin Early \/ op[o].att = 0)

CancelSaves(o) ==
    /\ CancelPending(o)
    /\ SaveJob(o, CancelledJob(op[o].job))
    /\ Done(o)
    /\ UNCHANGED <<attempts, results, sessions, tasks, faults>>

-----------------------------------------------------------------------------
(* Retry: a new attempt row, the job row, then queue *)

RetryReads(o) ==
    /\ At(o, "idle")
    /\ CanRetry(job)
    /\ Goto(o, "retry", job, 0)
    /\ UNCHANGED <<job, attempts, results, sessions, tasks, overwrote, faults>>

\* cp_attempt_number_unique lets one request have the number.
NumberFree(o) == attempts[op[o].job.active + 1] = "none"

RetryAppends(o) ==
    /\ At(o, "retry")
    /\ NumberFree(o)
    /\ attempts' = [attempts EXCEPT ![op[o].job.active + 1] = "pending"]
    /\ Goto(o, "retried", op[o].job, op[o].job.active + 1)
    /\ UNCHANGED <<job, results, sessions, tasks, overwrote, faults>>

RetrySaves(o) ==
    /\ At(o, "retried")
    /\ SaveJob(o, RestartedJob(op[o].job))
    /\ Goto(o, "queue", RestartedJob(op[o].job), 0)
    /\ UNCHANGED <<attempts, results, sessions, tasks, faults>>

-----------------------------------------------------------------------------
(* Delete: the row is read before the transaction that deletes the import *)

DeleteReads(o) ==
    /\ At(o, "idle")
    /\ job.import
    /\ Goto(o, "delete", job, 0)
    /\ UNCHANGED <<job, attempts, results, sessions, tasks, overwrote, faults>>

DeleteCommits(o) ==
    /\ At(o, "delete")
    /\ SaveJob(o, DeletedJob(op[o].job))
    /\ attempts' = IF /\ op[o].job.status = "ACTIVE"
                      /\ op[o].job.stage \in Early
                      /\ ActiveAttempt # 0
                   THEN [attempts EXCEPT ![ActiveAttempt] = "cancelled"]
                   ELSE attempts
    /\ Done(o)
    /\ UNCHANGED <<results, sessions, tasks, faults>>

-----------------------------------------------------------------------------
(* Review: the session of a run that stopped for review *)

\* The session is approved or rejected.  The locking query of that request
\* has the same flaw as reprocessing's; it is taken here for what it is
\* written to do, so that what follows an approval is modelled too.
CloseReview(a) ==
    /\ a \in sessions
    /\ sessions' = sessions \ {a}
    /\ UNCHANGED <<job, attempts, results, tasks, op, overwrote, faults>>

\* Readiness is granted and withdrawn under the job's row lock; the policy
\* wants an approved proposal, so its session is closed.
GrantReadiness ==
    /\ job.status = "READY_FOR_REVIEW"
    /\ job.active \notin sessions
    /\ job' = [job EXCEPT !.status = "READY_FOR_TEACHING"]
    /\ UNCHANGED <<attempts, results, sessions, tasks, op, overwrote, faults>>

WithdrawReadiness ==
    /\ job.status = "READY_FOR_TEACHING"
    /\ job' = [job EXCEPT !.status = "READY_FOR_REVIEW"]
    /\ UNCHANGED <<attempts, results, sessions, tasks, op, overwrote, faults>>

-----------------------------------------------------------------------------
(* The stage task: OrchestrateContentProcessingStageService.execute *)

Takes(a, s) == tasks[<<a, s>>] > 0

\* Mutant: only deletion stops a task.
Ignores_OnlyDeleted(a, s) ==
    job.status = "DELETED" \/ a # job.active \/ <<a, s>> \in results

\* The early returns, and the error raised at a stale attempt.
Ignores(a, s) ==
    \/ job.status \in {"DELETED", "CANCELLED"}
    \/ a # job.active
    \/ <<a, s>> \in results

SkipStage(a, s) ==
    /\ Takes(a, s)
    /\ Ignores(a, s)
    /\ tasks' = Taken(a, s)
    /\ UNCHANGED <<job, attempts, results, sessions, op, overwrote, faults>>

\* begin_stage raises, and the handler records a retryable failure.
StageRefused(a, s) ==
    /\ Takes(a, s)
    /\ ~Ignores(a, s)
    /\ ~CanBegin(job, a, s)
    /\ job' = FailedJob(job, "retryable")
    /\ attempts' = [attempts EXCEPT ![a] = "failed"]
    /\ tasks' = Taken(a, s)
    /\ UNCHANGED <<results, sessions, op, overwrote, faults>>

\* The processor raises.
StageFails(a, s, failure) ==
    /\ Takes(a, s)
    /\ ~Ignores(a, s)
    /\ CanBegin(job, a, s)
    /\ job' = FailedJob([job EXCEPT !.stage = s], failure)
    /\ attempts' = [attempts EXCEPT ![a] = "failed"]
    /\ tasks' = Taken(a, s)
    /\ UNCHANGED <<results, sessions, op, overwrote, faults>>

\* Mutants: the stage result is not stored; the next stage is not dispatched.
StageAdvances_NoResult(a, s) ==
    /\ Takes(a, s)
    /\ ~Ignores(a, s)
    /\ CanBegin(job, a, s)
    /\ s < LastStage
    /\ results' = results
    /\ job' = [job EXCEPT !.stage = s + 1]
    /\ attempts' = [attempts EXCEPT ![a] = "pending"]
    /\ Dispatch(Taken(a, s), a, s + 1)
    /\ UNCHANGED <<sessions, op, overwrote, faults>>
StageAdvances_NoDispatch(a, s) ==
    /\ Takes(a, s)
    /\ ~Ignores(a, s)
    /\ CanBegin(job, a, s)
    /\ s < LastStage
    /\ results' = results \cup {<<a, s>>}
    /\ job' = [job EXCEPT !.stage = s + 1]
    /\ attempts' = [attempts EXCEPT ![a] = "pending"]
    /\ tasks' = Taken(a, s)
    /\ UNCHANGED <<sessions, op, overwrote, faults>>

\* The stage completes and the next one is dispatched.  The status is left as
\* it is: a job that FAILED stays so while a duplicate task re-runs it.
StageAdvances(a, s) ==
    /\ Takes(a, s)
    /\ ~Ignores(a, s)
    /\ CanBegin(job, a, s)
    /\ s < LastStage
    /\ results' = results \cup {<<a, s>>}
    /\ job' = [job EXCEPT !.stage = s + 1]
    /\ attempts' = [attempts EXCEPT ![a] = "pending"]
    /\ Dispatch(Taken(a, s), a, s + 1)
    /\ UNCHANGED <<sessions, op, overwrote, faults>>

\* Mutant: the stage moves on when the run ends.
StageEndsRun_NextStage(a, s) ==
    /\ Takes(a, s)
    /\ ~Ignores(a, s)
    /\ CanBegin(job, a, s)
    /\ s \in {ReviewStage, LastStage}
    /\ results' = results \cup {<<a, s>>}
    /\ job' = [job EXCEPT !.stage = s + 1, !.status = "READY_FOR_REVIEW"]
    /\ attempts' = [attempts EXCEPT ![a] = "succeeded"]
    /\ sessions' = IF s = ReviewStage THEN sessions \cup {a} ELSE sessions
    /\ tasks' = Taken(a, s)
    /\ UNCHANGED <<op, overwrote, faults>>

\* The run ends: after the last stage, or at VALIDATING when the proposal is
\* not eligible for automatic acceptance.
StageEndsRun(a, s) ==
    /\ Takes(a, s)
    /\ ~Ignores(a, s)
    /\ CanBegin(job, a, s)
    /\ s \in {ReviewStage, LastStage}
    /\ results' = results \cup {<<a, s>>}
    /\ job' = [job EXCEPT !.stage = s, !.status = "READY_FOR_REVIEW"]
    /\ attempts' = [attempts EXCEPT ![a] = "succeeded"]
    /\ sessions' = IF s = ReviewStage THEN sessions \cup {a} ELSE sessions
    /\ tasks' = Taken(a, s)
    /\ UNCHANGED <<op, overwrote, faults>>

-----------------------------------------------------------------------------
(* Failures *)

\* The worker or the broker loses a task: its transaction leaves nothing.
LoseTask(a, s) ==
    /\ Takes(a, s)
    /\ tasks' = Taken(a, s)
    /\ Fault
    /\ UNCHANGED <<job, attempts, results, sessions, op, overwrote>>

\* A request dies between two statements.
RequestDies(o) ==
    /\ ~At(o, "idle")
    /\ Done(o)
    /\ Fault
    /\ UNCHANGED <<job, attempts, results, sessions, tasks, overwrote>>

\* A request ends in an error: the database refuses its save, or queue raises.
RequestRefused(o) ==
    /\ \/ /\ op[o].pc \in {"queueing", "retried", "delete"} \/ CancelPending(o)
          /\ ~LinkHolds(o)
       \/ At(o, "retry") /\ ~NumberFree(o)
       \/ At(o, "queue") /\ (ActiveAttempt = 0 \/ ~CanQueue(op[o].job))
    /\ Done(o)
    /\ UNCHANGED <<job, attempts, results, sessions, tasks, overwrote, faults>>

-----------------------------------------------------------------------------
(* The specification *)

Proceeds(o) ==
    \/ AppendFirstAttempt(o) \/ QueueFindsAttempt(o) \/ QueueSaves(o)
    \/ CancelFindsAttempt(o) \/ CancelMarksAttempt(o) \/ CancelSaves(o)
    \/ RetryAppends(o) \/ RetrySaves(o) \/ DeleteCommits(o)
    \/ RequestRefused(o)

Starts(o) ==
    \/ CreateJob(o) \/ ResolveJob(o) \/ CancelReads(o) \/ RetryReads(o)
    \/ DeleteReads(o)

RunStage(a, s) ==
    \/ SkipStage(a, s) \/ StageRefused(a, s)
    \/ \E failure \in {"retryable", "final"} : StageFails(a, s, failure)
    \/ StageAdvances(a, s) \/ StageEndsRun(a, s)

Next ==
    \/ \E o \in Operators : Starts(o) \/ Proceeds(o) \/ RequestDies(o)
    \/ \E a \in Attempt, s \in Stage : RunStage(a, s) \/ LoseTask(a, s)
    \/ \E a \in Attempt : CloseReview(a)
    \/ GrantReadiness
    \/ WithdrawReadiness

Spec == Init /\ [][Next]_vars

\* A worker takes every queued task, and a request runs to its end; nothing
\* makes anybody start a request, grant readiness or close a review.
Fairness ==
    /\ \A a \in Attempt, s \in Stage : WF_vars(RunStage(a, s))
    /\ \A o \in Operators : WF_vars(Proceeds(o))

FairSpec == Spec /\ Fairness

-----------------------------------------------------------------------------
(* Properties *)

\* An attempt completes its stages in order: no stage result without the
\* results of every earlier stage of the same attempt, whatever requests
\* restart, cancel or overwrite the job, and whatever tasks are duplicated.
StagesInOrder ==
    \A a \in Attempt, s, t \in Stage :
        <<a, s>> \in results /\ t < s => <<a, t>> \in results

\* Content is offered for review, or to a teacher, only when the attempt the
\* row names has validated a proposal; no stale save may pair the status of
\* one attempt with the number of another.
ReviewedIsValidated ==
    job.status \in {"READY_FOR_REVIEW", "READY_FOR_TEACHING"}
        => <<job.active, ReviewStage>> \in results

\* Nothing has gone wrong that the code does not see.
Quiet == ~overwrote /\ faults = 0

\* A job is never left ACTIVE with nobody to move it: a task that its stage
\* admits is queued, or the request that will dispatch one is running.
ActiveIsDriven ==
    Quiet /\ job.status = "ACTIVE" =>
        \/ \E s \in Stage : tasks[<<job.active, s>>] > 0 /\ <<job.active, s>> \notin results
        \/ \E o \in Operators : op[o].pc \in {"first", "queue", "queueing"}

\* The number a retry takes is free: attempt rows beyond the active one belong
\* to a retry that is still running.
ActiveIsNewest ==
    Quiet /\ job.import =>
        \A a \in Attempt : a > job.active /\ attempts[a] # "none" =>
            \E o \in Operators : At(o, "retried") /\ op[o].att = a

\* A stage task that is not skipped may begin, unless cancellation was asked
\* for: it is for the stage the row is at, and the run has not ended.  So while
\* requests keep off each other, begin_stage raises for nothing else, whatever
\* tasks are lost and requests die.
OnlyCancellationRefuses ==
    ~overwrote => \A a \in Attempt, s \in Stage :
        Takes(a, s) /\ ~Ignores(a, s) => CanBegin(job, a, s) \/ job.cancel

\* Deletion is terminal: no copy of the row that a request read before the
\* deletion, and saves after it, brings the job back.
DeletedIsFinal == [][job.status = "DELETED" => job'.status = "DELETED"]_vars

\* An attempt that was cancelled before it began runs no stage and gets no
\* other outcome, although its task stays queued.
CancelledAttemptRests ==
    [][\A a \in Attempt :
         Quiet' /\ attempts[a] = "cancelled"
           /\ (\A o \in Operators : At(o, "cancelled") => op[o].att # a) =>
         /\ attempts'[a] = "cancelled"
         /\ \A s \in Stage : <<a, s>> \in results' => <<a, s>> \in results]_vars

\* The rows, copies and tasks implement the lifecycle of an import: while no
\* request overwrites another, the row moves as one state machine, however its
\* unlocked requests and stage tasks interleave, die or are lost; and what is
\* left of it afterwards is left.
Phase(status) ==
    CASE status = "ABSENT" -> "none"
      [] status = "ACTIVE" -> "working"
      [] status = "FAILED" -> "failed"
      [] status = "CANCELLED" -> "cancelled"
      [] status = "READY_FOR_REVIEW" -> "offered"
      [] status = "READY_FOR_TEACHING" -> "taught"
      [] status = "DELETED" -> "deleted"

Lifecycle == INSTANCE ImportLifecycle
                WITH phase <- Phase(job.status), number <- job.active,
                     validated <- {a \in Attempt : <<a, ReviewStage>> \in results},
                     overwritten <- overwrote

ImplementsLifecycle == Lifecycle!Spec

\* While nothing is lost and no request overwrites another, an ACTIVE job
\* reaches a status in which somebody may act on it.
ActiveComesToRest ==
    (job.status = "ACTIVE") ~> (job.status # "ACTIVE" \/ ~Quiet)
=============================================================================
