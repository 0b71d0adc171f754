------------------ MODULE ContentProcessingLifecycleProofs ------------------
(***************************************************************************)
(* ContentProcessing implements ImportLifecycle, for every number of       *)
(* requests, stages, attempts and faults: each of its steps is a step of   *)
(* the lifecycle or leaves it as it is.                                    *)
(*                                                                         *)
(* Beyond the invariants of the other two modules this wants what a        *)
(* request in flight has checked of the row it read (Intents): a guard is  *)
(* looked at when a request starts and relied on when it saves.            *)
(***************************************************************************)
EXTENDS ContentProcessingQuietProofs

\* What a request has checked, and still relies on at its later statements.
Intent(o) ==
    /\ op[o].pc \in {"cancel", "cancelling", "cancelled"} => op[o].job.status \notin Immutable
    /\ op[o].pc \in {"retry", "retried"} => op[o].job.status \in {"FAILED", "CANCELLED"}

Intents == \A o \in Operators : Intent(o)

LifecycleInv == QuietInv /\ Intents

Validated == {a \in Attempt : <<a, ReviewStage>> \in results}

-----------------------------------------------------------------------------
(* Lemmas about single steps *)

\* Results are never taken back.
LEMMA ResultsStay ==
    ASSUME [Next]_vars
    PROVE  results \subseteq results'
BY DEF Next, vars, Starts, CreateJob, ResolveJob, CancelReads, RetryReads, DeleteReads,
     Proceeds, AppendFirstAttempt, QueueFindsAttempt, QueueSaves,
     CancelFindsAttempt, CancelMarksAttempt, CancelSaves, RetryAppends, RetrySaves,
     DeleteCommits, RequestRefused, RunStage, SkipStage, StageRefused,
     StageFails, StageAdvances, StageEndsRun, RequestDies, LoseTask, CloseReview,
     GrantReadiness, WithdrawReadiness

\* A step that leaves no request where it was, starts it or takes it further.
LEMMA WhoMoves ==
    ASSUME TypeOK, AtStatement, Links, [Next]_vars, NEW p \in Operators
    PROVE  op'[p] = op[p] \/ op'[p] = Idle \/ Starts(p) \/ Proceeds(p)
<1>1. ASSUME NEW o \in Operators, Starts(o), p # o
      PROVE  op'[p] = op[p]
  BY <1>1, StartsEffect
<1>2. ASSUME NEW o \in Operators, Proceeds(o), p # o
      PROVE  op'[p] = op[p]
  BY <1>2, ProceedsEffect
<1>3. ASSUME NEW o \in Operators, RequestDies(o)
      PROVE  op'[p] = op[p] \/ op'[p] = Idle
  BY <1>3, DoneType DEF RequestDies, TypeOK
<1>4. ASSUME NEW a \in Attempt, NEW s \in Stage, RunStage(a, s) \/ LoseTask(a, s)
      PROVE  op' = op
  BY <1>4 DEF RunStage, SkipStage, StageRefused, StageFails, StageAdvances, StageEndsRun,
     LoseTask
<1>5. QED
  BY <1>1, <1>2, <1>3, <1>4 DEF Next, vars, CloseReview, GrantReadiness, WithdrawReadiness

-----------------------------------------------------------------------------
(* Intents is inductive *)

LEMMA IntentStarts ==
    ASSUME TypeOK, Links, NEW o \in Operators, Starts(o)
    PROVE  Intent(o)'
<1>0. job \in Job
  BY DEF TypeOK
<1>1. /\ op'[o].job = job'
      /\ op'[o].pc \in {"first", "queue", "cancel", "retry", "delete"}
      /\ op'[o].pc # "first" => job' = job
  BY StartsEffect
<1>2. ASSUME NEW pc \in {"queue", "cancel", "retry", "delete"},
             NEW a \in 0..MaxAttempts, Goto(o, pc, job, a)
      PROVE  op'[o].pc = pc /\ op'[o].job = job /\ op'[o].att = a
  BY <1>0, <1>2, GotoType DEF TypeOK, Steps
<1>3. 0 \in 0..MaxAttempts
  BY PipelineAssumption
<1>4. CASE CreateJob(o)
  <2>1. op'[o].pc = "first"
    BY <1>4, StartsEffect, <1>0, PipelineAssumption DEF CreateJob, Goto, TypeOK
  <2>2. QED
    BY <2>1 DEF Intent, At
<1>5. CASE ResolveJob(o)
  <2>1. op'[o].pc = "queue"
    BY <1>2, <1>3, <1>5 DEF ResolveJob
  <2>2. QED
    BY <2>1 DEF Intent, At
<1>6. CASE CancelReads(o)
  <2>1. op'[o].pc = "cancel" /\ op'[o].job = job
    BY <1>2, <1>3, <1>6 DEF CancelReads
  <2>2. QED
    BY <1>6, <2>1 DEF Intent, At, CancelReads
<1>7. CASE RetryReads(o)
  <2>1. op'[o].pc = "retry" /\ op'[o].job = job
    BY <1>2, <1>3, <1>7 DEF RetryReads
  <2>2. QED
    BY <1>7, <2>1 DEF Intent, At, RetryReads, CanRetry
<1>8. CASE DeleteReads(o)
  <2>1. op'[o].pc = "delete"
    BY <1>2, <1>3, <1>8 DEF DeleteReads
  <2>2. QED
    BY <2>1 DEF Intent, At
<1>9. QED
  BY <1>4, <1>5, <1>6, <1>7, <1>8 DEF Starts

LEMMA IntentProceeds ==
    ASSUME TypeOK, AtStatement, Intents, NEW o \in Operators, Proceeds(o)
    PROVE  Intent(o)'
<1>1. CASE op'[o] = Idle
  BY <1>1 DEF Intent, At, Idle
<1>2. CASE AppendFirstAttempt(o) \/ RetrySaves(o)
  <2>1. \E j : op'[o] = [pc |-> "queue", job |-> j, att |-> 0]
    BY <1>2, ProceedsEffect
  <2>2. QED
    BY <2>1 DEF Intent, At
<1>3. CASE QueueFindsAttempt(o)
  <2>1. op'[o] = [pc |-> "queueing", job |-> op[o].job, att |-> ActiveAttempt]
    BY <1>3, ProceedsEffect
  <2>2. QED
    BY <2>1 DEF Intent, At
<1>4. CASE CancelFindsAttempt(o) \/ CancelMarksAttempt(o)
  <2>1. \/ op'[o] = [pc |-> "cancelling", job |-> op[o].job, att |-> ActiveAttempt]
        \/ op'[o] = [pc |-> "cancelled", job |-> op[o].job, att |-> op[o].att]
    BY <1>4, ProceedsEffect
  <2>2. op[o].job.status \notin Immutable
    BY <1>4 DEF Intents, Intent, CancelFindsAttempt, CancelMarksAttempt, At
  <2>3. QED
    BY <2>1, <2>2 DEF Intent, At, Immutable
<1>5. CASE RetryAppends(o)
  <2>1. op'[o] = [pc |-> "retried", job |-> op[o].job, att |-> op[o].job.active + 1]
    BY <1>5, ProceedsEffect
  <2>2. op[o].job.status \in {"FAILED", "CANCELLED"}
    BY <1>5 DEF Intents, Intent, RetryAppends, At
  <2>3. QED
    BY <2>1, <2>2 DEF Intent, At
<1>6. QED
  BY <1>1, <1>2, <1>3, <1>4, <1>5, ProceedsEffect DEF Proceeds

LEMMA IntentsNext ==
    ASSUME IInv, Intents, [Next]_vars
    PROVE  Intents'
<1>0. TypeOK /\ AtStatement /\ Links
  BY DEF IInv
<1>1. ASSUME NEW p \in Operators
      PROVE  Intent(p)'
  <2>1. CASE op'[p] = op[p]
    BY <1>0, <2>1 DEF Intents, Intent, At
  <2>2. CASE op'[p] = Idle
    BY <2>2 DEF Intent, At, Idle
  <2>3. CASE Starts(p)
    BY <1>0, <2>3, IntentStarts
  <2>4. CASE Proceeds(p)
    BY <1>0, <2>4, IntentProceeds
  <2>5. QED
    BY <1>0, <2>1, <2>2, <2>3, <2>4, WhoMoves
<1>2. QED
  BY <1>1 DEF Intents

LEMMA LifecycleInductive == Spec => []LifecycleInv
<1>1. Init => LifecycleInv
  <2>1. Init => Intents
    BY DEF Init, Intents, Intent, Idle, At
  <2>2. QED
    BY <2>1, QuietInit DEF LifecycleInv
<1>2. LifecycleInv /\ [Next]_vars => LifecycleInv'
  BY QuietNext, IntentsNext DEF LifecycleInv, QuietInv
<1>3. QED
  BY <1>1, <1>2, PTL DEF Spec

-----------------------------------------------------------------------------
(* The refinement mapping *)

LEMMA Phases ==
    /\ Phase("ABSENT") = "none"
    /\ Phase("ACTIVE") = "working"
    /\ Phase("FAILED") = "failed"
    /\ Phase("CANCELLED") = "cancelled"
    /\ Phase("READY_FOR_REVIEW") = "offered"
    /\ Phase("READY_FOR_TEACHING") = "taught"
    /\ Phase("DELETED") = "deleted"
BY DEF Phase

\* A row in one of these phases has the one status that maps to it.
LEMMA PhaseOf ==
    ASSUME NEW status \in Statuses
    PROVE  /\ Phase(status) = "none" => status = "ABSENT"
           /\ Phase(status) = "deleted" => status = "DELETED"
           /\ Phase(status) \in {"offered", "taught"} =>
                 status \in {"READY_FOR_REVIEW", "READY_FOR_TEACHING"}
BY Phases DEF Statuses

\* A step that changes neither the status, nor the active attempt, nor what was
\* validated, leaves the lifecycle as it is.
LEMMA Stutters ==
    ASSUME job'.status = job.status, job'.active = job.active, Validated' = Validated,
           overwrote' = overwrote
    PROVE  UNCHANGED Lifecycle!lifecycle
BY DEF Lifecycle!lifecycle, Validated

\* Once a save has discarded another one, every step keeps what is left of the
\* promise.
LEMMA Overwritten ==
    ASSUME IInv, IInv', [Next]_vars, overwrote'
    PROVE  Lifecycle!Overwrite
<1>1. Validated \subseteq Validated'
  BY ResultsStay DEF Validated
<1>2. /\ job.status \in Statuses /\ job'.status \in Statuses
      /\ job'.active \in 0..MaxAttempts /\ results' \subseteq Attempt \X Stage
  BY DEF IInv, TypeOK, Job
<1>3. Phase(job'.status) \in {"offered", "taught"} => job'.active \in Validated'
  <2>1. SUFFICES ASSUME Phase(job'.status) \in {"offered", "taught"}
                 PROVE  job'.active \in Validated'
    OBVIOUS
  <2>2. job'.status \in {"READY_FOR_REVIEW", "READY_FOR_TEACHING"}
    BY <1>2, <2>1, PhaseOf
  <2>3. <<job'.active, ReviewStage>> \in results'
    BY <2>2 DEF IInv, AllBacked, Backed
  <2>4. QED
    BY <1>2, <2>3 DEF Validated
<1>4. Phase(job.status) = "deleted" => Phase(job'.status) = "deleted"
  <2>1. Phase(job.status) = "deleted" => job.status = "DELETED"
    BY <1>2, PhaseOf
  <2>2. job.status = "DELETED" => job'.status = "DELETED"
    BY LinksNext DEF IInv
  <2>3. QED
    BY <2>1, <2>2, Phases
<1>5. QED
  BY <1>1, <1>3, <1>4 DEF Lifecycle!Overwrite, Validated

-----------------------------------------------------------------------------
(* The steps, while no request overwrites another *)

\* Import, and the reads that other requests start with.
LEMMA StartsImplements ==
    ASSUME IInv, NEW o \in Operators, Starts(o)
    PROVE  Lifecycle!Import \/ UNCHANGED Lifecycle!lifecycle
<1>1. /\ op'[o].pc = "first" =>
            job.status = "ABSENT" /\ job'.status = "ACTIVE" /\ job'.active = 1
      /\ op'[o].pc # "first" => job' = job
      /\ results' = results /\ overwrote' = overwrote
  BY StartsEffect DEF IInv
<1>2. Validated' = Validated
  BY <1>1 DEF Validated
<1>3. CASE op'[o].pc = "first"
  BY <1>1, <1>2, <1>3, Phases DEF Lifecycle!Import, Validated
<1>4. CASE op'[o].pc # "first"
  BY <1>1, <1>2, <1>4, Stutters
<1>5. QED
  BY <1>3, <1>4

\* A restart takes a number that no attempt has validated under.
LEMMA RestartImplements ==
    ASSUME IInv, Rows, Numbers, Intents, ~overwrote', overwrote' = overwrote,
           NEW o \in Operators, RetrySaves(o)
    PROVE  Lifecycle!Restart
<1>1. /\ op[o].job = job /\ job'.active = job.active + 1 /\ job'.status = "ACTIVE"
      /\ job.active + 1 \in Attempt /\ results' = results
  BY QuietRestart
<1>2. job.active \in Nat /\ Attempt \subseteq Nat
  BY DEF IInv, TypeOK, Job, Attempt
<1>3. job.active + 1 \notin Validated
  <2>1. ReviewStage \in Stage
    BY PipelineAssumption DEF Stage, Inspecting
  <2>2. ~(job.active + 1 <= job.active)
    BY <1>2
  <2>3. QED
    BY <1>1, <2>1, <2>2 DEF Numbers, Validated
<1>4. Phase(job.status) \in {"failed", "cancelled"}
  <2>1. job.status \in {"FAILED", "CANCELLED"}
    BY <1>1 DEF RetrySaves, At, Intents, Intent
  <2>2. QED
    BY <2>1, Phases
<1>5. Validated' = Validated
  BY <1>1 DEF Validated
<1>6. QED
  BY <1>1, <1>3, <1>4, <1>5, Phases DEF Lifecycle!Restart, Validated

\* A cancellation shows at once only before the first stage.
LEMMA CancelImplements ==
    ASSUME IInv, Rows, Frontier, Intents, ~overwrote', overwrote' = overwrote,
           NEW o \in Operators, CancelSaves(o)
    PROVE  Lifecycle!Cancel \/ UNCHANGED Lifecycle!lifecycle
<1>1. /\ op[o].job = job /\ job'.active = job.active /\ results' = results
      /\ job.stage \in Early => job'.status = "CANCELLED"
      /\ job.stage \notin Early => job'.status = job.status
  BY QuietCancel
<1>2. Validated' = Validated
  BY <1>1 DEF Validated
<1>3. job.active \in Attempt
  BY QuietProceeds DEF Proceeds
<1>4. job.status \in Statuses \ (Immutable \cup {"ABSENT"})
  <2>1. op[o].pc \in {"cancelling", "cancelled"}
    BY DEF CancelSaves, CancelPending, At
  <2>2. job.status \notin Immutable /\ job.status \in Statuses
    BY <1>1, <2>1 DEF Intents, Intent, IInv, TypeOK, Job
  <2>3. op[o] # Idle
    BY <2>1 DEF Idle
  <2>4. QED
    BY <2>2, <2>3 DEF IInv, Links
<1>5. CASE job.stage \notin Early
  BY <1>1, <1>2, <1>5, Stutters
<1>6. CASE job.stage \in Early
  <2>1. /\ \A s \in Stage : <<job.active, s>> \notin results
        /\ job.status \notin {"READY_FOR_REVIEW", "READY_FOR_TEACHING"}
    BY <1>3, <1>6, EarlyFrontier
  <2>2. job.active \notin Validated
    BY <2>1, PipelineAssumption DEF Validated, Stage, Inspecting
  <2>3. job.status \in {"ACTIVE", "FAILED", "CANCELLED"}
    BY <1>4, <2>1 DEF Statuses, Immutable
  <2>4. job'.status = "CANCELLED"
    BY <1>1, <1>6
  <2>5. CASE job.status = "CANCELLED"
    BY <1>1, <1>2, <2>4, <2>5, Stutters
  <2>6. CASE job.status \in {"ACTIVE", "FAILED"}
    BY <1>1, <1>2, <2>2, <2>4, <2>6, Phases
    DEF Lifecycle!Cancel, Lifecycle!Unfinished, Validated
  <2>7. QED
    BY <2>3, <2>5, <2>6
<1>7. QED
  BY <1>5, <1>6

LEMMA DeleteImplements ==
    ASSUME IInv, Rows, ~overwrote', overwrote' = overwrote,
           NEW o \in Operators, DeleteCommits(o)
    PROVE  Lifecycle!Delete
<1>1. /\ op[o].job = job /\ job'.active = job.active /\ results' = results
      /\ job'.status = "DELETED"
  BY QuietDelete
<1>2. Validated' = Validated
  BY <1>1 DEF Validated
<1>3. job.import /\ op[o] # Idle
  BY <1>1 DEF DeleteCommits, At, Idle, IInv, AtStatement
<1>4. job.status \notin {"ABSENT", "DELETED"} /\ job.status \in Statuses
  BY <1>3 DEF IInv, Links, TypeOK, Job
<1>5. Phase(job.status) \notin {"none", "deleted"}
  BY <1>4, PhaseOf
<1>6. QED
  BY <1>1, <1>2, <1>5, Phases DEF Lifecycle!Delete, Validated

LEMMA ProceedsImplements ==
    ASSUME IInv, Rows, Numbers, Frontier, Intents, ~overwrote', overwrote' = overwrote,
           NEW o \in Operators, Proceeds(o)
    PROVE  \/ Lifecycle!Restart \/ Lifecycle!Cancel \/ Lifecycle!Delete
           \/ UNCHANGED Lifecycle!lifecycle
<1>1. results' = results /\ Validated' = Validated
  BY QuietProceeds DEF Validated
<1>2. CASE job' = job
  BY <1>1, <1>2, Stutters
<1>3. CASE QueueSaves(o)
  BY <1>1, <1>3, QuietQueue, Stutters
<1>4. QED
  BY <1>2, <1>3, RestartImplements, CancelImplements, DeleteImplements, QuietMoves
  DEF Proceeds

\* A stage that runs is a stage of an attempt that may still be run on.
LEMMA StageRuns ==
    ASSUME IInv, Rows, Frontier, NEW a \in Attempt, NEW s \in Stage, RunStage(a, s),
           ~SkipStage(a, s)
    PROVE  a = job.active /\ <<a, s>> \notin results /\ job.status \in {"ACTIVE", "FAILED"}
<1>1. /\ a = job.active /\ <<a, s>> \notin results /\ tasks[<<a, s>>] > 0
      /\ job.status \notin {"DELETED", "CANCELLED"} /\ job \in Job
  BY StageEffect
<1>2. job.status \notin {"READY_FOR_REVIEW", "READY_FOR_TEACHING"}
  BY <1>1 DEF Frontier, AtFrontier
<1>3. job.status # "ABSENT"
  <2>1. job.status = "ABSENT" => job.active = 0
    BY DEF IInv, Links, NoJob
  <2>2. QED
    BY <1>1, <2>1, PipelineAssumption DEF Attempt
<1>4. QED
  BY <1>1, <1>2, <1>3 DEF Job, Statuses

LEMMA StageImplements ==
    ASSUME IInv, Rows, Frontier, overwrote' = overwrote,
           NEW a \in Attempt, NEW s \in Stage, RunStage(a, s)
    PROVE  \/ Lifecycle!Validate \/ Lifecycle!Offer \/ Lifecycle!Fail
           \/ UNCHANGED Lifecycle!lifecycle
<1>1. CASE SkipStage(a, s)
  <2>1. job' = job /\ results' = results
    BY <1>1 DEF SkipStage
  <2>2. QED
    BY <2>1, Stutters DEF Validated
<1>2. CASE ~SkipStage(a, s)
  <2>1. a = job.active /\ <<a, s>> \notin results /\ job.status \in {"ACTIVE", "FAILED"}
    BY <1>2, StageRuns
  <2>2. job'.active = job.active /\ tasks[<<a, s>>] > 0
    BY <1>2, StageEffect
  <2>3. Phase(job.status) \in {"working", "failed"}
    BY <2>1, Phases
  <2>4. CASE StageRefused(a, s) \/ \E failure \in {"retryable", "final"} : StageFails(a, s, failure)
    <3>1. job'.status = "FAILED" /\ results' = results
      BY <2>4, StageEffect
    <3>2. QED
      BY <2>2, <2>3, <3>1, Phases DEF Lifecycle!Fail, Lifecycle!Unfinished
  <2>5. ASSUME s = ReviewStage, results' = results \cup {<<a, s>>},
               Phase(job'.status) \in {Phase(job.status), "offered"}
        PROVE  Lifecycle!Validate
    <3>1. a \notin Validated /\ Validated' = Validated \cup {a}
      BY <2>1, <2>5 DEF Validated
    <3>2. QED
      BY <2>1, <2>2, <2>3, <2>5, <3>1 DEF Lifecycle!Validate, Lifecycle!Unfinished, Validated
  <2>6. ASSUME s # ReviewStage, results' = results \cup {<<a, s>>}
        PROVE  Validated' = Validated
    BY <2>6 DEF Validated
  <2>7. CASE StageAdvances(a, s)
    <3>1. job'.status = job.status /\ results' = results \cup {<<a, s>>}
      BY <2>7, StageEffect
    <3>2. QED
      BY <2>2, <2>5, <2>6, <3>1, Stutters
  <2>8. CASE StageEndsRun(a, s)
    <3>1. job'.status = "READY_FOR_REVIEW" /\ results' = results \cup {<<a, s>>}
      BY <2>8, StageEffect
    <3>2. CASE s = ReviewStage
      BY <2>5, <3>1, <3>2, Phases
    <3>3. CASE s # ReviewStage
      <4>1. s = LastStage /\ ReviewStage \in Stage /\ ReviewStage < s
        BY <2>8, <3>3, PipelineAssumption DEF StageEndsRun, Stage, Inspecting
      <4>2. a \in Validated
        BY <2>2, <4>1 DEF IInv, TasksBacked, Validated
      <4>3. Validated' = Validated
        BY <2>6, <3>1, <3>3
      <4>4. QED
        BY <2>1, <2>2, <2>3, <3>1, <4>2, <4>3, Phases
        DEF Lifecycle!Offer, Lifecycle!Unfinished, Validated
    <3>4. QED
      BY <3>2, <3>3
  <2>9. QED
    BY <1>2, <2>4, <2>7, <2>8 DEF RunStage
<1>3. QED
  BY <1>1, <1>2

LEMMA ReadinessImplements ==
    ASSUME IInv, GrantReadiness \/ WithdrawReadiness
    PROVE  Lifecycle!Grant \/ Lifecycle!Withdraw
<1>1. /\ job'.active = job.active /\ results' = results /\ overwrote' = overwrote
      /\ \/ job.status = "READY_FOR_REVIEW" /\ job'.status = "READY_FOR_TEACHING"
         \/ job.status = "READY_FOR_TEACHING" /\ job'.status = "READY_FOR_REVIEW"
  BY DEF GrantReadiness, WithdrawReadiness, IInv, TypeOK, Job
<1>2. QED
  BY <1>1, Phases DEF Lifecycle!Grant, Lifecycle!Withdraw

\* Every step of the rows, requests and tasks is one of the lifecycle's, or none.
LEMMA StepImplements ==
    ASSUME LifecycleInv, LifecycleInv', [Next]_vars
    PROVE  Lifecycle!Next \/ UNCHANGED Lifecycle!lifecycle
<1>1. CASE overwrote'
  BY <1>1, Overwritten DEF LifecycleInv, QuietInv, Lifecycle!Next
<1>2. CASE ~overwrote'
  <2>1. IInv /\ Rows /\ Numbers /\ Frontier /\ Intents /\ ~overwrote
    BY <1>2, OverwroteStays DEF LifecycleInv, QuietInv
  <2>2. overwrote' = overwrote
    BY <1>2, <2>1 DEF LifecycleInv, QuietInv, IInv, TypeOK
  <2>3. CASE \E o \in Operators : Starts(o)
    BY <2>1, <2>3, StartsImplements DEF Lifecycle!Next
  <2>4. CASE \E o \in Operators : Proceeds(o)
    BY <1>2, <2>1, <2>2, <2>4, ProceedsImplements DEF Lifecycle!Next
  <2>5. CASE \E a \in Attempt, s \in Stage : RunStage(a, s)
    BY <2>1, <2>2, <2>5, StageImplements DEF Lifecycle!Next
  <2>6. CASE GrantReadiness \/ WithdrawReadiness
    BY <2>1, <2>6, ReadinessImplements DEF Lifecycle!Next
  <2>7. CASE job' = job /\ results' = results
    BY <2>2, <2>7, Stutters DEF Validated
  <2>8. QED
    BY <2>3, <2>4, <2>5, <2>6, <2>7 DEF Next, vars, RequestDies, LoseTask, CloseReview
<1>3. QED
  BY <1>1, <1>2

\* The job row with its copies, requests and stage tasks implements the
\* lifecycle of an import, through crashes and lost tasks, and what the
\* lifecycle keeps of its promise after an overwrite (ImplementsLifecycle).
THEOREM ImplementsTheLifecycle == Spec => ImplementsLifecycle
<1>1. Init => Lifecycle!Init
  <2>1. Init => Phase(job.status) = "none" /\ job.active = 0 /\ Validated = {}
    BY Phases DEF Init, NoJob, Validated
  <2>2. QED
    BY <2>1 DEF Init, Lifecycle!Init, Validated
<1>2. LifecycleInv /\ LifecycleInv' /\ [Next]_vars => [Lifecycle!Next]_(Lifecycle!lifecycle)
  BY StepImplements
<1>3. QED
  BY <1>1, <1>2, LifecycleInductive, PTL DEF Spec, ImplementsLifecycle, Lifecycle!Spec
=============================================================================
