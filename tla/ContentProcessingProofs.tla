---------------------- MODULE ContentProcessingProofs ----------------------
(***************************************************************************)
(* Theorems about ContentProcessing, for every number of requests, stages, *)
(* attempts and faults.                                                    *)
(*                                                                         *)
(* The requests hold copies of the job row, so what holds of the row must  *)
(* be carried through every copy that may still be saved.  The inductive   *)
(* invariant IInv says of the row and of each copy that the stage it names *)
(* is backed by the results of the attempt it names (AllBacked), that a    *)
(* task is queued only behind the result of the stage before               *)
(* (TasksBacked), and which copies still name the import row (Links).      *)
(***************************************************************************)
EXTENDS ContentProcessing, TLAPS

\* The stage and the status a row claims, against the results of its attempt.
Backed(j) ==
    /\ \A s \in Stage : s < j.stage => <<j.active, s>> \in results
    /\ j.status \in {"READY_FOR_REVIEW", "READY_FOR_TEACHING"}
          => <<j.active, ReviewStage>> \in results

AllBacked ==
    /\ Backed(job)
    /\ \A o \in Operators : op[o] # Idle => Backed(op[o].job)

TasksBacked ==
    \A a \in Attempt, s, t \in Stage :
        tasks[<<a, s>>] > 0 /\ t < s => <<a, t>> \in results

\* What a request has established by the statement it is at.
AtStatement ==
    \A o \in Operators :
        /\ op[o].pc = "queueing" => op[o].att \in Attempt
        /\ op[o].pc \in {"retry", "retried"} => op[o].job.active < MaxAttempts
        /\ op[o].pc = "delete" => op[o].job.import

Links ==
    /\ job.status = "ABSENT" =>
          job = NoJob /\ sessions = {} /\ \A o \in Operators : op[o] = Idle
    /\ \A o \in Operators : op[o] # Idle => op[o].job.status # "ABSENT"
    /\ job.import => \A o \in Operators : op[o] # Idle => op[o].job.import
    /\ job.status = "DELETED" => ~job.import
    /\ \A o \in Operators : op[o] # Idle => op[o].job.status # "DELETED"
    /\ job.status = "DELETED" =>
          \A o \in Operators : op[o] # Idle => op[o].job.import

IInv == TypeOK /\ AtStatement /\ StagesInOrder /\ TasksBacked /\ AllBacked /\ Links

-----------------------------------------------------------------------------
(* Lemmas about the operators the model is built from *)

\* The aggregate's transitions take rows to rows; only a restart needs room
\* for one more attempt number.
LEMMA JobTransitions ==
    ASSUME NEW j \in Job
    PROVE  /\ QueuedJob(j) \in Job
           /\ CancelledJob(j) \in Job
           /\ DeletedJob(j) \in Job
           /\ j.active < MaxAttempts => RestartedJob(j) \in Job
           /\ \A s \in Stage, f \in {"retryable", "final"} :
                 FailedJob(j, f) \in Job /\ FailedJob([j EXCEPT !.stage = s], f) \in Job
<1>0. Queued \in AnyStage
  BY PipelineAssumption DEF Queued, AnyStage
<1>1. QueuedJob(j) \in Job
  BY <1>0 DEF QueuedJob, Job
<1>2. CancelledJob(j) \in Job
  BY DEF CancelledJob, Job, Statuses
<1>3. DeletedJob(j) \in Job
  BY <1>2 DEF DeletedJob, Job, Statuses
<1>4. ASSUME j.active < MaxAttempts
      PROVE  RestartedJob(j) \in Job
  <2>1. j.active + 1 \in 0..MaxAttempts
    BY <1>4, PipelineAssumption DEF Job
  <2>2. QED
    BY <1>0, <2>1 DEF RestartedJob, Job, Statuses
<1>5. ASSUME NEW s \in Stage, NEW f \in {"retryable", "final"}
      PROVE  FailedJob(j, f) \in Job /\ FailedJob([j EXCEPT !.stage = s], f) \in Job
  <2>1. s \in AnyStage
    BY PipelineAssumption DEF Stage, AnyStage, Inspecting
  <2>2. QED
    BY <2>1 DEF FailedJob, Job, Statuses
<1>6. QED
  BY <1>1, <1>2, <1>3, <1>4, <1>5

\* A request that goes on holds what it is given; the others keep what they hold.
LEMMA GotoType ==
    ASSUME op \in [Operators -> Request \cup {Idle}],
           NEW o \in Operators, NEW pc \in Steps, NEW j \in Job, NEW a \in 0..MaxAttempts,
           Goto(o, pc, j, a)
    PROVE  /\ op' \in [Operators -> Request \cup {Idle}]
           /\ op'[o].pc = pc /\ op'[o].job = j /\ op'[o].att = a /\ op'[o] # Idle
           /\ \A p \in Operators : p # o => op'[p] = op[p]
<1>1. [pc |-> pc, job |-> j, att |-> a] \in Request
  BY DEF Request
<1>2. [pc |-> pc, job |-> j, att |-> a] # Idle
  BY DEF Idle, Steps
<1>3. QED
  BY <1>1, <1>2 DEF Goto

LEMMA DoneType ==
    ASSUME op \in [Operators -> Request \cup {Idle}], NEW o \in Operators, Done(o)
    PROVE  /\ op' \in [Operators -> Request \cup {Idle}]
           /\ op'[o] = Idle
           /\ \A p \in Operators : p # o => op'[p] = op[p]
BY DEF Done

\* A request that is not idle is a request.
LEMMA InFlight ==
    ASSUME op \in [Operators -> Request \cup {Idle}], NEW o \in Operators,
           op[o] # Idle \/ op[o].pc \in Steps
    PROVE  op[o] \in Request /\ op[o].job \in Job /\ op[o].att \in 0..MaxAttempts
                /\ op[o].pc \in Steps
<1>1. Idle.pc \notin Steps
  BY DEF Idle, Steps
<1>2. QED
  BY <1>1 DEF Request

LEMMA ActiveAttemptType ==
    ASSUME TypeOK
    PROVE  ActiveAttempt \in 0..MaxAttempts /\ (ActiveAttempt # 0 => ActiveAttempt \in Attempt)
BY PipelineAssumption DEF TypeOK, ActiveAttempt, Attempt, Job

\* Queues of tasks stay within TaskCap: a dispatch waits for room.
LEMMA TaskQueues ==
    ASSUME tasks \in [Attempt \X Stage -> 0..TaskCap], NEW a \in Attempt, NEW s \in Stage
    PROVE  /\ Takes(a, s) => Taken(a, s) \in [Attempt \X Stage -> 0..TaskCap]
           /\ \A q \in [Attempt \X Stage -> 0..TaskCap] :
                 Dispatch(q, a, s) => tasks' \in [Attempt \X Stage -> 0..TaskCap]
BY PipelineAssumption DEF Takes, Taken, Dispatch

-----------------------------------------------------------------------------
(* Type correctness *)

LEMMA TypeInit == Init => TypeOK /\ AtStatement
<1>1. SUFFICES ASSUME Init PROVE TypeOK /\ AtStatement
  OBVIOUS
<1>2. NoJob \in Job
  BY PipelineAssumption DEF NoJob, Job, Statuses, AnyStage, Created
<1>3. 0 \in 0..TaskCap /\ 0 \in 0..MaxFaults
  BY PipelineAssumption
<1>4. TypeOK
  BY <1>1, <1>2, <1>3 DEF Init, TypeOK
<1>5. AtStatement
  BY <1>1 DEF Init, AtStatement, Idle
<1>6. QED
  BY <1>4, <1>5

\* A request reaches a statement with what AtStatement says of it.
LEMMA GotoKeeps ==
    ASSUME TypeOK, AtStatement,
           NEW o \in Operators, NEW pc \in Steps, NEW j \in Job, NEW a \in 0..MaxAttempts,
           Goto(o, pc, j, a),
           pc = "queueing" => a \in Attempt,
           pc \in {"retry", "retried"} => j.active < MaxAttempts,
           pc = "delete" => j.import
    PROVE  op' \in [Operators -> Request \cup {Idle}] /\ AtStatement'
<1>1. /\ op' \in [Operators -> Request \cup {Idle}]
      /\ op'[o].pc = pc /\ op'[o].job = j /\ op'[o].att = a
      /\ \A p \in Operators : p # o => op'[p] = op[p]
  BY GotoType DEF TypeOK
<1>2. QED
  BY <1>1 DEF AtStatement

LEMMA DoneKeeps ==
    ASSUME TypeOK, AtStatement, NEW o \in Operators, Done(o)
    PROVE  op' \in [Operators -> Request \cup {Idle}] /\ AtStatement'
<1>1. /\ op' \in [Operators -> Request \cup {Idle}]
      /\ op'[o] = Idle
      /\ \A p \in Operators : p # o => op'[p] = op[p]
  BY DoneType DEF TypeOK
<1>2. QED
  BY <1>1 DEF AtStatement, Idle

\* The steps by which a request starts.
LEMMA TypeStarts ==
    ASSUME TypeOK, AtStatement, NEW o \in Operators, Starts(o)
    PROVE  TypeOK' /\ AtStatement'
<1> USE DEF At
<1>0. job \in Job /\ 0 \in 0..MaxAttempts
  BY PipelineAssumption DEF TypeOK
<1>1. CASE CreateJob(o)
  <2>0. 1 \in 0..MaxAttempts /\ Created \in AnyStage
    BY PipelineAssumption DEF AnyStage, Created
  <2>1. job' \in Job
    BY <1>1, <2>0 DEF CreateJob, NoJob, Job, Statuses
  <2>2. op' \in [Operators -> Request \cup {Idle}] /\ AtStatement'
    BY <1>0, <1>1, <2>1, GotoKeeps DEF CreateJob, Steps
  <2>3. QED
    BY <1>1, <2>1, <2>2 DEF CreateJob, TypeOK
<1>2. CASE ResolveJob(o)
  BY <1>0, <1>2, GotoKeeps DEF ResolveJob, TypeOK, Steps
<1>3. CASE CancelReads(o)
  BY <1>0, <1>3, GotoKeeps DEF CancelReads, TypeOK, Steps
<1>4. CASE RetryReads(o)
  BY <1>0, <1>4, GotoKeeps DEF RetryReads, CanRetry, TypeOK, Steps
<1>5. CASE DeleteReads(o)
  BY <1>0, <1>5, GotoKeeps DEF DeleteReads, TypeOK, Steps
<1>6. QED
  BY <1>1, <1>2, <1>3, <1>4, <1>5 DEF Starts

\* The steps by which a request goes on.
LEMMA TypeProceeds ==
    ASSUME TypeOK, AtStatement, NEW o \in Operators, Proceeds(o)
    PROVE  TypeOK' /\ AtStatement'
<1> DEFINE j == op[o].job
           OpOK == op' \in [Operators -> Request \cup {Idle}] /\ AtStatement'
<1>0. 0 \in 0..MaxAttempts /\ 1 \in Attempt /\ Inspecting \in Stage
  BY PipelineAssumption DEF Attempt, Stage, Inspecting
<1>a. op[o].pc \in Steps => j \in Job /\ op[o].att \in 0..MaxAttempts
  BY InFlight DEF TypeOK
<1>b. j \in Job /\ j.active < MaxAttempts =>
        j.active + 1 \in Attempt /\ j.active + 1 \in 0..MaxAttempts
  BY PipelineAssumption DEF Job, Attempt
<1>c. op[o].att \in 0..MaxAttempts /\ op[o].att # 0 => op[o].att \in Attempt
  BY PipelineAssumption DEF Attempt
<1>1. CASE AppendFirstAttempt(o)
  <2>1. j \in Job
    BY <1>1, <1>a DEF AppendFirstAttempt, At, Steps
  <2>2. OpOK
    BY <1>0, <1>1, <2>1, GotoKeeps DEF AppendFirstAttempt, Steps
  <2>3. QED
    BY <1>0, <1>1, <2>2 DEF AppendFirstAttempt, TypeOK
<1>2. CASE QueueFindsAttempt(o)
  <2>1. j \in Job
    BY <1>2, <1>a DEF QueueFindsAttempt, At, Steps
  <2>2. OpOK
    BY <1>2, <2>1, ActiveAttemptType, GotoKeeps DEF QueueFindsAttempt, Steps
  <2>3. QED
    BY <1>2, <2>2 DEF QueueFindsAttempt, TypeOK
<1>3. CASE QueueSaves(o)
  <2>1. j \in Job /\ op[o].att \in Attempt
    BY <1>3, <1>a DEF QueueSaves, At, Steps, AtStatement
  <2>2. job' \in Job
    BY <1>3, <2>1, JobTransitions DEF QueueSaves, SaveJob
  <2>3. tasks' \in [Attempt \X Stage -> 0..TaskCap]
    BY <1>0, <1>3, <2>1, TaskQueues DEF QueueSaves, TypeOK
  <2>4. OpOK
    BY <1>3, DoneKeeps DEF QueueSaves
  <2>5. QED
    BY <1>3, <2>2, <2>3, <2>4 DEF QueueSaves, SaveJob, Overwrites, TypeOK
<1>4. CASE CancelFindsAttempt(o)
  <2>1. j \in Job
    BY <1>4, <1>a DEF CancelFindsAttempt, At, Steps
  <2>2. OpOK
    BY <1>4, <2>1, ActiveAttemptType, GotoKeeps DEF CancelFindsAttempt, Steps
  <2>3. QED
    BY <1>4, <2>2 DEF CancelFindsAttempt, TypeOK
<1>5. CASE CancelMarksAttempt(o)
  <2>1. j \in Job /\ op[o].att \in 0..MaxAttempts /\ op[o].att \in Attempt
    BY <1>5, <1>a, <1>c DEF CancelMarksAttempt, At, Steps
  <2>2. OpOK
    BY <1>5, <2>1, GotoKeeps DEF CancelMarksAttempt, Steps
  <2>3. QED
    BY <1>5, <2>1, <2>2 DEF CancelMarksAttempt, Overwrites, TypeOK
<1>6. CASE CancelSaves(o)
  <2>1. j \in Job
    BY <1>6, <1>a DEF CancelSaves, CancelPending, At, Steps
  <2>2. job' \in Job
    BY <1>6, <2>1, JobTransitions DEF CancelSaves, SaveJob
  <2>3. OpOK
    BY <1>6, DoneKeeps DEF CancelSaves
  <2>4. QED
    BY <1>6, <2>2, <2>3 DEF CancelSaves, SaveJob, Overwrites, TypeOK
<1>7. CASE RetryAppends(o)
  <2>1. j \in Job /\ j.active < MaxAttempts
    BY <1>7, <1>a DEF RetryAppends, At, Steps, AtStatement
  <2>2. OpOK
    BY <1>7, <2>1, <1>b, GotoKeeps DEF RetryAppends, Steps
  <2>3. QED
    BY <1>7, <2>1, <2>2, <1>b DEF RetryAppends, TypeOK
<1>8. CASE RetrySaves(o)
  <2>1. j \in Job /\ j.active < MaxAttempts
    BY <1>8, <1>a DEF RetrySaves, At, Steps, AtStatement
  <2>2. RestartedJob(j) \in Job
    BY <2>1, JobTransitions
  <2>3. OpOK
    BY <1>0, <1>8, <2>2, GotoKeeps DEF RetrySaves, Steps
  <2>4. QED
    BY <1>8, <2>2, <2>3 DEF RetrySaves, SaveJob, Overwrites, TypeOK
<1>9. CASE DeleteCommits(o)
  <2>1. j \in Job
    BY <1>9, <1>a DEF DeleteCommits, At, Steps
  <2>2. job' \in Job
    BY <1>9, <2>1, JobTransitions DEF DeleteCommits, SaveJob
  <2>3. OpOK
    BY <1>9, DoneKeeps DEF DeleteCommits
  <2>4. QED
    BY <1>9, <2>2, <2>3, ActiveAttemptType DEF DeleteCommits, SaveJob, Overwrites, TypeOK
<1>10. CASE RequestRefused(o)
  BY <1>10, DoneKeeps DEF RequestRefused, TypeOK
<1>11. QED
  BY <1>1, <1>2, <1>3, <1>4, <1>5, <1>6, <1>7, <1>8, <1>9, <1>10 DEF Proceeds

\* The steps of a worker.
LEMMA TypeRunStage ==
    ASSUME TypeOK, AtStatement, NEW a \in Attempt, NEW s \in Stage, RunStage(a, s)
    PROVE  TypeOK' /\ AtStatement'
<1>0. /\ job \in Job
      /\ s \in AnyStage
      /\ Takes(a, s) => Taken(a, s) \in [Attempt \X Stage -> 0..TaskCap]
  BY PipelineAssumption, TaskQueues DEF TypeOK, Stage, AnyStage, Inspecting
<1>1. CASE SkipStage(a, s)
  BY <1>0, <1>1 DEF SkipStage, TypeOK, AtStatement
<1>2. CASE StageRefused(a, s)
  <2>1. job' \in Job
    BY <1>0, <1>2, JobTransitions DEF StageRefused
  <2>2. QED
    BY <1>0, <1>2, <2>1 DEF StageRefused, TypeOK, AtStatement
<1>3. CASE \E failure \in {"retryable", "final"} : StageFails(a, s, failure)
  <2>1. PICK failure \in {"retryable", "final"} : StageFails(a, s, failure)
    BY <1>3
  <2>2. job' \in Job
    BY <1>0, <2>1, JobTransitions DEF StageFails
  <2>3. QED
    BY <1>0, <2>1, <2>2 DEF StageFails, TypeOK, AtStatement
<1>4. CASE StageAdvances(a, s)
  <2>1. s + 1 \in Stage /\ s + 1 \in AnyStage
    BY <1>4, PipelineAssumption DEF StageAdvances, Stage, AnyStage, Inspecting
  <2>2. job' \in Job
    BY <1>0, <1>4, <2>1 DEF StageAdvances, Job
  <2>3. tasks' \in [Attempt \X Stage -> 0..TaskCap]
    <3>1. /\ Taken(a, s) \in [Attempt \X Stage -> 0..TaskCap]
          /\ Dispatch(Taken(a, s), a, s + 1)
      BY <1>0, <1>4 DEF StageAdvances
    <3>2. tasks \in [Attempt \X Stage -> 0..TaskCap]
      BY DEF TypeOK
    <3>3. QED
      BY <2>1, <3>1, <3>2, TaskQueues
  <2>4. QED
    BY <1>4, <2>2, <2>3 DEF StageAdvances, TypeOK, AtStatement
<1>5. CASE StageEndsRun(a, s)
  <2>1. job' \in Job
    BY <1>0, <1>5 DEF StageEndsRun, Job, Statuses
  <2>2. QED
    BY <1>0, <1>5, <2>1 DEF StageEndsRun, TypeOK, AtStatement
<1>6. QED
  BY <1>1, <1>2, <1>3, <1>4, <1>5 DEF RunStage

LEMMA TypeNext ==
    ASSUME TypeOK, AtStatement, [Next]_vars
    PROVE  TypeOK' /\ AtStatement'
<1>0. job \in Job
  BY DEF TypeOK
<1>1. CASE \E o \in Operators : Starts(o)
  BY <1>1, TypeStarts
<1>2. CASE \E o \in Operators : Proceeds(o)
  BY <1>2, TypeProceeds
<1>3. CASE \E o \in Operators : RequestDies(o)
  BY <1>3, DoneKeeps, PipelineAssumption DEF RequestDies, Fault, TypeOK
<1>4. CASE \E a \in Attempt, s \in Stage : RunStage(a, s)
  BY <1>4, TypeRunStage
<1>5. CASE \E a \in Attempt, s \in Stage : LoseTask(a, s)
  <2>1. PICK a \in Attempt, s \in Stage : LoseTask(a, s)
    BY <1>5
  <2>2. tasks' \in [Attempt \X Stage -> 0..TaskCap]
    BY <2>1, TaskQueues DEF LoseTask, TypeOK
  <2>3. faults' \in 0..MaxFaults
    BY <2>1, PipelineAssumption DEF LoseTask, Fault, TypeOK
  <2>4. QED
    BY <2>1, <2>2, <2>3 DEF LoseTask, TypeOK, AtStatement
<1>6. CASE \E a \in Attempt : CloseReview(a)
  BY <1>6 DEF CloseReview, TypeOK, AtStatement
<1>7. CASE GrantReadiness
  BY <1>0, <1>7 DEF GrantReadiness, TypeOK, AtStatement, Job, Statuses
<1>8. CASE WithdrawReadiness
  BY <1>0, <1>8 DEF WithdrawReadiness, TypeOK, AtStatement, Job, Statuses
<1>9. CASE UNCHANGED vars
  BY <1>9 DEF vars, TypeOK, AtStatement
<1>10. QED
  BY <1>1, <1>2, <1>3, <1>4, <1>5, <1>6, <1>7, <1>8, <1>9 DEF Next

-----------------------------------------------------------------------------
(* The pipeline: rows, copies and tasks are backed by results *)

Pipeline == StagesInOrder /\ TasksBacked /\ AllBacked

\* No transition of the aggregate claims more than the row it starts from.
LEMMA BackedTransitions ==
    ASSUME NEW j \in Job, Backed(j)
    PROVE  /\ Backed(QueuedJob(j)) /\ Backed(CancelledJob(j)) /\ Backed(DeletedJob(j))
           /\ \A f : Backed(FailedJob(j, f))
           /\ j.active < MaxAttempts => Backed(RestartedJob(j))
<1>1. Backed(CancelledJob(j))
  BY DEF Backed, CancelledJob, Job
<1>2. Backed(QueuedJob(j))
  <2>1. /\ QueuedJob(j).stage = 1 /\ QueuedJob(j).active = j.active
        /\ QueuedJob(j).status = j.status
    BY DEF QueuedJob, Queued, Job
  <2>2. \A s \in Stage : ~(s < 1)
    BY PipelineAssumption DEF Stage, Inspecting
  <2>3. QED
    BY <2>1, <2>2 DEF Backed
<1>3. Backed(DeletedJob(j))
  <2>1. /\ DeletedJob(j).stage = j.stage /\ DeletedJob(j).active = j.active
        /\ DeletedJob(j).status = "DELETED"
    BY DEF DeletedJob, CancelledJob, Job
  <2>2. QED
    BY <2>1 DEF Backed
<1>4. ASSUME NEW f
      PROVE  Backed(FailedJob(j, f))
  BY DEF Backed, FailedJob, Job
<1>5. Backed(RestartedJob(j))
  <2>1. RestartedJob(j).stage = 1 /\ RestartedJob(j).status = "ACTIVE"
    BY DEF RestartedJob, Queued, Job
  <2>2. \A s \in Stage : ~(s < 1)
    BY PipelineAssumption DEF Stage, Inspecting
  <2>3. QED
    BY <2>1, <2>2 DEF Backed
<1>6. QED
  BY <1>1, <1>2, <1>3, <1>4, <1>5

\* A dispatch of the first stage needs no result behind it.
LEMMA FirstDispatch ==
    ASSUME TypeOK, TasksBacked, results' = results,
           tasks' = tasks \/ \E a \in Attempt : Dispatch(tasks, a, Inspecting)
    PROVE  TasksBacked'
<1>1. \A t \in Stage : ~(t < Inspecting)
  BY PipelineAssumption DEF Stage, Inspecting
<1>2. CASE tasks' = tasks
  BY <1>2 DEF TasksBacked
<1>3. CASE \E a \in Attempt : Dispatch(tasks, a, Inspecting)
  <2>1. PICK a \in Attempt : tasks' = [tasks EXCEPT ![<<a, Inspecting>>] = @ + 1]
    BY <1>3 DEF Dispatch
  <2>2. \A b \in Attempt, s \in Stage :
           s # Inspecting => tasks'[<<b, s>>] = tasks[<<b, s>>]
    BY <2>1 DEF TypeOK
  <2>3. QED
    BY <1>1, <2>2 DEF TasksBacked
<1>4. QED
  BY <1>2, <1>3

\* While no result is added, the copies stay backed if the one a request takes is.
LEMMA CopiesBacked ==
    ASSUME TypeOK, AllBacked, results' = results, NEW o \in Operators,
           \/ Done(o)
           \/ \E pc \in Steps, j \in Job, a \in 0..MaxAttempts : Goto(o, pc, j, a) /\ Backed(j)
    PROVE  (\A p \in Operators : op[p] # Idle => Backed(op[p].job))'
<1>1. CASE Done(o)
  <2>1. op'[o] = Idle /\ \A p \in Operators : p # o => op'[p] = op[p]
    BY <1>1, DoneType DEF TypeOK
  <2>2. QED
    BY <2>1 DEF AllBacked, Backed, Idle
<1>2. CASE \E pc \in Steps, j \in Job, a \in 0..MaxAttempts : Goto(o, pc, j, a) /\ Backed(j)
  <2>1. PICK pc \in Steps, j \in Job, a \in 0..MaxAttempts : Goto(o, pc, j, a) /\ Backed(j)
    BY <1>2
  <2>2. op'[o].job = j /\ \A p \in Operators : p # o => op'[p] = op[p]
    BY <2>1, GotoType DEF TypeOK
  <2>3. QED
    BY <2>1, <2>2 DEF AllBacked, Backed, Idle
<1>3. QED
  BY <1>1, <1>2

LEMMA PipelineInit == Init => Pipeline
BY DEF Init, Pipeline, StagesInOrder, TasksBacked, AllBacked, Backed, NoJob, Created, Stage,
       Inspecting

LEMMA PipelineRequests ==
    ASSUME TypeOK, AtStatement, Pipeline, NEW o \in Operators, Starts(o) \/ Proceeds(o)
    PROVE  Pipeline'
<1> DEFINE j == op[o].job
           Taking(k) == \E pc \in Steps, a \in 0..MaxAttempts : Goto(o, pc, k, a)
<1>0. /\ job \in Job /\ Backed(job) /\ 0 \in 0..MaxAttempts
      /\ op[o].pc \in Steps => j \in Job /\ Backed(j) /\ op[o].att \in 0..MaxAttempts
      /\ ActiveAttempt \in 0..MaxAttempts
  <2>1. op[o].pc \in Steps => op[o] # Idle
    BY DEF Idle, Steps
  <2>2. QED
    BY <2>1, InFlight, ActiveAttemptType, PipelineAssumption DEF TypeOK, Pipeline, AllBacked
<1>1. SUFFICES /\ results' = results
               /\ tasks' = tasks \/ \E a \in Attempt : Dispatch(tasks, a, Inspecting)
               /\ Backed(job)'
               /\ \/ Done(o)
                  \/ \E pc \in Steps, k \in Job, a \in 0..MaxAttempts :
                        Goto(o, pc, k, a) /\ Backed(k)
  BY FirstDispatch, CopiesBacked DEF Pipeline, StagesInOrder, AllBacked
<1>2. CASE Starts(o)
  <2>1. CASE CreateJob(o)
    <3>1. job' \in Job
      BY <1>2, TypeStarts DEF TypeOK
    <3>2. results' = results /\ tasks' = tasks /\ Goto(o, "first", job', 0)
      BY <2>1 DEF CreateJob
    <3>3. job'.stage = 0 /\ job'.status = "ACTIVE"
      BY <2>1 DEF CreateJob, NoJob, Created
    <3>4. \A s \in Stage : ~(s < 0)
      BY PipelineAssumption DEF Stage, Inspecting
    <3>5. Backed(job)'
      BY <3>3, <3>4 DEF Backed
    <3>6. PICK k \in Job : k = job'
      BY <3>1
    <3>7. Backed(k)
      BY <3>3, <3>4, <3>6 DEF Backed
    <3>8. QED
      BY <1>0, <3>2, <3>5, <3>6, <3>7 DEF Steps
  <2>2. CASE ResolveJob(o) \/ CancelReads(o) \/ RetryReads(o) \/ DeleteReads(o)
    BY <1>0, <2>2 DEF ResolveJob, CancelReads, RetryReads, DeleteReads, Backed, Steps
  <2>3. QED
    BY <1>2, <2>1, <2>2 DEF Starts
<1>3. CASE Proceeds(o)
  <2>1. CASE AppendFirstAttempt(o) \/ QueueFindsAttempt(o) \/ CancelFindsAttempt(o)
    <3>1. op[o].pc \in Steps
      BY <2>1 DEF AppendFirstAttempt, QueueFindsAttempt, CancelFindsAttempt, At, Steps
    <3>2. QED
      BY <1>0, <2>1, <3>1
      DEF AppendFirstAttempt, QueueFindsAttempt, CancelFindsAttempt, Backed, Steps
  <2>2. CASE CancelMarksAttempt(o)
    BY <1>0, <2>2 DEF CancelMarksAttempt, At, Backed, Steps
  <2>3. CASE RetryAppends(o)
    <3>1. j.active + 1 \in 0..MaxAttempts
      BY <1>0, <2>3, PipelineAssumption DEF RetryAppends, At, AtStatement, Steps, Job
    <3>2. QED
      BY <1>0, <2>3, <3>1 DEF RetryAppends, At, Backed, Steps
  <2>4. CASE QueueSaves(o)
    <3>1. op[o].pc \in Steps /\ op[o].att \in Attempt
      BY <2>4 DEF QueueSaves, At, Steps, AtStatement
    <3>2. job' = QueuedJob(j) /\ Backed(QueuedJob(j))
      BY <1>0, <2>4, <3>1, BackedTransitions DEF QueueSaves, SaveJob
    <3>3. QED
      BY <2>4, <3>1, <3>2 DEF QueueSaves, Backed
  <2>5. CASE CancelSaves(o)
    <3>1. op[o].pc \in Steps
      BY <2>5 DEF CancelSaves, CancelPending, At, Steps
    <3>2. job' = CancelledJob(j) /\ Backed(CancelledJob(j))
      BY <1>0, <2>5, <3>1, BackedTransitions DEF CancelSaves, SaveJob
    <3>3. QED
      BY <2>5, <3>2 DEF CancelSaves, Backed
  <2>6. CASE RetrySaves(o)
    <3>1. op[o].pc \in Steps /\ j.active < MaxAttempts
      BY <2>6 DEF RetrySaves, At, Steps, AtStatement
    <3>2. job' = RestartedJob(j) /\ Backed(RestartedJob(j)) /\ RestartedJob(j) \in Job
      BY <1>0, <2>6, <3>1, BackedTransitions, JobTransitions DEF RetrySaves, SaveJob
    <3>3. QED
      BY <1>0, <2>6, <3>2 DEF RetrySaves, Backed, Steps
  <2>7. CASE DeleteCommits(o)
    <3>1. op[o].pc \in Steps
      BY <2>7 DEF DeleteCommits, At, Steps
    <3>2. job' = DeletedJob(j) /\ Backed(DeletedJob(j))
      BY <1>0, <2>7, <3>1, BackedTransitions DEF DeleteCommits, SaveJob
    <3>3. QED
      BY <2>7, <3>2 DEF DeleteCommits, Backed
  <2>8. CASE RequestRefused(o)
    BY <1>0, <2>8 DEF RequestRefused, Backed
  <2>9. QED
    BY <1>3, <2>1, <2>2, <2>3, <2>4, <2>5, <2>6, <2>7, <2>8 DEF Proceeds
<1>4. QED
  BY <1>2, <1>3

LEMMA PipelineRunStage ==
    ASSUME TypeOK, Pipeline, NEW a \in Attempt, NEW s \in Stage, RunStage(a, s)
    PROVE  Pipeline'
<1>0. \A t \in Stage : Takes(a, s) /\ t < s => <<a, t>> \in results
  BY DEF Pipeline, TasksBacked, Takes
<1>1. ASSUME tasks' = Taken(a, s), results \subseteq results'
      PROVE  TasksBacked'
  <2>1. \A b \in Attempt, u \in Stage : tasks'[<<b, u>>] > 0 => tasks[<<b, u>>] > 0
    BY <1>1, PipelineAssumption DEF Taken, TypeOK
  <2>2. QED
    BY <1>1, <2>1 DEF Pipeline, TasksBacked
<1>2. ASSUME results \subseteq results', op' = op
      PROVE  (\A o \in Operators : op[o] # Idle => Backed(op[o].job))'
  BY <1>2 DEF Pipeline, AllBacked, Backed
<1>3. CASE SkipStage(a, s)
  BY <1>1, <1>2, <1>3 DEF SkipStage, Pipeline, StagesInOrder, AllBacked, Backed
<1>4. CASE StageRefused(a, s)
  <2>1. Backed(job)'
    BY <1>4 DEF StageRefused, FailedJob, TypeOK, Job, Pipeline, AllBacked, Backed
  <2>2. QED
    BY <1>1, <1>2, <1>4, <2>1 DEF StageRefused, Pipeline, StagesInOrder, AllBacked
<1>5. CASE \E failure \in {"retryable", "final"} : StageFails(a, s, failure)
  <2>1. PICK failure \in {"retryable", "final"} : StageFails(a, s, failure)
    BY <1>5
  <2>2. job'.stage = s /\ job'.active = a /\ job'.status = "FAILED"
    BY <2>1 DEF StageFails, FailedJob, CanBegin, TypeOK, Job
  <2>3. Backed(job)'
    BY <1>0, <2>1, <2>2 DEF StageFails, Backed
  <2>4. QED
    BY <1>1, <1>2, <2>1, <2>3 DEF StageFails, Pipeline, StagesInOrder, AllBacked
<1>6. ASSUME Takes(a, s), results' = results \cup {<<a, s>>}
      PROVE  StagesInOrder' /\ \A t \in Stage : t < s + 1 => <<a, t>> \in results'
  <2>1. \A t \in Stage : t < s + 1 => t < s \/ t = s
    BY DEF Stage, Inspecting
  <2>2. \A t \in Stage : t < s + 1 => <<a, t>> \in results'
    BY <1>0, <1>6, <2>1
  <2>3. StagesInOrder'
    BY <1>0, <1>6 DEF Pipeline, StagesInOrder
  <2>4. QED
    BY <2>2, <2>3
<1>7. CASE StageAdvances(a, s)
  <2>1. Takes(a, s) /\ results' = results \cup {<<a, s>>}
    BY <1>7 DEF StageAdvances
  <2>2. job'.stage = s + 1 /\ job'.active = a /\ job.active = a /\ job'.status = job.status
    BY <1>7 DEF StageAdvances, CanBegin, TypeOK, Job
  <2>3. Backed(job)'
    BY <1>6, <2>1, <2>2 DEF Backed, Pipeline, AllBacked
  <2>4. TasksBacked'
    <3>1. Dispatch(Taken(a, s), a, s + 1)
      BY <1>7 DEF StageAdvances
    <3>2. \A b \in Attempt, u \in Stage :
             tasks'[<<b, u>>] > 0 => tasks[<<b, u>>] > 0 \/ (b = a /\ u = s + 1)
      BY <3>1, PipelineAssumption DEF Dispatch, Taken, TypeOK
    <3>3. ASSUME NEW b \in Attempt, NEW u \in Stage, NEW t \in Stage,
                 tasks'[<<b, u>>] > 0, t < u
          PROVE  <<b, t>> \in results'
      BY <1>6, <2>1, <3>2, <3>3 DEF Pipeline, TasksBacked
    <3>4. QED
      BY <3>3 DEF TasksBacked
  <2>5. QED
    BY <1>2, <1>6, <1>7, <2>1, <2>3, <2>4 DEF StageAdvances, Pipeline, AllBacked
<1>8. CASE StageEndsRun(a, s)
  <2>1. Takes(a, s) /\ results' = results \cup {<<a, s>>}
    BY <1>8 DEF StageEndsRun
  <2>2. job'.stage = s /\ job'.active = a /\ s \in {ReviewStage, LastStage}
    BY <1>8 DEF StageEndsRun, CanBegin, TypeOK, Job
  <2>3. <<a, ReviewStage>> \in results'
    <3>1. ReviewStage \in Stage /\ ReviewStage < s + 1
      BY <2>2, PipelineAssumption DEF Stage, Inspecting
    <3>2. QED
      BY <1>6, <2>1, <3>1
  <2>4. Backed(job)'
    BY <1>0, <2>1, <2>2, <2>3 DEF Backed
  <2>5. QED
    BY <1>1, <1>2, <1>6, <1>8, <2>1, <2>4 DEF StageEndsRun, Pipeline, AllBacked
<1>9. QED
  BY <1>3, <1>4, <1>5, <1>7, <1>8 DEF RunStage

LEMMA PipelineNext ==
    ASSUME TypeOK, AtStatement, Pipeline, [Next]_vars
    PROVE  Pipeline'
<1>1. CASE \E o \in Operators : Starts(o) \/ Proceeds(o)
  BY <1>1, PipelineRequests
<1>2. CASE \E o \in Operators : RequestDies(o)
  <2>1. PICK o \in Operators : RequestDies(o)
    BY <1>2
  <2>2. (\A p \in Operators : op[p] # Idle => Backed(op[p].job))'
    BY <2>1, CopiesBacked DEF RequestDies, Pipeline
  <2>3. QED
    BY <2>1, <2>2
    DEF RequestDies, Pipeline, StagesInOrder, TasksBacked, AllBacked, Backed
<1>3. CASE \E a \in Attempt, s \in Stage : RunStage(a, s)
  BY <1>3, PipelineRunStage
<1>4. CASE \E a \in Attempt, s \in Stage : LoseTask(a, s)
  <2>1. PICK a \in Attempt, s \in Stage : LoseTask(a, s)
    BY <1>4
  <2>2. \A b \in Attempt, u \in Stage : tasks'[<<b, u>>] > 0 => tasks[<<b, u>>] > 0
    BY <2>1, PipelineAssumption DEF LoseTask, Taken, TypeOK
  <2>3. QED
    BY <2>1, <2>2 DEF LoseTask, Pipeline, StagesInOrder, TasksBacked, AllBacked, Backed
<1>5. CASE \E a \in Attempt : CloseReview(a)
  BY <1>5 DEF CloseReview, Pipeline, StagesInOrder, TasksBacked, AllBacked, Backed
<1>6. CASE GrantReadiness \/ WithdrawReadiness
  <2>1. /\ job'.stage = job.stage /\ job'.active = job.active
        /\ job.status \in {"READY_FOR_REVIEW", "READY_FOR_TEACHING"}
    BY <1>6 DEF GrantReadiness, WithdrawReadiness, TypeOK, Job
  <2>2. QED
    BY <1>6, <2>1
    DEF GrantReadiness, WithdrawReadiness, Pipeline, StagesInOrder, TasksBacked, AllBacked,
        Backed
<1>7. CASE UNCHANGED vars
  BY <1>7 DEF vars, Pipeline, StagesInOrder, TasksBacked, AllBacked, Backed
<1>8. QED
  BY <1>1, <1>2, <1>3, <1>4, <1>5, <1>6, <1>7 DEF Next

-----------------------------------------------------------------------------
(* The link to the import row, and the end of a job *)

LEMMA LinksInit == Init => Links
BY DEF Init, Links, NoJob

\* What a transition does to the columns the link is about.
LEMMA LinkTransitions ==
    ASSUME NEW j \in Job
    PROVE  /\ QueuedJob(j).import = j.import /\ QueuedJob(j).status = j.status
           /\ CancelledJob(j).import = j.import
           /\ CancelledJob(j).status \in {j.status, "CANCELLED"}
           /\ RestartedJob(j).import = j.import /\ RestartedJob(j).status = "ACTIVE"
           /\ DeletedJob(j).import = FALSE /\ DeletedJob(j).status = "DELETED"
BY DEF QueuedJob, CancelledJob, RestartedJob, DeletedJob, Job

LEMMA LinksStarts ==
    ASSUME TypeOK, Links, NEW o \in Operators, Starts(o)
    PROVE  Links'
<1>0. /\ job \in Job
      /\ At(o, "idle") => op[o] = Idle
  BY InFlight DEF TypeOK, At, Request, Steps
<1>1. CASE CreateJob(o)
  <2>1. /\ job.status = "ABSENT"
        /\ job'.status = "ACTIVE" /\ job'.import = TRUE
        /\ Goto(o, "first", job', 0)
    BY <1>1 DEF CreateJob, NoJob
  <2>2. op'[o].job = job' /\ op'[o].pc = "first"
        /\ \A p \in Operators : p # o => op'[p] = Idle
    BY <2>1 DEF Goto, Links, TypeOK
  <2>3. QED
    BY <2>1, <2>2 DEF Links
<1>2. ASSUME NEW pc \in Steps, NEW a \in 0..MaxAttempts, Goto(o, pc, job, a),
             job' = job, sessions' = sessions,
             job.status \notin {"ABSENT", "DELETED"}
      PROVE  Links'
  <2>1. /\ op'[o].job = job /\ op'[o].pc = pc
        /\ \A p \in Operators : p # o => op'[p] = op[p]
    BY <1>0, <1>2, GotoType DEF TypeOK
  <2>2. QED
    BY <1>2, <2>1 DEF Links
<1>3. 0 \in 0..MaxAttempts
  BY PipelineAssumption
<1>4. CASE ResolveJob(o)
  BY <1>2, <1>3, <1>4 DEF ResolveJob, Steps
<1>5. CASE CancelReads(o)
  BY <1>2, <1>3, <1>5 DEF CancelReads, Immutable, Steps
<1>6. CASE RetryReads(o)
  BY <1>2, <1>3, <1>6 DEF RetryReads, CanRetry, Steps
<1>7. CASE DeleteReads(o)
  <2>1. job.status \notin {"ABSENT", "DELETED"}
    BY <1>7 DEF DeleteReads, Links, NoJob
  <2>2. QED
    BY <1>2, <1>3, <1>7, <2>1 DEF DeleteReads, Steps
<1>8. QED
  BY <1>1, <1>4, <1>5, <1>6, <1>7 DEF Starts

LEMMA LinksProceeds ==
    ASSUME TypeOK, AtStatement, Links, NEW o \in Operators, Proceeds(o)
    PROVE  Links' /\ (job.status = "DELETED" => job'.status = "DELETED")
<1> DEFINE j == op[o].job
<1>a. op[o].pc \in Steps =>
        /\ op[o] # Idle /\ j \in Job /\ op[o].att \in 0..MaxAttempts
        /\ job.status # "ABSENT" /\ j.status \notin {"ABSENT", "DELETED"}
        /\ job.import \/ job.status = "DELETED" => j.import
  <2>1. Idle.pc \notin Steps
    BY DEF Idle, Steps
  <2>2. QED
    BY <2>1, InFlight DEF TypeOK, Links, At
<1>b. 0 \in 0..MaxAttempts /\ ActiveAttempt \in 0..MaxAttempts
  BY PipelineAssumption, ActiveAttemptType
\* The request goes to its next statement; the job row is as it was.
<1>1. ASSUME op[o].pc \in Steps, job' = job, sessions' = sessions,
             NEW pc \in Steps, NEW a \in 0..MaxAttempts, Goto(o, pc, j, a)
      PROVE  Links'
  <2>1. /\ op'[o].job = j /\ op'[o].pc = pc
        /\ \A p \in Operators : p # o => op'[p] = op[p]
    BY <1>a, <1>1, GotoType DEF TypeOK
  <2>2. QED
    BY <1>a, <1>1, <2>1 DEF Links
\* The request saves a row that is not deleted, and ends or keeps what it saved.
<1>2. ASSUME op[o].pc \in Steps,
             NEW k \in Job, SaveJob(o, k), k.import = j.import,
             k.status \notin {"ABSENT", "DELETED"},
             Done(o) \/ \E pc \in Steps : Goto(o, pc, k, 0)
      PROVE  Links' /\ job.status # "DELETED"
  <2>1. /\ job' = k /\ (j.import => job.import)
        /\ job.status = "DELETED" => ~job.import
    BY <1>2 DEF SaveJob, LinkHolds, Links
  <2>2. /\ op'[o] # Idle => op'[o].job = k
        /\ \A p \in Operators : p # o => op'[p] = op[p]
    <3>1. CASE Done(o)
      BY <3>1, DoneType DEF TypeOK
    <3>2. CASE \E pc \in Steps : Goto(o, pc, k, 0)
      BY <1>b, <1>2, <3>2, GotoType DEF TypeOK
    <3>3. QED
      BY <1>2, <3>1, <3>2
  <2>3. \A p \in Operators : op'[p] # Idle =>
           /\ op'[p].job.status \notin {"ABSENT", "DELETED"}
           /\ k.import => op'[p].job.import
    BY <1>a, <1>2, <2>1, <2>2 DEF Links
  <2>4. QED
    BY <1>a, <1>2, <2>1, <2>3 DEF Links
<1>3. CASE AppendFirstAttempt(o) \/ QueueFindsAttempt(o) \/ CancelFindsAttempt(o)
  <2>1. /\ op[o].pc \in Steps
        /\ job' = job /\ sessions' = sessions
    BY <1>3 DEF AppendFirstAttempt, QueueFindsAttempt, CancelFindsAttempt, At, Steps
  <2>2. \E pc \in Steps, a \in 0..MaxAttempts : Goto(o, pc, j, a)
    BY <1>3, <1>b DEF AppendFirstAttempt, QueueFindsAttempt, CancelFindsAttempt, Steps
  <2>3. QED
    BY <1>1, <2>1, <2>2
<1>4. CASE CancelMarksAttempt(o)
  BY <1>1, <1>4, <1>a DEF CancelMarksAttempt, At, Steps
<1>5. CASE RetryAppends(o)
  <2>1. op[o].pc = "retry" /\ j.active + 1 \in 0..MaxAttempts
    BY <1>5, <1>a, PipelineAssumption DEF RetryAppends, At, AtStatement, Steps, Job
  <2>2. QED
    BY <1>1, <1>5, <2>1 DEF RetryAppends, Steps
<1>6. CASE QueueSaves(o)
  <2>1. op[o].pc = "queueing"
    BY <1>6 DEF QueueSaves, At
  <2>2. QueuedJob(j) \in Job /\ QueuedJob(j).import = j.import
        /\ QueuedJob(j).status \notin {"ABSENT", "DELETED"}
    BY <1>a, <2>1, JobTransitions, LinkTransitions DEF Steps
  <2>3. QED
    BY <1>2, <1>6, <2>1, <2>2 DEF QueueSaves, Steps
<1>7. CASE CancelSaves(o)
  <2>1. op[o].pc \in {"cancelling", "cancelled"}
    BY <1>7 DEF CancelSaves, CancelPending, At
  <2>2. CancelledJob(j) \in Job /\ CancelledJob(j).import = j.import
        /\ CancelledJob(j).status \notin {"ABSENT", "DELETED"}
    BY <1>a, <2>1, JobTransitions, LinkTransitions DEF Steps
  <2>3. QED
    BY <1>2, <1>7, <2>1, <2>2 DEF CancelSaves, Steps
<1>8. CASE RetrySaves(o)
  <2>1. op[o].pc = "retried" /\ j.active < MaxAttempts
    BY <1>8 DEF RetrySaves, At, AtStatement
  <2>2. RestartedJob(j) \in Job /\ RestartedJob(j).import = j.import
        /\ RestartedJob(j).status = "ACTIVE"
    BY <1>a, <2>1, JobTransitions, LinkTransitions DEF Steps
  <2>3. QED
    BY <1>2, <1>8, <2>1, <2>2 DEF RetrySaves, Steps
<1>9. CASE DeleteCommits(o)
  <2>1. op[o].pc = "delete" /\ j.import
    BY <1>9 DEF DeleteCommits, At, AtStatement
  <2>2. /\ job.import /\ job'.status = "DELETED" /\ ~job'.import
        /\ Done(o)
    BY <1>9, <1>a, <2>1, LinkTransitions DEF DeleteCommits, SaveJob, LinkHolds, Steps
  <2>3. op'[o] = Idle /\ \A p \in Operators : p # o => op'[p] = op[p]
    BY <2>2, DoneType DEF TypeOK
  <2>4. QED
    BY <2>2, <2>3 DEF Links
<1>10. CASE RequestRefused(o)
  <2>1. /\ job' = job /\ sessions' = sessions
        /\ op'[o] = Idle /\ \A p \in Operators : p # o => op'[p] = op[p]
    BY <1>10, DoneType DEF RequestRefused, TypeOK
  <2>2. QED
    BY <2>1 DEF Links
<1>11. QED
  BY <1>3, <1>4, <1>5, <1>6, <1>7, <1>8, <1>9, <1>10 DEF Proceeds

\* No step takes a job out of DELETED.
LEMMA LinksNext ==
    ASSUME TypeOK, AtStatement, Links, [Next]_vars
    PROVE  Links' /\ (job.status = "DELETED" => job'.status = "DELETED")
<1>0. job \in Job
  BY DEF TypeOK
<1>1. ASSUME job' = job, op' = op, sessions' \subseteq sessions
      PROVE  Links'
  BY <1>1 DEF Links
<1>2. CASE \E o \in Operators : Starts(o)
  <2>1. PICK o \in Operators : Starts(o)
    BY <1>2
  <2>2. job.status = "DELETED" => job' = job
    BY <2>1
    DEF Starts, CreateJob, ResolveJob, CancelReads, RetryReads, DeleteReads
  <2>3. QED
    BY <2>1, <2>2, LinksStarts
<1>3. CASE \E o \in Operators : Proceeds(o)
  BY <1>3, LinksProceeds
<1>4. CASE \E o \in Operators : RequestDies(o)
  <2>1. PICK o \in Operators : RequestDies(o)
    BY <1>4
  <2>2. op'[o] = Idle /\ \A p \in Operators : p # o => op'[p] = op[p]
    BY <2>1, DoneType DEF RequestDies, TypeOK
  <2>3. QED
    BY <2>1, <2>2 DEF RequestDies, Links
<1>5. CASE \E a \in Attempt, s \in Stage : RunStage(a, s)
  <2>1. PICK a \in Attempt, s \in Stage : RunStage(a, s)
    BY <1>5
  <2>2. CASE job' = job /\ sessions' = sessions
    BY <1>1, <2>1, <2>2
    DEF RunStage, SkipStage, StageRefused, StageFails, StageAdvances, StageEndsRun
  <2>3. CASE ~Ignores(a, s)
    <3>1. job.status \notin {"ABSENT", "DELETED"}
      <4>1. job.active # 0
        BY <2>3 DEF Ignores, Attempt
      <4>2. QED
        BY <2>3, <4>1 DEF Ignores, Links, NoJob
    <3>2. /\ op' = op /\ job'.import = job.import
          /\ job'.status \in {job.status, "FAILED", "READY_FOR_REVIEW"}
      BY <1>0, <2>1, <2>3
      DEF RunStage, SkipStage, StageRefused, StageFails, StageAdvances, StageEndsRun,
          FailedJob, Job
    <3>3. QED
      BY <3>1, <3>2 DEF Links
  <2>4. QED
    BY <2>1, <2>2, <2>3
    DEF RunStage, SkipStage, StageRefused, StageFails, StageAdvances, StageEndsRun
<1>6. CASE \E a \in Attempt, s \in Stage : LoseTask(a, s)
  BY <1>1, <1>6 DEF LoseTask
<1>7. CASE \E a \in Attempt : CloseReview(a)
  BY <1>1, <1>7 DEF CloseReview
<1>8. CASE GrantReadiness \/ WithdrawReadiness
  <2>1. /\ op' = op /\ job'.import = job.import
        /\ job.status \notin {"ABSENT", "DELETED"}
        /\ job'.status \notin {"ABSENT", "DELETED"}
    BY <1>0, <1>8 DEF GrantReadiness, WithdrawReadiness, Job
  <2>2. QED
    BY <2>1 DEF Links
<1>9. CASE UNCHANGED vars
  BY <1>1, <1>9 DEF vars
<1>10. QED
  BY <1>2, <1>3, <1>4, <1>5, <1>6, <1>7, <1>8, <1>9 DEF Next

-----------------------------------------------------------------------------
(* Theorems *)

LEMMA Inductive == Spec => []IInv
<1>1. Init => IInv
  BY TypeInit, PipelineInit, LinksInit DEF IInv, Pipeline
<1>2. IInv /\ [Next]_vars => IInv'
  BY TypeNext, PipelineNext, LinksNext DEF IInv, Pipeline
<1>3. QED
  BY <1>1, <1>2, PTL DEF Spec

\* Every variable keeps its type: in particular no request is ever about an
\* attempt number beyond the last, and no queue beyond its bound.
THEOREM TypeCorrect == Spec => []TypeOK
<1>1. IInv => TypeOK
  BY DEF IInv
<1>2. QED
  BY <1>1, Inductive, PTL

\* An attempt completes its stages in order, whatever the requests overwrite
\* and however many tasks of a stage are queued (StagesInOrder).
THEOREM ResultsInOrder == Spec => []StagesInOrder
<1>1. IInv => StagesInOrder
  BY DEF IInv
<1>2. QED
  BY <1>1, Inductive, PTL

\* Content offered for review or teaching has a validated proposal of the very
\* attempt the row names, although stale copies are saved over the row
\* (ReviewedIsValidated).
THEOREM ReviewIsEarned == Spec => []ReviewedIsValidated
<1>1. IInv => ReviewedIsValidated
  BY DEF IInv, AllBacked, Backed, ReviewedIsValidated
<1>2. QED
  BY <1>1, Inductive, PTL

\* No cancel, retry, import, delete or stage task that was under way brings a
\* deleted job back, whatever copy of the row it holds (DeletedIsFinal).
THEOREM DeletionHolds == Spec => DeletedIsFinal
<1>1. IInv /\ [Next]_vars => [job.status = "DELETED" => job'.status = "DELETED"]_vars
  BY LinksNext DEF IInv
<1>2. QED
  BY <1>1, Inductive, PTL DEF Spec, DeletedIsFinal
=============================================================================
