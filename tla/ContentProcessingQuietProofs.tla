-------------------- MODULE ContentProcessingQuietProofs --------------------
(***************************************************************************)
(* Theorems about ContentProcessing while no request has saved over a row  *)
(* it had not read, and while it is Quiet: no task is lost and no request  *)
(* has died either.                                                        *)
(*                                                                         *)
(* The code compares no version, so these properties hold of the job only  *)
(* until a stale copy is saved.  The invariants below say how far the rows *)
(* and copies may drift apart before that: which attempt rows exist and    *)
(* who names them (Rows), that no copy is ahead of the row (Numbers), and  *)
(* where the queued task of the active attempt stands (Frontier).          *)
(***************************************************************************)
EXTENDS ContentProcessingProofs

\* What a request in flight says of the attempt rows.
Names(o) ==
    /\ op[o] # Idle => op[o].job.active >= 1
    /\ op[o].pc \in {"queueing", "cancelling", "cancelled", "retried"} /\ op[o].att # 0
          => attempts[op[o].att] # "none"
    /\ At(o, "first") => op[o].job.active = 1 /\ attempts[1] = "none"
    /\ At(o, "queueing") => CanQueue(op[o].job)
    /\ At(o, "cancelled") => op[o].att # 0 /\ op[o].job.stage \in Early
    /\ At(o, "retried") => op[o].att = op[o].job.active + 1

\* A job has a number, a task has a row, and one import inserts the first row.
Rows ==
    /\ job.status = "ABSENT" => \A a \in Attempt : attempts[a] = "none"
    /\ job.status # "ABSENT" => job.active >= 1
    /\ \A a \in Attempt, s \in Stage : tasks[<<a, s>>] > 0 => attempts[a] # "none"
    /\ \A o \in Operators : Names(o)
    /\ \A o, p \in Operators : At(o, "first") /\ At(p, "first") => o = p

\* No copy is ahead of the row, nor is a task or a result of an attempt ahead of
\* the active one.
Numbers ==
    /\ \A o \in Operators : op[o] # Idle => op[o].job.active <= job.active
    /\ \A o \in Operators :
          op[o].pc \in {"queueing", "cancelling", "cancelled"} => op[o].att <= job.active
    /\ \A o \in Operators : At(o, "queueing") => op[o].job.active <= op[o].att
    /\ \A a \in Attempt, s \in Stage : tasks[<<a, s>>] > 0 => a <= job.active
    /\ \A a \in Attempt, s \in Stage : <<a, s>> \in results => a <= job.active

\* A task of the active attempt that is still to run is for the stage the row
\* is at, and the run has not ended.
AtFrontier(s) ==
    /\ job.stage = s \/ (s = Inspecting /\ job.stage = Queued)
    /\ job.status \notin {"READY_FOR_REVIEW", "READY_FOR_TEACHING"}

Frontier ==
    /\ \A s \in Stage : <<job.active, s>> \in results => s <= job.stage
    /\ \A a \in Attempt, s \in Stage :
          a = job.active /\ tasks[<<a, s>>] > 0 /\ <<a, s>> \notin results => AtFrontier(s)

\* An ACTIVE job is driven by a task of its attempt that is still to run, or by
\* a request that holds the row as it is and will dispatch the first task.
Drives(o) ==
    /\ op[o].pc \in {"first", "queue", "queueing"}
    /\ op[o].job = job
    /\ job.stage \in Early
    /\ ~At(o, "first") => attempts[job.active] # "none"

Pending(s) == tasks[<<job.active, s>>] > 0 /\ <<job.active, s>> \notin results

Driven ==
    job.status = "ACTIVE" =>
        (\E s \in Stage : Pending(s)) \/ \E o \in Operators : Drives(o)

\* A cancelled attempt is the active one only while the job says so too, or the
\* request that cancelled it is about to; that save fails only when the job has
\* been deleted meanwhile.
Rests ==
    /\ \A a \in Attempt : attempts[a] = "cancelled" => a <= job.active
    /\ \A a \in Attempt : attempts[a] = "cancelled" /\ a = job.active =>
          \/ job.status \in {"CANCELLED", "DELETED"}
          \/ \E o \in Operators : At(o, "cancelled") /\ op[o].att = a
    /\ \A o \in Operators : At(o, "cancelled") /\ op[o].job.import /\ ~job.import =>
          job.status = "DELETED" \/ op[o].att < job.active

-----------------------------------------------------------------------------
(* What the steps do to the requests and the attempt rows *)

\* A request starts with a copy of the row as the step leaves it.
LEMMA StartsEffect ==
    ASSUME TypeOK, Links, NEW o \in Operators, Starts(o)
    PROVE  /\ op[o] = Idle /\ op'[o].job = job' /\ op'[o] # Idle
           /\ \A p \in Operators : p # o => op'[p] = op[p]
           /\ op'[o].pc \in {"first", "queue", "cancel", "retry", "delete"}
           /\ op'[o].pc = "first" =>
                 /\ job.status = "ABSENT"
                 /\ job'.status = "ACTIVE" /\ job'.active = 1 /\ job'.stage = Created
                 /\ job'.cancel = FALSE
           /\ op'[o].pc # "first" => job' = job /\ job.status # "ABSENT"
           /\ UNCHANGED <<attempts, results, sessions, tasks, overwrote, faults>>
<1>0. /\ job \in Job /\ 0 \in 0..MaxAttempts
      /\ At(o, "idle") => op[o] = Idle
  BY InFlight, PipelineAssumption DEF TypeOK, At, Request, Steps
<1>1. CASE CreateJob(o)
  <2>1. 1 \in 0..MaxAttempts /\ Created \in AnyStage
    BY PipelineAssumption DEF AnyStage, Created
  <2>2. /\ job' \in Job /\ Goto(o, "first", job', 0) /\ "first" \in Steps
        /\ job'.status = "ACTIVE" /\ job'.active = 1 /\ job'.stage = Created
        /\ job'.cancel = FALSE
    BY <1>1, <2>1 DEF CreateJob, NoJob, Job, Statuses, Steps
  <2>3. op'[o].pc = "first" /\ op'[o].job = job' /\ op'[o] # Idle
        /\ \A p \in Operators : p # o => op'[p] = op[p]
    BY <1>0, <2>2, GotoType DEF TypeOK
  <2>4. QED
    BY <1>0, <1>1, <2>2, <2>3 DEF CreateJob
<1>2. ASSUME NEW pc \in {"queue", "cancel", "retry", "delete"},
             NEW a \in 0..MaxAttempts, Goto(o, pc, job, a), At(o, "idle"),
             UNCHANGED <<job, attempts, results, sessions, tasks, overwrote, faults>>,
             job.status # "ABSENT"
      PROVE  /\ op[o] = Idle /\ op'[o].job = job' /\ op'[o] # Idle
             /\ \A p \in Operators : p # o => op'[p] = op[p]
             /\ op'[o].pc \in {"first", "queue", "cancel", "retry", "delete"}
             /\ op'[o].pc # "first" /\ job' = job
             /\ UNCHANGED <<attempts, results, sessions, tasks, overwrote, faults>>
  <2>1. pc \in Steps
    BY <1>2 DEF Steps
  <2>2. QED
    BY <1>0, <1>2, <2>1, GotoType DEF TypeOK
<1>3. CASE ResolveJob(o)
  BY <1>0, <1>2, <1>3 DEF ResolveJob
<1>4. CASE CancelReads(o)
  BY <1>0, <1>2, <1>4 DEF CancelReads
<1>5. CASE RetryReads(o)
  BY <1>0, <1>2, <1>5 DEF RetryReads, CanRetry
<1>6. CASE DeleteReads(o)
  <2>1. job.status # "ABSENT"
    BY <1>6 DEF DeleteReads, Links, NoJob
  <2>2. QED
    BY <1>0, <1>2, <1>6, <2>1 DEF DeleteReads
<1>7. QED
  BY <1>1, <1>3, <1>4, <1>5, <1>6 DEF Starts

\* The row of an attempt is never deleted.
LEMMA RowsStay ==
    ASSUME TypeOK, AtStatement, [Next]_vars, NEW a \in Attempt, attempts[a] # "none"
    PROVE  attempts'[a] # "none"
<1>1. CASE attempts' = attempts
  BY <1>1
<1>2. CASE \E b \in Attempt, v \in {"pending", "succeeded", "failed", "cancelled"} :
             attempts' = [attempts EXCEPT ![b] = v]
  BY <1>2 DEF TypeOK
<1>3. CASE \E o \in Operators : Starts(o)
  BY <1>1, <1>3
  DEF Starts, CreateJob, ResolveJob, CancelReads, RetryReads, DeleteReads
<1>4. CASE \E o \in Operators : Proceeds(o)
  <2>1. PICK o \in Operators : Proceeds(o)
    BY <1>4
  <2>2. /\ 1 \in Attempt
        /\ ActiveAttempt # 0 => ActiveAttempt \in Attempt
        /\ op[o].pc \in Steps /\ op[o].att # 0 => op[o].att \in Attempt
        /\ op[o].pc = "retry" => op[o].job.active + 1 \in Attempt
    BY PipelineAssumption, ActiveAttemptType, InFlight
    DEF TypeOK, AtStatement, Attempt, Job, Steps
  <2>3. QED
    BY <1>1, <1>2, <2>1, <2>2
    DEF Proceeds, At, AppendFirstAttempt, QueueFindsAttempt, QueueSaves, CancelFindsAttempt,
        CancelMarksAttempt, CancelSaves, RetryAppends, RetrySaves, DeleteCommits,
        RequestRefused, Steps
<1>5. CASE \E b \in Attempt, s \in Stage : RunStage(b, s)
  BY <1>1, <1>2, <1>5
  DEF RunStage, SkipStage, StageRefused, StageFails, StageAdvances, StageEndsRun
<1>6. QED
  BY <1>1, <1>3, <1>4, <1>5
  DEF Next, vars, RequestDies, LoseTask, CloseReview, GrantReadiness, WithdrawReadiness

\* Where a request stands after its step; nobody else moves with it.
LEMMA ProceedsEffect ==
    ASSUME TypeOK, AtStatement, NEW o \in Operators, Proceeds(o)
    PROVE  /\ op[o].pc \in Steps /\ op[o] # Idle
           /\ op[o].job \in Job /\ op[o].att \in 0..MaxAttempts
           /\ \A p \in Operators : p # o => op'[p] = op[p]
           /\ AppendFirstAttempt(o) =>
                 op'[o] = [pc |-> "queue", job |-> op[o].job, att |-> 0]
           /\ QueueFindsAttempt(o) =>
                 op'[o] = [pc |-> "queueing", job |-> op[o].job, att |-> ActiveAttempt]
           /\ CancelFindsAttempt(o) =>
                 op'[o] = [pc |-> "cancelling", job |-> op[o].job, att |-> ActiveAttempt]
           /\ CancelMarksAttempt(o) =>
                 op'[o] = [pc |-> "cancelled", job |-> op[o].job, att |-> op[o].att]
           /\ RetryAppends(o) =>
                 op'[o] = [pc |-> "retried", job |-> op[o].job, att |-> op[o].job.active + 1]
           /\ RetrySaves(o) =>
                 op'[o] = [pc |-> "queue", job |-> RestartedJob(op[o].job), att |-> 0]
           /\ QueueSaves(o) \/ CancelSaves(o) \/ DeleteCommits(o)
                 \/ RequestRefused(o) => op'[o] = Idle
<1>1. op[o].pc \in Steps
  BY DEF Proceeds, At, AppendFirstAttempt, QueueFindsAttempt, QueueSaves,
      CancelFindsAttempt, CancelMarksAttempt, CancelPending, CancelSaves, RetryAppends,
      RetrySaves, DeleteCommits, RequestRefused, Steps
<1>2. op[o] # Idle /\ op[o].job \in Job /\ op[o].att \in 0..MaxAttempts
  BY <1>1, InFlight DEF TypeOK, Idle, Steps
<1>3. ASSUME NEW pc, NEW j, NEW a, Goto(o, pc, j, a)
      PROVE  /\ op'[o] = [pc |-> pc, job |-> j, att |-> a]
             /\ \A p \in Operators : p # o => op'[p] = op[p]
  BY <1>3 DEF Goto, TypeOK
<1>4. Done(o) => op'[o] = Idle /\ \A p \in Operators : p # o => op'[p] = op[p]
  BY DoneType DEF TypeOK
<1>5. \A p \in Operators : p # o => op'[p] = op[p]
  <2>1. Done(o) \/ \E pc, j, a : Goto(o, pc, j, a)
    BY DEF Proceeds, AppendFirstAttempt, QueueFindsAttempt, QueueSaves,
      CancelFindsAttempt, CancelMarksAttempt, CancelSaves, RetryAppends,
      RetrySaves, DeleteCommits, RequestRefused
  <2>2. QED
    BY <1>3, <1>4, <2>1
<1>6. QED
  BY <1>1, <1>2, <1>3, <1>4, <1>5
  DEF AppendFirstAttempt, QueueFindsAttempt, QueueSaves,
      CancelFindsAttempt, CancelMarksAttempt, CancelSaves, RetryAppends,
      RetrySaves, DeleteCommits, RequestRefused

-----------------------------------------------------------------------------
(* The attempt rows, and what the requests say of them *)

\* The first attempt is inserted by the import that created the job.
LEMMA FirstRow ==
    ASSUME TypeOK, AtStatement, Rows, [Next]_vars,
           NEW p \in Operators, At(p, "first"), ~AppendFirstAttempt(p)
    PROVE  attempts'[1] = "none"
<1>0. attempts[1] = "none" /\ 1 \in Attempt
  BY PipelineAssumption DEF Rows, Names, Attempt
<1>1. CASE attempts' = attempts
  BY <1>0, <1>1
<1>2. CASE \E b \in Attempt : b # 1 /\ \E v : attempts' = [attempts EXCEPT ![b] = v]
  BY <1>0, <1>2 DEF TypeOK
<1>3. CASE \E o \in Operators : Starts(o)
  BY <1>1, <1>3
  DEF Starts, CreateJob, ResolveJob, CancelReads, RetryReads, DeleteReads
<1>4. CASE \E o \in Operators : Proceeds(o)
  <2>1. PICK o \in Operators : Proceeds(o)
    BY <1>4
  <2>2. op[o].pc \in Steps /\ op[o].job \in Job /\ op[o].att \in 0..MaxAttempts /\ op[o] # Idle
    BY <2>1, ProceedsEffect
  <2>3. ~AppendFirstAttempt(o)
    BY DEF Rows, AppendFirstAttempt
  <2>4. ActiveAttempt # 0 => ActiveAttempt \in Attempt /\ attempts[ActiveAttempt] # "none"
    BY ActiveAttemptType DEF ActiveAttempt
  <2>5. CASE CancelMarksAttempt(o)
    <3>1. op[o].att \in Attempt /\ attempts[op[o].att] # "none"
      BY <2>2, <2>5, PipelineAssumption DEF CancelMarksAttempt, At, Rows, Names, Attempt
    <3>2. QED
      BY <1>0, <1>2, <2>5, <3>1 DEF CancelMarksAttempt
  <2>6. CASE RetryAppends(o)
    <3>1. op[o].job.active \in Nat /\ op[o].job.active >= 1 /\ op[o].job.active < MaxAttempts
      BY <2>2, <2>6 DEF RetryAppends, At, AtStatement, Rows, Names, Job
    <3>2. op[o].job.active + 1 \in Attempt /\ op[o].job.active + 1 # 1
      BY <3>1, PipelineAssumption DEF Attempt
    <3>3. QED
      BY <1>2, <2>6, <3>2 DEF RetryAppends
  <2>7. CASE DeleteCommits(o)
    BY <1>0, <1>1, <1>2, <2>4, <2>7 DEF DeleteCommits
  <2>8. QED
    BY <1>1, <2>1, <2>3, <2>5, <2>6, <2>7
    DEF Proceeds, QueueFindsAttempt, QueueSaves, CancelFindsAttempt, CancelSaves,
        RetrySaves, RequestRefused
<1>5. CASE \E b \in Attempt, s \in Stage : RunStage(b, s)
  <2>1. PICK b \in Attempt, s \in Stage : RunStage(b, s)
    BY <1>5
  <2>2. b # 1
    BY <1>0, <2>1
    DEF RunStage, SkipStage, StageRefused, StageFails, StageAdvances, StageEndsRun,
        Takes, Rows
  <2>3. QED
    BY <1>1, <1>2, <2>1, <2>2
    DEF RunStage, SkipStage, StageRefused, StageFails, StageAdvances, StageEndsRun
<1>6. QED
  BY <1>1, <1>3, <1>4, <1>5
  DEF Next, vars, RequestDies, LoseTask, CloseReview, GrantReadiness, WithdrawReadiness

\* A request that does not move goes on naming the rows it named.
LEMMA NamesStay ==
    ASSUME TypeOK, AtStatement, Rows, [Next]_vars,
           NEW p \in Operators, op'[p] = op[p]
    PROVE  Names(p)'
<1>1. op[p].pc \in Steps /\ op[p].att # 0 => op[p].att \in Attempt
  BY InFlight, PipelineAssumption DEF TypeOK, Attempt
<1>2. At(p, "first") => ~AppendFirstAttempt(p)
  <2>1. ASSUME AppendFirstAttempt(p) PROVE FALSE
    <3>1. Proceeds(p)
      BY <2>1 DEF Proceeds
    <3>2. op'[p] = [pc |-> "queue", job |-> op[p].job, att |-> 0]
      BY <2>1, <3>1, ProceedsEffect
    <3>3. QED
      BY <2>1, <3>2 DEF AppendFirstAttempt, At
  <2>2. QED
    BY <2>1
<1>3. At(p, "first") => attempts'[1] = "none"
  BY <1>2, FirstRow
<1>4. Names(p)
  BY DEF Rows
<1>5. op[p].pc \in {"queueing", "cancelling", "cancelled", "retried"} /\ op[p].att # 0
        => attempts'[op[p].att] # "none"
  BY <1>1, <1>4, RowsStay DEF Names, Steps
<1>6. QED
  BY <1>3, <1>4, <1>5 DEF Names, At

LEMMA RowsInit == Init => Rows
BY DEF Init, Rows, Names, NoJob, Idle, At

LEMMA RowsStarts ==
    ASSUME IInv, Rows, NEW o \in Operators, Starts(o)
    PROVE  Rows'
<1>1. [Next]_vars
  BY DEF Next
<1>2. /\ op[o] = Idle /\ op'[o].job = job' /\ op'[o] # Idle
      /\ \A p \in Operators : p # o => op'[p] = op[p]
      /\ op'[o].pc \in {"first", "queue", "cancel", "retry", "delete"}
      /\ op'[o].pc = "first" =>
            job.status = "ABSENT" /\ job'.status = "ACTIVE" /\ job'.active = 1
      /\ op'[o].pc # "first" => job' = job /\ job.status # "ABSENT"
      /\ attempts' = attempts /\ tasks' = tasks
  BY StartsEffect DEF IInv
<1>3. \A p \in Operators : p # o => Names(p)'
  BY <1>1, <1>2, NamesStay DEF IInv
<1>4. 1 \in Attempt
  BY PipelineAssumption DEF Attempt
<1>5. Names(o)'
  BY <1>2, <1>4 DEF Names, At, Rows
<1>6. op'[o].pc = "first" => \A p \in Operators : p # o => op'[p].pc = "idle"
  BY <1>2 DEF IInv, Links, Idle
<1>7. QED
  BY <1>2, <1>3, <1>5, <1>6 DEF Rows, At

LEMMA RowsProceeds ==
    ASSUME IInv, Rows, NEW o \in Operators, Proceeds(o)
    PROVE  Rows'
<1> DEFINE j == op[o].job
<1>0. [Next]_vars /\ TypeOK /\ AtStatement
  BY DEF Next, IInv
<1>1. /\ op[o].pc \in Steps /\ op[o] # Idle /\ j \in Job /\ op[o].att \in 0..MaxAttempts
      /\ \A p \in Operators : p # o => op'[p] = op[p]
  BY <1>0, ProceedsEffect
<1>2. /\ job.status # "ABSENT" /\ j.status # "ABSENT"
      /\ job.active >= 1 /\ j.active >= 1
  BY <1>1 DEF IInv, Links, Rows, Names
<1>3. \A p \in Operators : p # o => Names(p)'
  BY <1>0, <1>1, NamesStay
<1>4. \A a \in Attempt : attempts[a] # "none" => attempts'[a] # "none"
  BY <1>0, RowsStay
<1>5. ASSUME job'.status # "ABSENT", job'.active >= 1, tasks' = tasks, Names(o)',
             op'[o].pc # "first"
      PROVE  Rows'
  <2>1. \A a \in Attempt, s \in Stage : tasks'[<<a, s>>] > 0 => attempts'[a] # "none"
    BY <1>4, <1>5 DEF Rows
  <2>2. QED
    BY <1>1, <1>3, <1>5, <2>1 DEF Rows, At
<1>6. ASSUME job'.status # "ABSENT", job'.active >= 1, op'[o] = Idle,
             NEW a \in Attempt, attempts'[a] # "none", Dispatch(tasks, a, Inspecting)
      PROVE  Rows'
  <2>1. \A b \in Attempt, s \in Stage :
           <<b, s>> # <<a, Inspecting>> => tasks'[<<b, s>>] = tasks[<<b, s>>]
    BY <1>0, <1>6 DEF Dispatch, TypeOK
  <2>2. \A b \in Attempt, s \in Stage : tasks'[<<b, s>>] > 0 => attempts'[b] # "none"
    BY <1>4, <1>6, <2>1 DEF Rows
  <2>3. Names(o)' /\ op'[o].pc # "first"
    BY <1>6 DEF Names, Idle, At
  <2>4. QED
    BY <1>1, <1>3, <1>6, <2>2, <2>3 DEF Rows, At
<1>7. op'[o] = Idle => Names(o)' /\ op'[o].pc # "first"
  BY DEF Names, Idle, At
<1>8. ActiveAttempt # 0 => ActiveAttempt \in Attempt /\ attempts[ActiveAttempt] # "none"
  BY <1>0, ActiveAttemptType DEF ActiveAttempt
<1>9. op[o].pc \in {"retry", "retried"} => j.active + 1 \in Attempt
  BY <1>0, <1>1, PipelineAssumption DEF AtStatement, Job, Attempt
<1>10. CASE AppendFirstAttempt(o)
  <2>1. op'[o] = [pc |-> "queue", job |-> j, att |-> 0]
    BY <1>0, <1>10, ProceedsEffect
  <2>2. job' = job /\ tasks' = tasks
    BY <1>10 DEF AppendFirstAttempt
  <2>3. QED
    BY <1>2, <1>5, <2>1, <2>2 DEF Names, At
<1>11. CASE QueueFindsAttempt(o)
  <2>1. op'[o] = [pc |-> "queueing", job |-> j, att |-> ActiveAttempt]
    BY <1>0, <1>11, ProceedsEffect
  <2>2. job' = job /\ tasks' = tasks /\ attempts' = attempts /\ CanQueue(j)
    BY <1>11 DEF QueueFindsAttempt
  <2>3. QED
    BY <1>2, <1>5, <1>8, <2>1, <2>2 DEF Names, At, CanQueue
<1>12. CASE QueueSaves(o)
  <2>0. op'[o] = Idle
    BY <1>0, <1>12, ProceedsEffect
  <2>1. op[o].att \in Attempt /\ attempts' = attempts /\ attempts[op[o].att] # "none"
    BY <1>0, <1>12, PipelineAssumption DEF QueueSaves, At, AtStatement, Rows, Names, Attempt
  <2>2. job'.status # "ABSENT" /\ job'.active >= 1
    BY <1>1, <1>2, <1>12 DEF QueueSaves, SaveJob, QueuedJob, Job
  <2>3. QED
    BY <1>6, <1>12, <2>0, <2>1, <2>2 DEF QueueSaves
<1>13. CASE CancelFindsAttempt(o)
  <2>1. op'[o] = [pc |-> "cancelling", job |-> j, att |-> ActiveAttempt]
    BY <1>0, <1>13, ProceedsEffect
  <2>2. job' = job /\ tasks' = tasks /\ attempts' = attempts
    BY <1>13 DEF CancelFindsAttempt
  <2>3. QED
    BY <1>2, <1>5, <1>8, <2>1, <2>2 DEF Names, At
<1>14. CASE CancelMarksAttempt(o)
  <2>1. op'[o] = [pc |-> "cancelled", job |-> j, att |-> op[o].att]
    BY <1>0, <1>14, ProceedsEffect
  <2>2. job' = job /\ tasks' = tasks /\ j.stage \in Early /\ op[o].att # 0
        /\ attempts[op[o].att] # "none" /\ op[o].att \in Attempt
    BY <1>1, <1>14, PipelineAssumption DEF CancelMarksAttempt, At, Rows, Names, Attempt
  <2>3. QED
    BY <1>2, <1>4, <1>5, <2>1, <2>2 DEF Names, At
<1>15. CASE CancelSaves(o)
  <2>1. op'[o] = Idle /\ tasks' = tasks
    BY <1>0, <1>15, ProceedsEffect DEF CancelSaves
  <2>2. job'.status # "ABSENT" /\ job'.active >= 1
    BY <1>1, <1>2, <1>15 DEF CancelSaves, SaveJob, CancelledJob, Job
  <2>3. QED
    BY <1>5, <1>7, <2>1, <2>2
<1>16. CASE RetryAppends(o)
  <2>1. op'[o] = [pc |-> "retried", job |-> j, att |-> j.active + 1]
    BY <1>0, <1>16, ProceedsEffect
  <2>2. job' = job /\ tasks' = tasks /\ attempts'[j.active + 1] = "pending"
    BY <1>0, <1>9, <1>16 DEF RetryAppends, At, TypeOK
  <2>3. QED
    BY <1>2, <1>5, <2>1, <2>2 DEF Names, At
<1>17. CASE RetrySaves(o)
  <2>1. op'[o] = [pc |-> "queue", job |-> RestartedJob(j), att |-> 0]
    BY <1>0, <1>17, ProceedsEffect
  <2>2. job' = RestartedJob(j) /\ tasks' = tasks
    BY <1>17 DEF RetrySaves, SaveJob
  <2>3. RestartedJob(j).status = "ACTIVE" /\ RestartedJob(j).active = j.active + 1
    BY <1>1 DEF RestartedJob, Job
  <2>4. j.active + 1 >= 1
    BY <1>1 DEF Job
  <2>5. QED
    BY <1>5, <2>1, <2>2, <2>3, <2>4 DEF Names, At
<1>18. CASE DeleteCommits(o)
  <2>1. op'[o] = Idle /\ tasks' = tasks
    BY <1>0, <1>18, ProceedsEffect DEF DeleteCommits
  <2>2. job'.status # "ABSENT" /\ job'.active >= 1
    BY <1>1, <1>2, <1>18 DEF DeleteCommits, SaveJob, DeletedJob, CancelledJob, Job
  <2>3. QED
    BY <1>5, <1>7, <2>1, <2>2
<1>19. CASE RequestRefused(o)
  <2>1. op'[o] = Idle /\ tasks' = tasks /\ job' = job
    BY <1>0, <1>19, ProceedsEffect DEF RequestRefused
  <2>2. QED
    BY <1>2, <1>5, <1>7, <2>1
<1>20. QED
  BY <1>10, <1>11, <1>12, <1>13, <1>14, <1>15, <1>16, <1>17, <1>18, <1>19 DEF Proceeds

LEMMA RowsRunStage ==
    ASSUME IInv, Rows, NEW a \in Attempt, NEW s \in Stage, RunStage(a, s)
    PROVE  Rows'
<1>0. [Next]_vars /\ TypeOK /\ AtStatement /\ job \in Job /\ op' = op
  BY DEF Next, IInv, TypeOK, RunStage, SkipStage, StageRefused, StageFails, StageAdvances,
         StageEndsRun
<1>1. /\ attempts[a] # "none" /\ job.status # "ABSENT" /\ job.active >= 1
  BY DEF RunStage, SkipStage, StageRefused, StageFails, StageAdvances, StageEndsRun, Takes,
         Rows
<1>2. \A b \in Attempt : attempts[b] # "none" => attempts'[b] # "none"
  BY <1>0, RowsStay
<1>3. job'.status # "ABSENT" /\ job'.active >= 1
  BY <1>0, <1>1 DEF RunStage, SkipStage, StageRefused, StageFails, StageAdvances,
     StageEndsRun, FailedJob, Job
<1>4. \A p \in Operators : Names(p)'
  BY <1>0, NamesStay
<1>5. \A b \in Attempt, u \in Stage : b # a => tasks'[<<b, u>>] = tasks[<<b, u>>]
  <2>1. Taken(a, s) \in [Attempt \X Stage -> 0..TaskCap]
    BY TaskQueues
    DEF IInv, TypeOK, RunStage, SkipStage, StageRefused, StageFails, StageAdvances, StageEndsRun
  <2>2. \A b \in Attempt, u \in Stage : b # a => Taken(a, s)[<<b, u>>] = tasks[<<b, u>>]
    BY <1>0 DEF Taken, TypeOK
  <2>3. \A b \in Attempt, u \in Stage :
           b # a => [Taken(a, s) EXCEPT ![<<a, s + 1>>] = @ + 1][<<b, u>>] = tasks[<<b, u>>]
    BY <2>1, <2>2
  <2>4. QED
    BY <2>2, <2>3
    DEF RunStage, SkipStage, StageRefused, StageFails, StageAdvances, StageEndsRun, Dispatch
<1>6. QED
  BY <1>0, <1>1, <1>2, <1>3, <1>4, <1>5 DEF Rows, At

LEMMA RowsNext ==
    ASSUME IInv, Rows, [Next]_vars
    PROVE  Rows'
<1>0. TypeOK /\ AtStatement /\ job \in Job
  BY DEF IInv, TypeOK
<1>1. ASSUME job' = job, attempts' = attempts, op' = op,
             \A a \in Attempt, s \in Stage : tasks'[<<a, s>>] > 0 => tasks[<<a, s>>] > 0
      PROVE  Rows'
  BY <1>1 DEF Rows, Names, At, CanQueue
<1>2. CASE \E o \in Operators : Starts(o)
  BY <1>2, RowsStarts
<1>3. CASE \E o \in Operators : Proceeds(o)
  BY <1>3, RowsProceeds
<1>4. CASE \E o \in Operators : RequestDies(o)
  <2>1. PICK o \in Operators : RequestDies(o)
    BY <1>4
  <2>2. op'[o] = Idle /\ \A p \in Operators : p # o => op'[p] = op[p]
    BY <1>0, <2>1, DoneType DEF RequestDies, TypeOK
  <2>3. Names(o)' /\ op'[o].pc # "first"
    BY <2>2 DEF Names, Idle, At
  <2>4. \A p \in Operators : p # o => Names(p)'
    BY <1>0, <2>2, NamesStay
  <2>5. job' = job /\ attempts' = attempts /\ tasks' = tasks
    BY <2>1 DEF RequestDies
  <2>6. QED
    BY <2>2, <2>3, <2>4, <2>5 DEF Rows, At
<1>5. CASE \E a \in Attempt, s \in Stage : RunStage(a, s)
  BY <1>5, RowsRunStage
<1>6. CASE \E a \in Attempt, s \in Stage : LoseTask(a, s)
  <2>1. PICK a \in Attempt, s \in Stage : LoseTask(a, s)
    BY <1>6
  <2>2. \A b \in Attempt, u \in Stage : tasks'[<<b, u>>] > 0 => tasks[<<b, u>>] > 0
    BY <1>0, <2>1, PipelineAssumption DEF LoseTask, Taken, TypeOK
  <2>3. QED
    BY <1>1, <2>1, <2>2 DEF LoseTask
<1>7. CASE \E a \in Attempt : CloseReview(a)
  BY <1>1, <1>7 DEF CloseReview
<1>8. CASE GrantReadiness \/ WithdrawReadiness
  <2>1. /\ attempts' = attempts /\ op' = op /\ tasks' = tasks
        /\ job.status # "ABSENT" /\ job'.status # "ABSENT" /\ job'.active = job.active
    BY <1>0, <1>8 DEF GrantReadiness, WithdrawReadiness, Job
  <2>2. QED
    BY <2>1 DEF Rows, Names, At, CanQueue
<1>9. CASE UNCHANGED vars
  BY <1>1, <1>9 DEF vars
<1>10. QED
  BY <1>2, <1>3, <1>4, <1>5, <1>6, <1>7, <1>8, <1>9 DEF Next

-----------------------------------------------------------------------------
(* What a step does while the job stays quiet *)

\* What was overwritten once stays overwritten.
LEMMA OverwroteStays ==
    ASSUME [Next]_vars, overwrote
    PROVE  overwrote'
BY DEF Next, vars, Starts, CreateJob, ResolveJob, CancelReads, RetryReads, DeleteReads,
     Proceeds, AppendFirstAttempt, QueueFindsAttempt, QueueSaves,
     CancelFindsAttempt, CancelMarksAttempt, CancelSaves, RetryAppends, RetrySaves,
     DeleteCommits, RequestRefused, RunStage, SkipStage, StageRefused,
     StageFails, StageAdvances, StageEndsRun, RequestDies, LoseTask, CloseReview,
     GrantReadiness, WithdrawReadiness, SaveJob, Overwrites

\* Quiet is never regained, and a quiet step loses nothing.
LEMMA QuietStep ==
    ASSUME TypeOK, [Next]_vars, Quiet'
    PROVE  /\ Quiet
           /\ \A o \in Operators : ~RequestDies(o)
           /\ \A a \in Attempt, s \in Stage : ~LoseTask(a, s)
<1>1. ~Fault
  BY PipelineAssumption DEF Fault, Quiet, TypeOK
<1>2. faults' = faults \/ Fault
  BY DEF Next, vars, Starts, CreateJob, ResolveJob, CancelReads, RetryReads, DeleteReads,
     Proceeds, AppendFirstAttempt, QueueFindsAttempt, QueueSaves,
     CancelFindsAttempt, CancelMarksAttempt, CancelSaves, RetryAppends, RetrySaves,
     DeleteCommits, RequestRefused, RunStage, SkipStage, StageRefused,
     StageFails, StageAdvances, StageEndsRun, RequestDies, LoseTask, CloseReview,
     GrantReadiness, WithdrawReadiness
<1>3. overwrote => overwrote'
  BY OverwroteStays
<1>4. QED
  BY <1>1, <1>2, <1>3 DEF Quiet, RequestDies, LoseTask

\* A save that overwrites nothing finds what the request read.  (The lemmas of
\* this section ask for that only: tasks may be lost and requests may die.)
LEMMA QuietSave ==
    ASSUME NEW o \in Operators, Overwrites(o), ~overwrote'
    PROVE  op[o].job = job
BY DEF Overwrites

\* A request that only moves on, or marks an attempt row.
LEMMA QuietMoves ==
    ASSUME NEW o \in Operators, ~overwrote',
           \/ AppendFirstAttempt(o) \/ QueueFindsAttempt(o) \/ CancelFindsAttempt(o)
           \/ CancelMarksAttempt(o) \/ RetryAppends(o) \/ RequestRefused(o)
    PROVE  /\ job' = job /\ tasks' = tasks /\ results' = results
           /\ CancelMarksAttempt(o) => op[o].job = job
BY QuietSave
DEF AppendFirstAttempt, QueueFindsAttempt, CancelFindsAttempt, CancelMarksAttempt,
    RetryAppends, RequestRefused

\* The saves: what each makes of the row it read, which is the row there is.
LEMMA QuietSaves ==
    ASSUME IInv, NEW o \in Operators, Proceeds(o), ~overwrote', NEW k, SaveJob(o, k)
    PROVE  op[o].job = job /\ job' = k /\ job \in Job /\ op[o].pc \in Steps
BY QuietSave, ProceedsEffect DEF SaveJob, IInv, TypeOK

LEMMA QuietQueue ==
    ASSUME IInv, Rows, NEW o \in Operators, QueueSaves(o), ~overwrote'
    PROVE  /\ op[o].job = job /\ job.stage \in Early /\ job.status \notin Immutable
           /\ job'.stage = Queued /\ job'.status = job.status
           /\ job'.active = job.active /\ job'.import = job.import
           /\ results' = results
<1>1. Proceeds(o)
  BY DEF Proceeds
<1>2. op[o].job = job /\ job' = QueuedJob(job) /\ job \in Job /\ CanQueue(job)
  BY <1>1, QuietSaves DEF QueueSaves, Rows, Names
<1>3. QED
  BY <1>2 DEF QueuedJob, CanQueue, Job, QueueSaves

LEMMA QuietCancel ==
    ASSUME IInv, NEW o \in Operators, CancelSaves(o), ~overwrote'
    PROVE  /\ op[o].job = job
           /\ job'.stage = job.stage /\ job'.active = job.active
           /\ job'.import = job.import
           /\ job.stage \in Early => job'.status = "CANCELLED"
           /\ job.stage \notin Early => job'.status = job.status
           /\ tasks' = tasks /\ results' = results
<1>1. Proceeds(o)
  BY DEF Proceeds
<1>2. op[o].job = job /\ job' = CancelledJob(job) /\ job \in Job
  BY <1>1, QuietSaves DEF CancelSaves
<1>3. QED
  BY <1>2 DEF CancelledJob, Job, CancelSaves

LEMMA QuietRestart ==
    ASSUME IInv, NEW o \in Operators, RetrySaves(o), ~overwrote'
    PROVE  /\ op[o].job = job
           /\ job'.stage = Queued /\ job'.active = job.active + 1
           /\ job'.import = job.import /\ job'.status = "ACTIVE"
           /\ job.active + 1 \in Attempt
           /\ results' = results
<1>1. Proceeds(o) /\ AtStatement
  BY DEF Proceeds, IInv
<1>2. op[o].job = job /\ job' = RestartedJob(job) /\ job \in Job
  BY <1>1, QuietSaves DEF RetrySaves
<1>3. job.active < MaxAttempts
  BY <1>1, <1>2 DEF RetrySaves, At, AtStatement
<1>4. job.active + 1 \in Attempt
  BY <1>2, <1>3, PipelineAssumption DEF Job, Attempt
<1>5. results' = results
  BY DEF RetrySaves
<1>6. QED
  BY <1>2, <1>4, <1>5 DEF RestartedJob, Job

LEMMA QuietDelete ==
    ASSUME IInv, NEW o \in Operators, DeleteCommits(o), ~overwrote'
    PROVE  /\ op[o].job = job
           /\ job'.stage = job.stage /\ job'.active = job.active
           /\ job'.import = FALSE /\ job'.status = "DELETED"
           /\ tasks' = tasks /\ results' = results
<1>1. Proceeds(o)
  BY DEF Proceeds
<1>2. op[o].job = job /\ job' = DeletedJob(job) /\ job \in Job
  BY <1>1, QuietSaves DEF DeleteCommits
<1>3. QED
  BY <1>2 DEF DeletedJob, CancelledJob, Job, DeleteCommits

\* The active number only grows, one at a time, and no request adds a result.
LEMMA QuietProceeds ==
    ASSUME IInv, Rows, NEW o \in Operators, Proceeds(o), ~overwrote'
    PROVE  /\ results' = results /\ job.active \in Attempt
           /\ job'.active = job.active \/ job'.active = job.active + 1
<1>1. job.active \in Attempt
  <2>1. TypeOK /\ AtStatement /\ job \in Job
    BY DEF IInv, TypeOK
  <2>2. op[o] # Idle
    BY <2>1, ProceedsEffect
  <2>3. QED
    BY <2>1, <2>2, PipelineAssumption DEF IInv, Links, Rows, Job, Attempt
<1>2. QED
  BY <1>1, QuietMoves, QuietQueue, QuietCancel, QuietRestart, QuietDelete DEF Proceeds

\* A dispatch leaves every queue as long as it was, and one longer.
LEMMA DispatchEffect ==
    ASSUME NEW q \in [Attempt \X Stage -> 0..TaskCap], NEW a \in Attempt, NEW s \in Stage,
           Dispatch(q, a, s)
    PROVE  /\ tasks'[<<a, s>>] > 0
           /\ \A b \in Attempt, u \in Stage :
                 <<b, u>> # <<a, s>> => tasks'[<<b, u>>] = q[<<b, u>>]
<1>1. q[<<a, s>>] \in 0..TaskCap
  OBVIOUS
<1>2. tasks' = [q EXCEPT ![<<a, s>>] = @ + 1]
  BY DEF Dispatch
<1>3. tasks'[<<a, s>>] = q[<<a, s>>] + 1
  BY <1>2
<1>4. tasks'[<<a, s>>] > 0
  BY <1>1, <1>3, PipelineAssumption
<1>5. QED
  BY <1>2, <1>4

\* A stage task that is not ignored runs a stage of the active attempt.
LEMMA StageEffect ==
    ASSUME IInv, Rows, NEW a \in Attempt, NEW s \in Stage, RunStage(a, s)
    PROVE  /\ op' = op /\ job \in Job /\ job.active \in Attempt
           /\ tasks[<<a, s>>] > 0 /\ attempts[a] # "none"
           /\ \A b \in Attempt, u \in Stage :
                 /\ tasks'[<<b, u>>] > 0 =>
                       tasks[<<b, u>>] > 0 \/ (StageAdvances(a, s) /\ b = a /\ u = s + 1)
                 /\ tasks[<<b, u>>] > 0 /\ <<b, u>> # <<a, s>> => tasks'[<<b, u>>] > 0
           /\ SkipStage(a, s) =>
                 Ignores(a, s) /\ UNCHANGED <<job, attempts, results>>
           /\ ~SkipStage(a, s) =>
                 /\ a = job.active /\ <<a, s>> \notin results
                 /\ job.status \notin {"DELETED", "CANCELLED"}
                 /\ job'.active = job.active /\ job'.import = job.import
                 /\ \E v \in {"failed", "pending", "succeeded"} :
                       attempts' = [attempts EXCEPT ![a] = v]
           /\ StageRefused(a, s) =>
                 /\ ~CanBegin(job, a, s)
                 /\ job'.status = "FAILED" /\ job'.stage = job.stage /\ results' = results
           /\ (\E failure \in {"retryable", "final"} : StageFails(a, s, failure)) =>
                 job'.status = "FAILED" /\ job'.stage = s /\ results' = results
           /\ StageAdvances(a, s) =>
                 /\ job'.status = job.status /\ job'.stage = s + 1 /\ s + 1 \in Stage
                 /\ results' = results \cup {<<a, s>>} /\ tasks'[<<a, s + 1>>] > 0
           /\ StageEndsRun(a, s) =>
                 /\ job'.status = "READY_FOR_REVIEW" /\ job'.stage = s
                 /\ results' = results \cup {<<a, s>>}
<1>1. TypeOK /\ job \in Job /\ tasks \in [Attempt \X Stage -> 0..TaskCap]
  BY DEF IInv, TypeOK
<1>2. op' = op /\ tasks[<<a, s>>] > 0 /\ attempts[a] # "none"
  BY DEF RunStage, SkipStage, StageRefused, StageFails, StageAdvances, StageEndsRun,
     Takes, Rows
<1>3. job.active \in Attempt
  BY <1>1, <1>2, PipelineAssumption DEF Rows, Job, Attempt
<1>4. /\ Taken(a, s) \in [Attempt \X Stage -> 0..TaskCap]
      /\ \A b \in Attempt, u \in Stage :
            /\ Taken(a, s)[<<b, u>>] > 0 => tasks[<<b, u>>] > 0
            /\ <<b, u>> # <<a, s>> => Taken(a, s)[<<b, u>>] = tasks[<<b, u>>]
  <2>1. Taken(a, s) \in [Attempt \X Stage -> 0..TaskCap]
    BY <1>1, <1>2, TaskQueues DEF Takes
  <2>2. Taken(a, s) = [tasks EXCEPT ![<<a, s>>] = @ - 1]
    BY DEF Taken
  <2>3. \A b \in Attempt, u \in Stage :
           <<b, u>> # <<a, s>> => Taken(a, s)[<<b, u>>] = tasks[<<b, u>>]
    BY <1>1, <2>2
  <2>4. QED
    BY <1>2, <2>1, <2>3
<1>5. StageAdvances(a, s) => s + 1 \in Stage
  BY PipelineAssumption DEF StageAdvances, Stage, Inspecting
<1>6. ASSUME StageAdvances(a, s)
      PROVE  /\ tasks'[<<a, s + 1>>] > 0
             /\ \A b \in Attempt, u \in Stage :
                   <<b, u>> # <<a, s + 1>> => tasks'[<<b, u>>] = Taken(a, s)[<<b, u>>]
  <2>1. Dispatch(Taken(a, s), a, s + 1)
    BY <1>6 DEF StageAdvances
  <2>2. QED
    BY <1>4, <1>5, <1>6, <2>1, DispatchEffect
<1>7. ~StageAdvances(a, s) => tasks' = Taken(a, s)
  BY DEF RunStage, SkipStage, StageRefused, StageFails, StageEndsRun
<1>8. ASSUME NEW b \in Attempt, NEW u \in Stage
      PROVE  /\ tasks'[<<b, u>>] > 0 =>
                   tasks[<<b, u>>] > 0 \/ (StageAdvances(a, s) /\ b = a /\ u = s + 1)
             /\ tasks[<<b, u>>] > 0 /\ <<b, u>> # <<a, s>> => tasks'[<<b, u>>] > 0
  <2>1. CASE StageAdvances(a, s)
    BY <1>4, <1>6, <2>1
  <2>2. CASE ~StageAdvances(a, s)
    BY <1>4, <1>7, <2>2
  <2>3. QED
    BY <2>1, <2>2
<1>9. SkipStage(a, s) => Ignores(a, s) /\ UNCHANGED <<job, attempts, results>>
  BY DEF SkipStage
<1>10. ~SkipStage(a, s) =>
          /\ a = job.active /\ <<a, s>> \notin results
          /\ job.status \notin {"DELETED", "CANCELLED"}
  BY DEF RunStage, StageRefused, StageFails, StageAdvances, StageEndsRun, Ignores
<1>11. ~SkipStage(a, s) =>
          /\ job'.active = job.active /\ job'.import = job.import
          /\ \E v \in {"failed", "pending", "succeeded"} :
                attempts' = [attempts EXCEPT ![a] = v]
  BY <1>1 DEF RunStage, StageRefused, StageFails, StageAdvances, StageEndsRun, FailedJob, Job
<1>12. StageRefused(a, s) =>
          /\ ~CanBegin(job, a, s)
          /\ job'.status = "FAILED" /\ job'.stage = job.stage /\ results' = results
  BY <1>1 DEF StageRefused, FailedJob, Job
<1>13. (\E failure \in {"retryable", "final"} : StageFails(a, s, failure)) =>
          job'.status = "FAILED" /\ job'.stage = s /\ results' = results
  BY <1>1 DEF StageFails, FailedJob, Job
<1>14. StageAdvances(a, s) =>
          job'.status = job.status /\ job'.stage = s + 1 /\ results' = results \cup {<<a, s>>}
  BY <1>1 DEF StageAdvances, Job
<1>15. StageEndsRun(a, s) =>
          /\ job'.status = "READY_FOR_REVIEW" /\ job'.stage = s
          /\ results' = results \cup {<<a, s>>}
  BY <1>1 DEF StageEndsRun, Job
<1>16. QED
  BY <1>1, <1>2, <1>3, <1>5, <1>6, <1>8, <1>9, <1>10, <1>11, <1>12, <1>13, <1>14, <1>15

-----------------------------------------------------------------------------
(* Numbers: nothing is ahead of the row *)

\* While the active number only grows, a request that does not move stays behind it.
LEMMA NumbersStay ==
    ASSUME TypeOK, Numbers, job'.active \in Nat, job'.active >= job.active,
           NEW p \in Operators, op'[p] = op[p]
    PROVE  /\ op'[p] # Idle => op'[p].job.active <= job'.active
           /\ op'[p].pc \in {"queueing", "cancelling", "cancelled"} => op'[p].att <= job'.active
           /\ op'[p].pc = "queueing" => op'[p].job.active <= op'[p].att
<1>1. job.active \in Nat
  BY DEF TypeOK, Job
<1>2. op[p] # Idle => op[p].job.active \in Nat
  BY InFlight DEF TypeOK, Job
<1>3. op[p].pc \in Steps => op[p].att \in Nat
  BY InFlight DEF TypeOK
<1>4. QED
  BY <1>1, <1>2, <1>3 DEF Numbers, At, Steps

LEMMA NumbersNext ==
    ASSUME IInv, Rows, Numbers, [Next]_vars, ~overwrote'
    PROVE  Numbers'
<1>0. TypeOK /\ job \in Job /\ job.active \in Nat /\ Attempt \subseteq Nat
  BY DEF IInv, TypeOK, Job, Attempt
<1>1. ASSUME job'.active = job.active, op' = op, results' = results,
             \A a \in Attempt, s \in Stage : tasks'[<<a, s>>] > 0 => tasks[<<a, s>>] > 0
      PROVE  Numbers'
  BY <1>1 DEF Numbers, At
<1>2. CASE \E o \in Operators : Starts(o)
  <2>1. PICK o \in Operators : Starts(o)
    BY <1>2
  <2>2. /\ op'[o].job = job' /\ op'[o] # Idle
        /\ \A p \in Operators : p # o => op'[p] = op[p]
        /\ op'[o].pc \in {"first", "queue", "cancel", "retry", "delete"}
        /\ op'[o].pc = "first" => job.status = "ABSENT" /\ job'.active = 1
        /\ op'[o].pc # "first" => job' = job
        /\ tasks' = tasks /\ results' = results
    BY <2>1, StartsEffect DEF IInv
  <2>3. job'.active \in Nat /\ job'.active >= job.active
    BY <1>0, <2>2 DEF IInv, Links, NoJob
  <2>4. \A a \in Attempt : a <= job.active => a <= job'.active
    BY <1>0, <2>3
  <2>5. \A p \in Operators : p # o =>
           /\ op'[p] # Idle => op'[p].job.active <= job'.active
           /\ op'[p].pc \in {"queueing", "cancelling", "cancelled"} => op'[p].att <= job'.active
           /\ op'[p].pc = "queueing" => op'[p].job.active <= op'[p].att
    BY <1>0, <2>2, <2>3, NumbersStay
  <2>6. QED
    BY <2>2, <2>3, <2>4, <2>5 DEF Numbers, At
<1>3. CASE \E o \in Operators : Proceeds(o)
  <2>1. PICK o \in Operators : Proceeds(o)
    BY <1>3
  <2>a. TypeOK /\ AtStatement
    BY DEF IInv
  <2>2. /\ op[o].pc \in Steps /\ op[o] # Idle
        /\ op[o].job \in Job /\ op[o].att \in 0..MaxAttempts
        /\ \A p \in Operators : p # o => op'[p] = op[p]
    BY <2>1, <2>a, ProceedsEffect
  <2>3. job'.active \in Nat /\ job'.active >= job.active /\ results' = results
        /\ job.active \in Attempt
    <3>1. /\ results' = results /\ job.active \in Attempt
          /\ job'.active = job.active \/ job'.active = job.active + 1
      BY <2>1, QuietProceeds
    <3>2. QED
      BY <1>0, <3>1
  <2>4. \A a \in Attempt : a <= job.active => a <= job'.active
    BY <1>0, <2>3
  <2>5. \A p \in Operators : p # o =>
           /\ op'[p] # Idle => op'[p].job.active <= job'.active
           /\ op'[p].pc \in {"queueing", "cancelling", "cancelled"} => op'[p].att <= job'.active
           /\ op'[p].pc = "queueing" => op'[p].job.active <= op'[p].att
    BY <1>0, <2>2, <2>3, NumbersStay
  <2>6. /\ op'[o] # Idle => op'[o].job.active <= job'.active
        /\ op'[o].pc \in {"queueing", "cancelling", "cancelled"} => op'[o].att <= job'.active
        /\ op'[o].pc = "queueing" => op'[o].job.active <= op'[o].att
    <3>1. op[o].job.active \in Nat /\ op[o].job.active <= job.active
          /\ op[o].job.active <= job'.active
      BY <1>0, <2>2, <2>3 DEF Numbers, Job
    <3>2. CASE op'[o] = Idle
      BY <3>2 DEF Idle
    <3>3. CASE AppendFirstAttempt(o) \/ RetryAppends(o)
      <4>1. \/ op'[o] = [pc |-> "queue", job |-> op[o].job, att |-> 0]
            \/ op'[o] = [pc |-> "retried", job |-> op[o].job, att |-> op[o].job.active + 1]
        BY <2>1, <2>a, <3>3, ProceedsEffect
      <4>2. QED
        BY <3>1, <4>1
    <3>4. CASE QueueFindsAttempt(o) \/ CancelFindsAttempt(o)
      <4>1. \/ op'[o] = [pc |-> "queueing", job |-> op[o].job, att |-> ActiveAttempt]
               /\ ActiveAttempt # 0
            \/ op'[o] = [pc |-> "cancelling", job |-> op[o].job, att |-> ActiveAttempt]
        BY <2>1, <2>a, <3>4, ProceedsEffect DEF QueueFindsAttempt
      <4>2. ActiveAttempt \in {0, job.active}
        BY DEF ActiveAttempt
      <4>3. job' = job
        BY <3>4, QuietMoves
      <4>4. QED
        BY <1>0, <3>1, <4>1, <4>2, <4>3
    <3>5. CASE CancelMarksAttempt(o)
      <4>1. op'[o] = [pc |-> "cancelled", job |-> op[o].job, att |-> op[o].att]
        BY <2>1, <2>a, <3>5, ProceedsEffect
      <4>2. op[o].att <= job.active /\ op[o].att \in Nat
        BY <2>2, <3>5 DEF CancelMarksAttempt, At, Numbers
      <4>3. job' = job
        BY <3>5, QuietMoves
      <4>4. QED
        BY <3>1, <4>1, <4>2, <4>3
    <3>6. CASE RetrySaves(o)
      <4>1. op'[o] = [pc |-> "queue", job |-> RestartedJob(op[o].job), att |-> 0]
        BY <2>1, <2>a, <3>6, ProceedsEffect
      <4>2. job' = RestartedJob(op[o].job)
        BY <3>6 DEF RetrySaves, SaveJob
      <4>3. QED
        BY <2>3, <4>1, <4>2
    <3>7. QED
      BY <2>1, <2>a, <3>2, <3>3, <3>4, <3>5, <3>6, ProceedsEffect DEF Proceeds
  <2>7. ASSUME NEW a \in Attempt, NEW s \in Stage, tasks'[<<a, s>>] > 0
        PROVE  a <= job'.active
    <3>1. CASE tasks' = tasks
      BY <2>4, <2>7, <3>1 DEF Numbers
    <3>2. CASE \E b \in Attempt, u \in Stage : b <= job'.active /\ Dispatch(tasks, b, u)
      <4>1. PICK b \in Attempt, u \in Stage : b <= job'.active /\ Dispatch(tasks, b, u)
        BY <3>2
      <4>2. <<a, s>> # <<b, u>> => tasks'[<<a, s>>] = tasks[<<a, s>>]
        BY <1>0, <4>1, DispatchEffect DEF TypeOK
      <4>3. QED
        BY <2>4, <2>7, <4>1, <4>2 DEF Numbers
    <3>3. Inspecting \in Stage
      BY PipelineAssumption DEF Stage, Inspecting
    <3>4. CASE QueueSaves(o)
      <4>1. op[o].att \in Attempt /\ op[o].att <= job'.active
        BY <2>a, <3>4, QuietQueue DEF QueueSaves, At, AtStatement, Numbers
      <4>2. QED
        BY <3>2, <3>3, <3>4, <4>1 DEF QueueSaves
    <3>5. RetrySaves(o) => tasks' = tasks
      BY DEF RetrySaves
    <3>6. QED
      BY <2>1, <3>1, <3>4, <3>5, QuietMoves, QuietCancel, QuietDelete DEF Proceeds
  <2>8. QED
    BY <2>3, <2>4, <2>5, <2>6, <2>7 DEF Numbers, At
<1>4. CASE \E a \in Attempt, s \in Stage : RunStage(a, s)
  <2>1. PICK a \in Attempt, s \in Stage : RunStage(a, s)
    BY <1>4
  <2>2. CASE SkipStage(a, s)
    <3>1. op' = op /\ job' = job /\ results' = results
      BY <2>1, <2>2, StageEffect
    <3>2. ~StageAdvances(a, s)
      BY <2>2 DEF SkipStage, StageAdvances
    <3>3. QED
      BY <1>1, <2>1, <3>1, <3>2, StageEffect
  <2>3. CASE ~SkipStage(a, s)
    <3>1. /\ op' = op /\ a = job.active /\ job'.active = job.active
          /\ results' \subseteq results \cup {<<a, s>>}
      BY <2>1, <2>3, StageEffect DEF RunStage
    <3>2. \A b \in Attempt, u \in Stage :
             tasks'[<<b, u>>] > 0 => tasks[<<b, u>>] > 0 \/ b = a
      BY <2>1, StageEffect
    <3>3. a <= job.active
      BY <1>0, <3>1
    <3>4. QED
      BY <3>1, <3>2, <3>3 DEF Numbers, At
  <2>4. QED
    BY <2>2, <2>3
<1>5. CASE \E a \in Attempt : CloseReview(a)
  BY <1>1, <1>5 DEF CloseReview
<1>6. CASE GrantReadiness \/ WithdrawReadiness
  <2>1. job'.active = job.active
    BY <1>0, <1>6 DEF GrantReadiness, WithdrawReadiness, Job
  <2>2. QED
    BY <1>1, <1>6, <2>1 DEF GrantReadiness, WithdrawReadiness
<1>7. CASE UNCHANGED vars
  BY <1>1, <1>7 DEF vars
<1>8. CASE \E o \in Operators : RequestDies(o)
  <2>1. PICK o \in Operators : RequestDies(o)
    BY <1>8
  <2>2. op'[o] = Idle /\ \A p \in Operators : p # o => op'[p] = op[p]
    BY <1>0, <2>1, DoneType DEF RequestDies, TypeOK
  <2>3. job' = job /\ tasks' = tasks /\ results' = results
    BY <2>1 DEF RequestDies
  <2>4. QED
    BY <2>2, <2>3 DEF Numbers, At, Idle
<1>9. CASE \E a \in Attempt, s \in Stage : LoseTask(a, s)
  <2>1. PICK a \in Attempt, s \in Stage : LoseTask(a, s)
    BY <1>9
  <2>2. \A b \in Attempt, u \in Stage : tasks'[<<b, u>>] > 0 => tasks[<<b, u>>] > 0
    BY <1>0, <2>1, PipelineAssumption DEF LoseTask, Taken, TypeOK
  <2>3. QED
    BY <1>1, <2>1, <2>2 DEF LoseTask
<1>10. QED
  BY <1>2, <1>3, <1>4, <1>5, <1>6, <1>7, <1>8, <1>9 DEF Next

-----------------------------------------------------------------------------
(* Frontier: a task that is still to run is for the stage the row is at *)

\* Before the first stage the active attempt has no result, and no task but
\* the first stage's; the run of such a job has not ended.
LEMMA EarlyFrontier ==
    ASSUME IInv, Frontier, job.active \in Attempt, job.stage \in Early
    PROVE  /\ \A s \in Stage : <<job.active, s>> \notin results
           /\ job.status \notin {"READY_FOR_REVIEW", "READY_FOR_TEACHING"}
<1>1. \A s \in Stage : ~(s <= job.stage)
  BY PipelineAssumption DEF Early, Created, Queued, Stage, Inspecting
<1>2. ReviewStage \in Stage
  BY PipelineAssumption DEF Stage, Inspecting
<1>3. QED
  BY <1>1, <1>2 DEF Frontier, IInv, AllBacked, Backed

LEMMA FrontierProceeds ==
    ASSUME IInv, Rows, Numbers, Frontier, NEW o \in Operators, Proceeds(o), ~overwrote'
    PROVE  Frontier'
<1>0. /\ results' = results /\ job.active \in Attempt /\ tasks \in [Attempt \X Stage -> 0..TaskCap]
      /\ AtStatement /\ Inspecting \in Stage /\ job.active \in Nat
  BY QuietProceeds, PipelineAssumption DEF IInv, TypeOK, Stage, Inspecting, Job
<1>1. ASSUME tasks' = tasks, job'.stage = job.stage, job'.active = job.active,
             job'.status \notin {"READY_FOR_REVIEW", "READY_FOR_TEACHING"}
                \/ job'.status = job.status
      PROVE  Frontier'
  BY <1>0, <1>1 DEF Frontier, AtFrontier
<1>2. ASSUME job'.active = job.active + 1, job'.status = "ACTIVE", job'.stage = Queued,
             \A a \in Attempt, s \in Stage :
                tasks'[<<a, s>>] > 0 => tasks[<<a, s>>] > 0 \/ s = Inspecting
      PROVE  Frontier'
  <2>1. job.active + 1 \in Nat /\ ~(job.active + 1 <= job.active)
    BY <1>0
  <2>2. \A s \in Stage : <<job'.active, s>> \notin results'
    <3>1. <<job'.active, Inspecting>> \in results => job'.active \in Attempt
      BY DEF IInv, TypeOK
    <3>2. \A s \in Stage : <<job'.active, s>> \in results => job'.active \in Attempt
      BY DEF IInv, TypeOK
    <3>3. QED
      BY <1>0, <1>2, <2>1, <3>2 DEF Numbers
  <2>3. \A a \in Attempt, s \in Stage :
           a = job'.active /\ tasks'[<<a, s>>] > 0 => s = Inspecting
    BY <1>2, <2>1 DEF Numbers
  <2>4. QED
    BY <1>2, <2>2, <2>3 DEF Frontier, AtFrontier
<1>3. CASE QueueSaves(o)
  <2>1. /\ job.stage \in Early
        /\ job'.stage = Queued /\ job'.status = job.status /\ job'.active = job.active
    BY <1>3, QuietQueue
  <2>2. /\ \A s \in Stage : <<job.active, s>> \notin results
        /\ job.status \notin {"READY_FOR_REVIEW", "READY_FOR_TEACHING"}
    BY <1>0, <2>1, EarlyFrontier
  <2>3. op[o].att \in Attempt /\ Dispatch(tasks, op[o].att, Inspecting)
    BY <1>0, <1>3 DEF QueueSaves, At, AtStatement
  <2>4. \A a \in Attempt, s \in Stage :
           tasks'[<<a, s>>] > 0 => tasks[<<a, s>>] > 0 \/ s = Inspecting
    <3>1. \A a \in Attempt, s \in Stage :
             <<a, s>> # <<op[o].att, Inspecting>> => tasks'[<<a, s>>] = tasks[<<a, s>>]
      BY <1>0, <2>3, DispatchEffect
    <3>2. QED
      BY <3>1
  <2>5. \A s \in Stage : s # job.stage
    BY <2>1, PipelineAssumption DEF Early, Created, Queued, Stage, Inspecting
  <2>6. QED
    BY <1>0, <2>1, <2>2, <2>4, <2>5 DEF Frontier, AtFrontier
<1>4. CASE CancelSaves(o)
  BY <1>1, <1>4, QuietCancel
<1>5. CASE DeleteCommits(o)
  BY <1>1, <1>5, QuietDelete
<1>6. CASE RetrySaves(o)
  BY <1>2, <1>6, QuietRestart DEF RetrySaves
<1>7. QED
  BY <1>1, <1>3, <1>4, <1>5, <1>6, QuietMoves DEF Proceeds

LEMMA FrontierRunStage ==
    ASSUME IInv, Rows, Frontier, NEW a \in Attempt, NEW s \in Stage, RunStage(a, s)
    PROVE  Frontier'
<1>1. CASE SkipStage(a, s)
  <2>1. UNCHANGED <<job, results>> /\ ~StageAdvances(a, s)
    BY <1>1, StageEffect DEF SkipStage, StageAdvances
  <2>2. \A b \in Attempt, u \in Stage : tasks'[<<b, u>>] > 0 => tasks[<<b, u>>] > 0
    BY <2>1, StageEffect
  <2>3. QED
    BY <2>1, <2>2 DEF Frontier, AtFrontier
<1>2. CASE ~SkipStage(a, s)
  <2>1. /\ a = job.active /\ <<a, s>> \notin results /\ job'.active = a
        /\ tasks[<<a, s>>] > 0
        /\ \A u \in Stage : tasks'[<<a, u>>] > 0 =>
              tasks[<<a, u>>] > 0 \/ (StageAdvances(a, s) /\ u = s + 1)
    BY <1>2, StageEffect
  <2>2. AtFrontier(s)
    BY <2>1 DEF Frontier
  <2>3. \A u \in Stage : tasks[<<a, u>>] > 0 /\ <<a, u>> \notin results => u = s
    <3>1. \A u \in Stage : u # Queued
      BY PipelineAssumption DEF Stage, Inspecting, Queued
    <3>2. \A u \in Stage : tasks[<<a, u>>] > 0 /\ <<a, u>> \notin results => AtFrontier(u)
      BY <2>1 DEF Frontier
    <3>3. QED
      BY <2>2, <3>1, <3>2 DEF AtFrontier
  <2>4. \A u \in Stage : <<a, u>> \in results => u <= s
    <3>1. \A u \in Stage : u <= Queued => u <= s
      BY PipelineAssumption DEF Stage, Inspecting, Queued
    <3>2. QED
      BY <2>1, <2>2, <3>1 DEF Frontier, AtFrontier
  <2>5. s \in Nat /\ s # s + 1 /\ s <= s /\ s <= s + 1 /\ \A u \in Stage : u <= s => u <= s + 1
    BY PipelineAssumption DEF Stage, Inspecting
  <2>6. CASE StageRefused(a, s)
    <3>1. job'.status = "FAILED" /\ job'.stage = job.stage /\ results' = results
          /\ ~StageAdvances(a, s)
      BY <2>6, StageEffect DEF StageRefused, StageAdvances
    <3>2. QED
      BY <2>1, <3>1 DEF Frontier, AtFrontier
  <2>7. CASE \E failure \in {"retryable", "final"} : StageFails(a, s, failure)
    <3>1. job'.status = "FAILED" /\ job'.stage = s /\ results' = results
      BY <2>7, StageEffect
    <3>2. ~StageAdvances(a, s)
      <4>1. StageAdvances(a, s) => job'.stage = s + 1
        BY StageEffect
      <4>2. QED
        BY <2>5, <3>1, <4>1
    <3>3. QED
      BY <2>1, <2>3, <2>4, <3>1, <3>2 DEF Frontier, AtFrontier
  <2>8. CASE StageAdvances(a, s)
    <3>1. /\ job'.status = job.status /\ job'.stage = s + 1 /\ s + 1 \in Stage
          /\ results' = results \cup {<<a, s>>}
      BY <2>8, StageEffect
    <3>2. \A u \in Stage : <<a, u>> \in results' => u <= s + 1
      BY <2>4, <2>5, <3>1
    <3>3. \A u \in Stage : tasks'[<<a, u>>] > 0 /\ <<a, u>> \notin results' => u = s + 1
      BY <2>1, <2>3, <3>1
    <3>4. QED
      BY <2>1, <2>2, <3>1, <3>2, <3>3 DEF Frontier, AtFrontier
  <2>9. CASE StageEndsRun(a, s)
    <3>1. /\ job'.stage = s /\ results' = results \cup {<<a, s>>}
          /\ job'.status = "READY_FOR_REVIEW"
      BY <2>9, StageEffect
    <3>2. ~StageAdvances(a, s)
      <4>1. StageAdvances(a, s) => job'.stage = s + 1
        BY StageEffect
      <4>2. QED
        BY <2>5, <3>1, <4>1
    <3>3. \A u \in Stage : <<a, u>> \in results' => u <= s
      BY <2>4, <2>5, <3>1
    <3>4. \A u \in Stage : ~(tasks'[<<a, u>>] > 0 /\ <<a, u>> \notin results')
      BY <2>1, <2>3, <3>1, <3>2
    <3>5. QED
      BY <2>1, <3>1, <3>3, <3>4 DEF Frontier
  <2>10. QED
    BY <1>2, <2>6, <2>7, <2>8, <2>9 DEF RunStage
<1>3. QED
  BY <1>1, <1>2

LEMMA FrontierNext ==
    ASSUME IInv, Rows, Numbers, Frontier, [Next]_vars, ~overwrote'
    PROVE  Frontier'
<1>1. ASSUME job' = job, results' = results, tasks' = tasks
      PROVE  Frontier'
  BY <1>1 DEF Frontier, AtFrontier
<1>2. CASE \E o \in Operators : Starts(o)
  <2>1. PICK o \in Operators : Starts(o)
    BY <1>2
  <2>2. /\ tasks' = tasks /\ results' = results
        /\ job' = job \/ (job.status = "ABSENT" /\ job'.active = 1)
    BY <2>1, StartsEffect DEF IInv
  <2>3. ASSUME job.status = "ABSENT", job'.active = 1
        PROVE  Frontier'
    <3>1. job.active = 0 /\ \A a \in Attempt, s \in Stage : ~(tasks[<<a, s>>] > 0)
      BY <2>3 DEF IInv, Links, NoJob, Rows
    <3>2. \A a \in Attempt, s \in Stage : <<a, s>> \notin results
      <4>1. \A a \in Attempt : ~(a <= job.active)
        BY <3>1, PipelineAssumption DEF Attempt
      <4>2. QED
        BY <4>1 DEF Numbers
    <3>3. 1 \in Attempt
      BY PipelineAssumption DEF Attempt
    <3>4. QED
      BY <2>2, <2>3, <3>1, <3>2, <3>3 DEF Frontier
  <2>4. QED
    BY <1>1, <2>2, <2>3
<1>3. CASE \E o \in Operators : Proceeds(o)
  BY <1>3, FrontierProceeds
<1>4. CASE \E a \in Attempt, s \in Stage : RunStage(a, s)
  BY <1>4, FrontierRunStage
<1>5. CASE \E a \in Attempt : CloseReview(a)
  BY <1>1, <1>5 DEF CloseReview
<1>6. CASE GrantReadiness \/ WithdrawReadiness
  <2>1. /\ job'.active = job.active /\ job'.stage = job.stage
        /\ job.status \in {"READY_FOR_REVIEW", "READY_FOR_TEACHING"}
    BY <1>6 DEF GrantReadiness, WithdrawReadiness, IInv, TypeOK, Job
  <2>2. QED
    BY <1>6, <2>1 DEF GrantReadiness, WithdrawReadiness, Frontier, AtFrontier
<1>7. CASE UNCHANGED vars
  BY <1>1, <1>7 DEF vars
<1>8. CASE \E o \in Operators : RequestDies(o)
  BY <1>1, <1>8 DEF RequestDies
<1>9. CASE \E a \in Attempt, s \in Stage : LoseTask(a, s)
  <2>1. PICK a \in Attempt, s \in Stage : LoseTask(a, s)
    BY <1>9
  <2>2. \A b \in Attempt, u \in Stage : tasks'[<<b, u>>] > 0 => tasks[<<b, u>>] > 0
    BY <2>1, PipelineAssumption DEF LoseTask, Taken, IInv, TypeOK
  <2>3. job' = job /\ results' = results
    BY <2>1 DEF LoseTask
  <2>4. QED
    BY <2>2, <2>3 DEF Frontier, AtFrontier
<1>10. QED
  BY <1>2, <1>3, <1>4, <1>5, <1>6, <1>7, <1>8, <1>9 DEF Next

-----------------------------------------------------------------------------
(* ActiveIsNewest: rows beyond the active one belong to a retry *)

LEMMA NewestNext ==
    ASSUME IInv, Rows, Numbers, ActiveIsNewest, [Next]_vars
    PROVE  ActiveIsNewest'
<1> DEFINE Retrying(a) == \E o \in Operators : At(o, "retried") /\ op[o].att = a
<1>1. SUFFICES ASSUME Quiet', ~overwrote', job'.import, NEW a \in Attempt, a > job'.active,
                      attempts'[a] # "none"
               PROVE  Retrying(a)'
  BY DEF ActiveIsNewest, Quiet
<1>2. /\ Quiet /\ TypeOK /\ AtStatement /\ job \in Job /\ job.active \in Nat
      /\ a \in Nat
  BY <1>1, QuietStep, PipelineAssumption DEF IInv, TypeOK, Job, Attempt
\* The row was there, its number was beyond the active one, and the link too.
<1>3. ASSUME job.import, a > job.active, attempts[a] # "none",
             \A o \in Operators : At(o, "retried") => op'[o] = op[o]
      PROVE  Retrying(a)'
  BY <1>1, <1>2, <1>3 DEF ActiveIsNewest, At
<1>4. CASE \E o \in Operators : Starts(o)
  <2>1. PICK o \in Operators : Starts(o)
    BY <1>4
  <2>2. /\ op[o] = Idle /\ \A p \in Operators : p # o => op'[p] = op[p]
        /\ attempts' = attempts
        /\ job' = job \/ job.status = "ABSENT"
    BY <1>2, <2>1, StartsEffect DEF IInv
  <2>3. job' = job
    BY <1>1, <2>2 DEF Rows
  <2>4. \A p \in Operators : At(p, "retried") => op'[p] = op[p]
    BY <2>2 DEF At, Idle
  <2>5. QED
    BY <1>1, <1>3, <2>2, <2>3, <2>4
<1>5. CASE \E o \in Operators : Proceeds(o)
  <2>1. PICK o \in Operators : Proceeds(o)
    BY <1>5
  <2>2. /\ op[o].job \in Job /\ op[o].att \in 0..MaxAttempts
        /\ \A p \in Operators : p # o => op'[p] = op[p]
    BY <1>2, <2>1, ProceedsEffect
  <2>3. job.active \in Attempt /\ (job'.active = job.active \/ job'.active = job.active + 1)
    BY <1>1, <2>1, QuietProceeds
  <2>4. a > job.active
    BY <1>1, <1>2, <2>3
  \* All but the steps that insert a row, or that end a retry.
  <2>5. ASSUME job.import, attempts[a] # "none", ~At(o, "retried")
        PROVE  Retrying(a)'
    BY <1>3, <2>2, <2>4, <2>5
  <2>6. CASE AppendFirstAttempt(o)
    <3>1. attempts' = [attempts EXCEPT ![1] = "pending"] /\ job' = job
      BY <2>6 DEF AppendFirstAttempt
    <3>2. a # 1
      BY <1>1, <2>3, <3>1, PipelineAssumption DEF Attempt
    <3>3. attempts'[a] = attempts[a]
      BY <1>2, <3>1, <3>2 DEF TypeOK
    <3>4. ~At(o, "retried")
      BY <2>6 DEF AppendFirstAttempt, At
    <3>5. QED
      BY <1>1, <2>5, <3>1, <3>3, <3>4
  <2>7. CASE QueueFindsAttempt(o) \/ CancelFindsAttempt(o)
    BY <1>1, <2>5, <2>7 DEF QueueFindsAttempt, CancelFindsAttempt, At
  <2>8. CASE QueueSaves(o)
    BY <1>1, <2>5, <2>8, QuietQueue DEF QueueSaves, At
  <2>9. CASE CancelMarksAttempt(o)
    <3>1. /\ attempts' = [attempts EXCEPT ![op[o].att] = "cancelled"] /\ job' = job
          /\ ~At(o, "retried")
      BY <2>9 DEF CancelMarksAttempt, At
    <3>2. a # op[o].att
      BY <1>2, <2>2, <2>4, <2>9 DEF CancelMarksAttempt, At, Numbers
    <3>3. attempts'[a] = attempts[a]
      BY <1>2, <3>1, <3>2 DEF TypeOK
    <3>4. QED
      BY <1>1, <2>5, <3>1, <3>3
  <2>10. CASE CancelSaves(o)
    BY <1>1, <2>5, <2>10, QuietCancel DEF CancelSaves, CancelPending, At
  <2>11. CASE RetryAppends(o)
    <3>1. op'[o] = [pc |-> "retried", job |-> op[o].job, att |-> op[o].job.active + 1]
      BY <1>2, <2>1, <2>11, ProceedsEffect
    <3>2. /\ attempts' = [attempts EXCEPT ![op[o].job.active + 1] = "pending"]
          /\ job' = job /\ ~At(o, "retried")
      BY <2>11 DEF RetryAppends, At
    <3>3. CASE a = op[o].job.active + 1
      BY <3>1, <3>3 DEF At
    <3>4. CASE a # op[o].job.active + 1
      <4>1. attempts'[a] = attempts[a]
        BY <1>2, <3>2, <3>4 DEF TypeOK
      <4>2. QED
        BY <1>1, <2>5, <3>2, <4>1
    <3>5. QED
      BY <3>3, <3>4
  <2>12. CASE RetrySaves(o)
    <3>1. /\ op[o].job = job /\ job'.active = job.active + 1 /\ job'.import = job.import
      BY <1>1, <2>12, QuietRestart
    <3>2. attempts[a] # "none"
      BY <1>1, <2>12 DEF RetrySaves
    <3>3. PICK p \in Operators : At(p, "retried") /\ op[p].att = a
      BY <1>1, <1>2, <2>4, <3>1, <3>2 DEF ActiveIsNewest
    <3>4. p # o
      <4>1. At(o, "retried") => op[o].att = job.active + 1
        BY <3>1 DEF Rows, Names
      <4>2. QED
        BY <1>1, <1>2, <3>1, <3>3, <4>1
    <3>5. QED
      BY <2>2, <3>3, <3>4 DEF At
  <2>13. CASE DeleteCommits(o)
    BY <1>1, <2>13, QuietDelete
  <2>14. CASE RequestRefused(o)
    <3>1. job' = job /\ attempts' = attempts
      BY <2>14 DEF RequestRefused
    <3>2. ~At(o, "retried")
      BY <1>1, <2>14, <3>1 DEF RequestRefused, CancelPending, LinkHolds, At
    <3>3. QED
      BY <1>1, <2>5, <3>1, <3>2
  <2>15. QED
    BY <2>1, <2>6, <2>7, <2>8, <2>9, <2>10, <2>11, <2>12, <2>13, <2>14 DEF Proceeds
<1>6. CASE \E b \in Attempt, s \in Stage : RunStage(b, s)
  <2>1. PICK b \in Attempt, s \in Stage : RunStage(b, s)
    BY <1>6
  <2>2. op' = op
    BY <2>1, StageEffect
  <2>3. CASE SkipStage(b, s)
    <3>1. job' = job /\ attempts' = attempts
      BY <2>3 DEF SkipStage
    <3>2. QED
      BY <1>1, <1>3, <2>2, <3>1
  <2>4. CASE ~SkipStage(b, s)
    <3>1. /\ b = job.active /\ job'.active = job.active /\ job'.import = job.import
          /\ \E v \in {"failed", "pending", "succeeded"} :
                attempts' = [attempts EXCEPT ![b] = v]
      BY <2>1, <2>4, StageEffect
    <3>2. a # b
      BY <1>1, <1>2, <3>1
    <3>3. attempts'[a] = attempts[a]
      BY <1>2, <3>1, <3>2 DEF TypeOK
    <3>4. QED
      BY <1>1, <1>3, <2>2, <3>1, <3>3
  <2>5. QED
    BY <2>3, <2>4
<1>7. CASE \E b \in Attempt : CloseReview(b)
  BY <1>1, <1>3, <1>7 DEF CloseReview
<1>8. CASE GrantReadiness \/ WithdrawReadiness
  <2>1. job'.active = job.active /\ job'.import = job.import
    BY <1>2, <1>8 DEF GrantReadiness, WithdrawReadiness, Job
  <2>2. QED
    BY <1>1, <1>3, <1>8, <2>1 DEF GrantReadiness, WithdrawReadiness
<1>9. CASE UNCHANGED vars
  BY <1>1, <1>3, <1>9 DEF vars
<1>10. QED
  BY <1>1, <1>2, <1>4, <1>5, <1>6, <1>7, <1>8, <1>9, QuietStep DEF Next

-----------------------------------------------------------------------------
(* ActiveIsDriven: somebody moves an ACTIVE job *)

LEMMA DrivenNext ==
    ASSUME IInv, Rows, Numbers, Frontier, Driven, [Next]_vars, Quiet', ~overwrote'
    PROVE  Driven'
<1>1. SUFFICES ASSUME job'.status = "ACTIVE"
               PROVE  (\E s \in Stage : Pending(s))' \/ (\E o \in Operators : Drives(o))'
  BY DEF Driven
<1>2. /\ TypeOK /\ AtStatement /\ job \in Job
  BY DEF IInv, TypeOK
<1>a. job.status = "ACTIVE" => job.active \in Attempt
  BY <1>2, PipelineAssumption DEF Rows, Job, Attempt
<1>b. ASSUME NEW o \in Operators, Drives(o), job.status = "ACTIVE", job' = job,
             op'[o] = op[o]
      PROVE  Drives(o)'
  <2>1. ~At(o, "first") => attempts'[job.active] # "none"
    BY <1>2, <1>a, <1>b, RowsStay DEF Drives
  <2>2. QED
    BY <1>b, <2>1 DEF Drives, At
\* The row, the results and the tasks to run are as they were.
<1>3. ASSUME job' = job, results' = results,
             \A s \in Stage : Pending(s) => tasks'[<<job.active, s>>] > 0,
             \A o \in Operators : Drives(o) => op'[o] = op[o] \/ Drives(o)'
      PROVE  (\E s \in Stage : Pending(s))' \/ (\E o \in Operators : Drives(o))'
  <2>1. CASE \E s \in Stage : Pending(s)
    BY <1>3, <2>1 DEF Pending
  <2>2. CASE \E o \in Operators : Drives(o)
    <3>1. PICK o \in Operators : Drives(o)
      BY <2>2
    <3>2. Drives(o)'
      BY <1>1, <1>3, <1>b, <3>1
    <3>3. QED
      BY <3>2
  <2>3. QED
    BY <1>1, <1>3, <2>1, <2>2 DEF Driven
<1>4. CASE \E o \in Operators : Starts(o)
  <2>1. PICK o \in Operators : Starts(o)
    BY <1>4
  <2>2. /\ op[o] = Idle /\ op'[o].job = job'
        /\ \A p \in Operators : p # o => op'[p] = op[p]
        /\ op'[o].pc = "first" => job'.stage = Created
        /\ op'[o].pc # "first" => job' = job
        /\ tasks' = tasks /\ results' = results
    BY <1>2, <2>1, StartsEffect DEF IInv
  <2>3. CASE op'[o].pc = "first"
    <3>1. Drives(o)'
      BY <2>2, <2>3 DEF Drives, Early, At
    <3>2. QED
      BY <3>1
  <2>4. CASE op'[o].pc # "first"
    <3>1. ~Drives(o)
      BY <2>2 DEF Drives, Idle
    <3>2. QED
      BY <1>3, <2>2, <2>4, <3>1 DEF Pending
  <2>5. QED
    BY <2>3, <2>4
<1>5. CASE \E o \in Operators : Proceeds(o)
  <2>1. PICK o \in Operators : Proceeds(o)
    BY <1>5
  <2>2. /\ op[o].job \in Job /\ op[o].att \in 0..MaxAttempts
        /\ \A p \in Operators : p # o => op'[p] = op[p]
    BY <1>2, <2>1, ProceedsEffect
  <2>3. results' = results /\ job.active \in Attempt
    BY <2>1, QuietProceeds
  <2>t. tasks \in [Attempt \X Stage -> 0..TaskCap] /\ Inspecting \in Stage
    BY PipelineAssumption DEF IInv, TypeOK, Stage, Inspecting
  <2>4. ASSUME job' = job, tasks' = tasks, Drives(o) => Drives(o)'
        PROVE  (\E s \in Stage : Pending(s))' \/ (\E p \in Operators : Drives(p))'
    BY <1>3, <2>2, <2>3, <2>4 DEF Pending
  <2>5. CASE AppendFirstAttempt(o)
    <3>1. op'[o] = [pc |-> "queue", job |-> op[o].job, att |-> 0]
      BY <1>2, <2>1, <2>5, ProceedsEffect
    <3>2. op[o].job.active = 1 /\ attempts'[1] = "pending" /\ job' = job /\ tasks' = tasks
      BY <1>2, <2>5, PipelineAssumption
      DEF AppendFirstAttempt, Rows, Names, At, TypeOK, Attempt
    <3>3. Drives(o) => Drives(o)'
      BY <3>1, <3>2 DEF Drives
    <3>4. QED
      BY <2>4, <3>2, <3>3
  <2>6. CASE QueueFindsAttempt(o)
    <3>1. op'[o] = [pc |-> "queueing", job |-> op[o].job, att |-> ActiveAttempt]
      BY <1>2, <2>1, <2>6, ProceedsEffect
    <3>2. attempts' = attempts /\ job' = job /\ tasks' = tasks /\ ~At(o, "first")
      BY <2>6 DEF QueueFindsAttempt, At
    <3>3. Drives(o) => Drives(o)'
      BY <3>1, <3>2 DEF Drives
    <3>4. QED
      BY <2>4, <3>2, <3>3
  <2>7. CASE QueueSaves(o)
    <3>1. /\ op[o].job = job /\ job.stage \in Early /\ job'.active = job.active
      BY <2>7, QuietQueue
    <3>2. op[o].att = job.active
      <4>1. op[o].att <= job.active /\ job.active <= op[o].att
        BY <2>7, <3>1 DEF QueueSaves, At, Numbers
      <4>2. QED
        BY <1>2, <2>2, <4>1 DEF Job
    <3>3. Dispatch(tasks, job.active, Inspecting)
      BY <2>7, <3>2 DEF QueueSaves
    <3>4. tasks'[<<job.active, Inspecting>>] > 0
      BY <2>3, <2>t, <3>3, DispatchEffect
    <3>5. <<job.active, Inspecting>> \notin results'
      BY <2>3, <2>t, <3>1, EarlyFrontier
    <3>6. Pending(Inspecting)'
      BY <3>1, <3>4, <3>5 DEF Pending, Inspecting
    <3>7. QED
      BY <2>t, <3>6
  <2>8. CASE CancelFindsAttempt(o)
    BY <2>4, <2>8 DEF CancelFindsAttempt, Drives, At
  <2>9. CASE CancelMarksAttempt(o)
    BY <2>4, <2>9 DEF CancelMarksAttempt, Drives, At
  <2>10. CASE CancelSaves(o)
    <3>1. /\ job'.active = job.active /\ job'.status = job.status /\ job.stage \notin Early
          /\ tasks' = tasks
      BY <1>1, <2>10, QuietCancel
    <3>2. PICK s \in Stage : Pending(s)
      BY <1>1, <3>1 DEF Driven, Drives
    <3>3. Pending(s)'
      BY <2>3, <3>1, <3>2 DEF Pending
    <3>4. QED
      BY <3>3
  <2>11. CASE RetryAppends(o)
    BY <2>4, <2>11 DEF RetryAppends, Drives, At
  <2>12. CASE RetrySaves(o)
    <3>1. /\ op'[o] = [pc |-> "queue", job |-> RestartedJob(op[o].job), att |-> 0]
      BY <1>2, <2>1, <2>12, ProceedsEffect
    <3>2. job' = RestartedJob(op[o].job) /\ attempts' = attempts
      BY <2>12 DEF RetrySaves, SaveJob
    <3>3. op[o].job = job /\ job'.stage = Queued /\ job'.active = job.active + 1
      BY <2>12, QuietRestart
    <3>4. op[o].att = job.active + 1 /\ attempts[op[o].att] # "none"
      <4>1. op[o].att = job.active + 1
        BY <2>12, <3>3 DEF RetrySaves, At, Rows, Names
      <4>2. op[o].att # 0
        BY <1>2, <4>1 DEF Job
      <4>3. QED
        BY <2>12, <4>1, <4>2 DEF RetrySaves, At, Rows, Names
    <3>5. Drives(o)'
      BY <3>1, <3>2, <3>3, <3>4 DEF Drives, Early
    <3>6. QED
      BY <3>5
  <2>13. CASE DeleteCommits(o)
    BY <1>1, <2>13, QuietDelete
  <2>14. CASE RequestRefused(o)
    <3>1. job' = job /\ tasks' = tasks
      BY <2>14 DEF RequestRefused
    <3>2. ~Drives(o)
      <4>1. SUFFICES ASSUME Drives(o) PROVE FALSE
        OBVIOUS
      <4>2. LinkHolds(o)
        BY <4>1 DEF Drives, LinkHolds
      <4>3. At(o, "queue") /\ (ActiveAttempt = 0 \/ ~CanQueue(job))
        BY <2>14, <4>1, <4>2 DEF RequestRefused, Drives, At
      <4>4. CanQueue(job)
        BY <1>1, <3>1, <4>1 DEF CanQueue, Immutable, Drives
      <4>5. attempts[job.active] # "none"
        BY <4>1, <4>3 DEF Drives, At
      <4>6. ActiveAttempt = job.active /\ job.active # 0
        BY <2>3, <4>5, PipelineAssumption DEF ActiveAttempt, Attempt
      <4>7. QED
        BY <4>3, <4>4, <4>6
    <3>3. QED
      BY <2>4, <3>1, <3>2
  <2>15. QED
    BY <2>1, <2>5, <2>6, <2>7, <2>8, <2>9, <2>10, <2>11, <2>12, <2>13, <2>14
    DEF Proceeds
<1>6. CASE \E a \in Attempt, s \in Stage : RunStage(a, s)
  <2>1. PICK a \in Attempt, s \in Stage : RunStage(a, s)
    BY <1>6
  <2>2. op' = op /\ job.active \in Attempt
    BY <2>1, StageEffect
  <2>3. CASE SkipStage(a, s)
    <3>1. job' = job /\ results' = results /\ Ignores(a, s)
      BY <2>3 DEF SkipStage
    <3>2. ASSUME NEW u \in Stage, Pending(u)
          PROVE  tasks'[<<job.active, u>>] > 0
      <4>1. <<job.active, u>> # <<a, s>>
        BY <1>1, <3>1, <3>2 DEF Ignores, Pending
      <4>2. QED
        BY <2>1, <2>2, <3>2, <4>1, StageEffect DEF Pending
    <3>3. QED
      BY <1>3, <2>2, <3>1, <3>2
  <2>4. CASE StageAdvances(a, s)
    <3>1. /\ a = job.active /\ job'.active = a /\ <<a, s>> \notin results
      <4>1. ~SkipStage(a, s)
        BY <2>4 DEF SkipStage, StageAdvances
      <4>2. QED
        BY <2>1, <4>1, StageEffect
    <3>2. /\ s + 1 \in Stage /\ tasks'[<<a, s + 1>>] > 0
          /\ results' = results \cup {<<a, s>>}
      BY <2>1, <2>4, StageEffect
    <3>3. s < s + 1 /\ s # s + 1
      BY PipelineAssumption DEF Stage, Inspecting
    <3>4. <<a, s + 1>> \notin results'
      BY <3>1, <3>2, <3>3 DEF IInv, StagesInOrder
    <3>5. Pending(s + 1)'
      BY <3>1, <3>2, <3>4 DEF Pending
    <3>6. QED
      BY <3>2, <3>5
  <2>5. QED
    BY <1>1, <2>1, <2>3, <2>4, StageEffect DEF RunStage
<1>7. CASE \E a \in Attempt : CloseReview(a)
  BY <1>3, <1>7 DEF CloseReview, Pending
<1>8. CASE GrantReadiness \/ WithdrawReadiness
  BY <1>1, <1>2, <1>8 DEF GrantReadiness, WithdrawReadiness, Job
<1>9. CASE UNCHANGED vars
  BY <1>3, <1>9 DEF vars, Pending
<1>10. QED
  BY <1>2, <1>4, <1>5, <1>6, <1>7, <1>8, <1>9, QuietStep DEF Next

-----------------------------------------------------------------------------
(* CancelledAttemptRests: an attempt cancelled before it began stays so *)

LEMMA RestsProceeds ==
    ASSUME IInv, Rows, Numbers, Rests, NEW o \in Operators, Proceeds(o), Quiet', ~overwrote'
    PROVE  Rests'
<1>1. /\ TypeOK /\ AtStatement /\ job \in Job /\ job.active \in Nat /\ Attempt \subseteq Nat
  BY DEF IInv, TypeOK, Job, Attempt
<1>2. /\ op[o].job \in Job /\ op[o].att \in 0..MaxAttempts /\ op[o] # Idle
      /\ \A p \in Operators : p # o => op'[p] = op[p]
  BY <1>1, ProceedsEffect
<1>3. \A p \in Operators : At(p, "cancelled") => op[p].att <= job.active /\ op[p].att \in Nat
  BY <1>1, InFlight DEF Numbers, At, TypeOK, Steps
\* The request is not about to cancel, and cancels no row; a deleted job stays so.
<1>4. ASSUME ~At(o, "cancelled"), op'[o].pc # "cancelled",
             \A a \in Attempt : attempts'[a] = "cancelled" => attempts[a] = "cancelled",
             job'.active = job.active, job'.import = job.import,
             job.status = "DELETED" => job'.status = "DELETED",
             job.status = "CANCELLED" => job'.status = "CANCELLED"
      PROVE  Rests'
  BY <1>2, <1>4 DEF Rests, At
<1>5. CASE AppendFirstAttempt(o)
  <2>1. op'[o] = [pc |-> "queue", job |-> op[o].job, att |-> 0]
    BY <1>1, <1>5, ProceedsEffect
  <2>2. attempts' = [attempts EXCEPT ![1] = "pending"] /\ job' = job /\ ~At(o, "cancelled")
    BY <1>5 DEF AppendFirstAttempt, At
  <2>3. \A a \in Attempt : attempts'[a] = "cancelled" => attempts[a] = "cancelled"
    BY <1>1, <2>2 DEF TypeOK
  <2>4. QED
    BY <1>4, <2>1, <2>2, <2>3
<1>6. CASE QueueFindsAttempt(o) \/ CancelFindsAttempt(o)
  <2>1. \/ op'[o] = [pc |-> "queueing", job |-> op[o].job, att |-> ActiveAttempt]
        \/ op'[o] = [pc |-> "cancelling", job |-> op[o].job, att |-> ActiveAttempt]
    BY <1>1, <1>6, ProceedsEffect
  <2>2. attempts' = attempts /\ job' = job /\ ~At(o, "cancelled")
    BY <1>6 DEF QueueFindsAttempt, CancelFindsAttempt, At
  <2>3. QED
    BY <1>4, <2>1, <2>2
<1>7. CASE QueueSaves(o)
  <2>1. op'[o] = Idle
    BY <1>1, <1>7, ProceedsEffect
  <2>2. /\ job'.status = job.status /\ job'.active = job.active /\ job'.import = job.import
        /\ attempts' = attempts /\ ~At(o, "cancelled")
    BY <1>7, QuietQueue DEF QueueSaves, At
  <2>3. QED
    BY <1>4, <2>1, <2>2 DEF Idle
<1>8. CASE CancelMarksAttempt(o)
  <2>1. op'[o] = [pc |-> "cancelled", job |-> op[o].job, att |-> op[o].att]
    BY <1>1, <1>8, ProceedsEffect
  <2>2. /\ attempts' = [attempts EXCEPT ![op[o].att] = "cancelled"]
        /\ job' = job /\ op[o].job = job /\ ~At(o, "cancelled")
    BY <1>8, QuietMoves DEF CancelMarksAttempt, At
  <2>3. op[o].att <= job.active
    BY <1>8 DEF CancelMarksAttempt, At, Numbers
  <2>4. \A a \in Attempt : a # op[o].att => attempts'[a] = attempts[a]
    BY <1>1, <2>2 DEF TypeOK
  <2>5. \A a \in Attempt : attempts'[a] = "cancelled" => a <= job'.active
    BY <2>2, <2>3, <2>4 DEF Rests
  <2>6. ASSUME NEW a \in Attempt, attempts'[a] = "cancelled", a = job'.active
        PROVE  \/ job'.status \in {"CANCELLED", "DELETED"}
               \/ \E p \in Operators : op'[p].pc = "cancelled" /\ op'[p].att = a
    <3>1. CASE a = op[o].att
      BY <2>1, <3>1
    <3>2. CASE a # op[o].att
      <4>1. \/ job.status \in {"CANCELLED", "DELETED"}
            \/ \E p \in Operators : At(p, "cancelled") /\ op[p].att = a
        BY <2>2, <2>4, <2>6, <3>2 DEF Rests
      <4>2. QED
        BY <1>2, <2>2, <4>1 DEF At
    <3>3. QED
      BY <3>1, <3>2
  <2>7. \A p \in Operators : op'[p].pc = "cancelled" /\ op'[p].job.import /\ ~job'.import =>
           job'.status = "DELETED" \/ op'[p].att < job'.active
    BY <1>2, <2>1, <2>2 DEF Rests, At
  <2>8. QED
    BY <2>5, <2>6, <2>7 DEF Rests, At
<1>9. CASE CancelSaves(o)
  <2>1. op'[o] = Idle /\ attempts' = attempts
    BY <1>1, <1>9, ProceedsEffect DEF CancelSaves
  <2>2. /\ op[o].job = job /\ job'.active = job.active /\ job'.import = job.import
        /\ job.stage \in Early => job'.status = "CANCELLED"
        /\ job.stage \notin Early => job'.status = job.status
    BY <1>9, QuietCancel
  <2>3. job.status # "DELETED"
    BY <1>2, <1>9, <2>2 DEF CancelSaves, CancelPending, At, IInv, Links
  <2>4. At(o, "cancelled") => job'.status = "CANCELLED"
    BY <2>2 DEF Rows, Names
  <2>5. job.status = "CANCELLED" => job'.status = "CANCELLED"
    BY <2>2
  <2>6. QED
    BY <1>2, <2>1, <2>2, <2>3, <2>4, <2>5 DEF Rests, At, Idle
<1>10. CASE RetryAppends(o)
  <2>1. op'[o] = [pc |-> "retried", job |-> op[o].job, att |-> op[o].job.active + 1]
    BY <1>1, <1>10, ProceedsEffect
  <2>2. /\ attempts' = [attempts EXCEPT ![op[o].job.active + 1] = "pending"]
        /\ job' = job /\ ~At(o, "cancelled")
    BY <1>10 DEF RetryAppends, At
  <2>3. \A a \in Attempt : attempts'[a] = "cancelled" => attempts[a] = "cancelled"
    BY <1>1, <2>2 DEF TypeOK
  <2>4. QED
    BY <1>4, <2>1, <2>2, <2>3
<1>11. CASE RetrySaves(o)
  <2>1. /\ op[o].job = job /\ job'.active = job.active + 1
        /\ attempts' = attempts
    BY <1>11, QuietRestart DEF RetrySaves
  <2>2. op'[o].pc # "cancelled"
    <3>1. op'[o] = [pc |-> "queue", job |-> RestartedJob(op[o].job), att |-> 0]
      BY <1>1, <1>11, ProceedsEffect
    <3>2. QED
      BY <3>1
  <2>3. \A a \in Attempt : attempts'[a] = "cancelled" => attempts[a] = "cancelled"
    BY <2>1
  <2>4. ASSUME NEW a \in Attempt, attempts'[a] = "cancelled"
        PROVE  a <= job'.active /\ a # job'.active
    <3>1. a <= job.active /\ a \in Nat
      BY <1>1, <2>3, <2>4 DEF Rests
    <3>2. QED
      BY <1>1, <2>1, <3>1
  <2>5. \A p \in Operators : op'[p].pc = "cancelled" => op'[p].att < job'.active
    BY <1>1, <1>2, <1>3, <2>1, <2>2 DEF At
  <2>6. QED
    BY <2>4, <2>5 DEF Rests, At
<1>12. CASE DeleteCommits(o)
  <2>1. op'[o] = Idle
    BY <1>1, <1>12, ProceedsEffect
  <2>2. job'.active = job.active /\ job'.status = "DELETED"
    BY <1>12, QuietDelete
  <2>3. \A a \in Attempt : attempts'[a] = "cancelled" => a <= job.active
    <3>1. ActiveAttempt \in {0, job.active} /\ (ActiveAttempt # 0 => ActiveAttempt \in Attempt)
      BY <1>1, ActiveAttemptType DEF ActiveAttempt
    <3>2. \/ attempts' = attempts
          \/ ActiveAttempt # 0 /\ attempts' = [attempts EXCEPT ![ActiveAttempt] = "cancelled"]
      BY <1>12 DEF DeleteCommits
    <3>3. \A a \in Attempt : attempts'[a] = attempts[a] \/ a = job.active
      BY <1>1, <3>1, <3>2 DEF TypeOK
    <3>4. QED
      BY <1>1, <3>3 DEF Rests
  <2>4. QED
    BY <2>1, <2>2, <2>3 DEF Rests, At
<1>13. CASE RequestRefused(o)
  <2>1. op'[o] = Idle /\ job' = job /\ attempts' = attempts
    BY <1>1, <1>13, ProceedsEffect DEF RequestRefused
  \* Refused before it could save, the cancellation finds the job deleted.
  <2>2. At(o, "cancelled") => job.status = "DELETED" \/ op[o].att < job.active
    BY <1>13 DEF RequestRefused, CancelPending, LinkHolds, Rests, At
  <2>3. At(o, "cancelled") /\ op[o].att = job.active => job.status = "DELETED"
    BY <1>1, <2>2
  <2>4. QED
    BY <1>2, <2>1, <2>3 DEF Rests, At, Idle
<1>14. QED
  BY <1>5, <1>6, <1>7, <1>8, <1>9, <1>10, <1>11, <1>12, <1>13 DEF Proceeds

LEMMA RestsNext ==
    ASSUME IInv, Rows, Numbers, Rests, [Next]_vars, Quiet', ~overwrote'
    PROVE  Rests'
<1>1. /\ TypeOK /\ job \in Job /\ job.active \in Nat /\ Attempt \subseteq Nat
  BY DEF IInv, TypeOK, Job, Attempt
<1>2. ASSUME op' = op, job'.active = job.active, job'.import = job.import,
             \A a \in Attempt : attempts'[a] = "cancelled" =>
                attempts[a] = "cancelled" /\ (a = job.active => job'.status = job.status
                   \/ job.status \notin {"CANCELLED", "DELETED"}),
             job.status = "DELETED" => job'.status = "DELETED"
      PROVE  Rests'
  BY <1>2 DEF Rests, At
<1>3. CASE \E o \in Operators : Starts(o)
  <2>1. PICK o \in Operators : Starts(o)
    BY <1>3
  <2>2. /\ op[o] = Idle /\ \A p \in Operators : p # o => op'[p] = op[p]
        /\ op'[o].pc # "cancelled" /\ attempts' = attempts
        /\ job' = job \/ job.status = "ABSENT"
    BY <1>1, <2>1, StartsEffect DEF IInv
  <2>3. CASE job' = job
    BY <2>2, <2>3 DEF Rests, At, Idle
  <2>4. CASE job.status = "ABSENT"
    <3>1. /\ \A a \in Attempt : attempts'[a] # "cancelled"
          /\ \A p \in Operators : op'[p].pc # "cancelled"
      BY <2>2, <2>4 DEF Rows, IInv, Links, Idle
    <3>2. QED
      BY <3>1 DEF Rests, At
  <2>5. QED
    BY <2>2, <2>3, <2>4
<1>4. CASE \E o \in Operators : Proceeds(o)
  BY <1>4, RestsProceeds
<1>5. CASE \E a \in Attempt, s \in Stage : RunStage(a, s)
  <2>1. PICK a \in Attempt, s \in Stage : RunStage(a, s)
    BY <1>5
  <2>2. CASE SkipStage(a, s)
    BY <1>2, <2>2 DEF SkipStage
  <2>3. CASE ~SkipStage(a, s)
    <3>1. /\ a = job.active /\ job'.active = job.active /\ job'.import = job.import
          /\ job.status # "DELETED" /\ op' = op
          /\ \E v \in {"failed", "pending", "succeeded"} :
                attempts' = [attempts EXCEPT ![a] = v]
      BY <2>1, <2>3, StageEffect
    <3>2. \A b \in Attempt : attempts'[b] = "cancelled" => attempts[b] = "cancelled" /\ b # a
      BY <1>1, <3>1 DEF TypeOK
    <3>3. QED
      BY <1>2, <3>1, <3>2
  <2>4. QED
    BY <2>2, <2>3
<1>6. CASE \E a \in Attempt : CloseReview(a)
  BY <1>2, <1>6 DEF CloseReview
<1>7. CASE GrantReadiness \/ WithdrawReadiness
  <2>1. /\ job'.active = job.active /\ job'.import = job.import
        /\ job.status \notin {"CANCELLED", "DELETED"}
    BY <1>1, <1>7 DEF GrantReadiness, WithdrawReadiness, Job
  <2>2. QED
    BY <1>2, <1>7, <2>1 DEF GrantReadiness, WithdrawReadiness
<1>8. CASE UNCHANGED vars
  BY <1>2, <1>8 DEF vars
<1>9. QED
  BY <1>1, <1>3, <1>4, <1>5, <1>6, <1>7, <1>8, QuietStep DEF Next

\* What the property asks of one step.
LEMMA CancelledStays ==
    ASSUME IInv, Rows, Rests, [Next]_vars, Quiet', ~overwrote',
           NEW a \in Attempt, attempts[a] = "cancelled",
           \A o \in Operators : At(o, "cancelled") => op[o].att # a
    PROVE  /\ attempts'[a] = "cancelled"
           /\ \A s \in Stage : <<a, s>> \in results' => <<a, s>> \in results
<1>1. TypeOK /\ AtStatement /\ job \in Job
  BY DEF IInv, TypeOK
<1>2. ASSUME results' = results, attempts' = attempts
      PROVE  /\ attempts'[a] = "cancelled"
             /\ \A s \in Stage : <<a, s>> \in results' => <<a, s>> \in results
  BY <1>2
<1>3. ASSUME results' = results, NEW b, NEW v, attempts' = [attempts EXCEPT ![b] = v],
             b # a \/ v = "cancelled"
      PROVE  /\ attempts'[a] = "cancelled"
             /\ \A s \in Stage : <<a, s>> \in results' => <<a, s>> \in results
  BY <1>1, <1>3 DEF TypeOK
<1>4. CASE \E o \in Operators : Starts(o)
  BY <1>1, <1>2, <1>4, StartsEffect DEF IInv
<1>5. CASE \E o \in Operators : Proceeds(o)
  <2>1. PICK o \in Operators : Proceeds(o)
    BY <1>5
  <2>2. results' = results
    BY <2>1, QuietProceeds
  <2>3. AppendFirstAttempt(o) => a # 1
    BY DEF AppendFirstAttempt, Rows, Names
  <2>4. RetryAppends(o) => a # op[o].job.active + 1
    BY DEF RetryAppends, NumberFree
  <2>5. CASE AppendFirstAttempt(o) \/ RetryAppends(o)
    BY <1>3, <2>2, <2>3, <2>4, <2>5 DEF AppendFirstAttempt, RetryAppends
  <2>6. CASE CancelMarksAttempt(o)
    BY <1>3, <2>2, <2>6 DEF CancelMarksAttempt
  <2>7. CASE DeleteCommits(o)
    BY <1>2, <1>3, <2>2, <2>7 DEF DeleteCommits
  <2>8. QED
    BY <1>2, <2>1, <2>2, <2>5, <2>6, <2>7
    DEF Proceeds, QueueFindsAttempt, QueueSaves, CancelFindsAttempt, CancelSaves,
        RetrySaves, RequestRefused
<1>6. CASE \E b \in Attempt, s \in Stage : RunStage(b, s)
  <2>1. PICK b \in Attempt, s \in Stage : RunStage(b, s)
    BY <1>6
  <2>2. CASE SkipStage(b, s)
    BY <1>2, <2>2 DEF SkipStage
  <2>3. CASE ~SkipStage(b, s)
    <3>1. /\ b = job.active /\ job.status \notin {"DELETED", "CANCELLED"}
          /\ results' \subseteq results \cup {<<b, s>>}
          /\ \E v \in {"failed", "pending", "succeeded"} :
                attempts' = [attempts EXCEPT ![b] = v]
      BY <2>1, <2>3, StageEffect DEF RunStage
    <3>2. a # b
      BY <3>1 DEF Rests
    <3>3. QED
      BY <1>1, <3>1, <3>2 DEF TypeOK
  <2>4. QED
    BY <2>2, <2>3
<1>7. QED
  BY <1>1, <1>2, <1>4, <1>5, <1>6, QuietStep
  DEF Next, vars, CloseReview, GrantReadiness, WithdrawReadiness

-----------------------------------------------------------------------------
(* Theorems *)

QuietInv ==
    /\ IInv /\ Rows /\ ActiveIsNewest
    /\ ~overwrote => Numbers /\ Frontier
    /\ Quiet => Driven /\ Rests

LEMMA QuietInit == Init => QuietInv
<1>1. SUFFICES ASSUME Init PROVE QuietInv
  OBVIOUS
<1>2. IInv
  BY <1>1, TypeInit, PipelineInit, LinksInit DEF IInv, Pipeline
<1>3. Rows
  BY <1>1, RowsInit
<1>4. ActiveIsNewest
  BY <1>1 DEF Init, ActiveIsNewest, NoJob
<1>5. Numbers
  BY <1>1 DEF Init, Numbers, Idle, At
<1>6. Frontier
  BY <1>1 DEF Init, Frontier
<1>7. Driven
  BY <1>1 DEF Init, Driven, NoJob
<1>8. Rests
  BY <1>1 DEF Init, Rests, Idle, At
<1>9. QED
  BY <1>2, <1>3, <1>4, <1>5, <1>6, <1>7, <1>8 DEF QuietInv

LEMMA QuietNext ==
    ASSUME QuietInv, [Next]_vars
    PROVE  QuietInv'
<1>1. IInv' /\ Rows'
  BY TypeNext, PipelineNext, LinksNext, RowsNext DEF QuietInv, IInv, Pipeline
<1>2. ActiveIsNewest'
  <2>1. CASE ~Quiet'
    BY <2>1 DEF ActiveIsNewest
  <2>2. CASE Quiet'
    <3>1. IInv /\ Rows /\ Numbers /\ ActiveIsNewest
      BY <2>2, QuietStep DEF QuietInv, IInv, Quiet
    <3>2. QED
      BY <3>1, NewestNext
  <2>3. QED
    BY <2>1, <2>2
<1>3. ASSUME ~overwrote'
      PROVE  Numbers' /\ Frontier'
  <2>1. IInv /\ Rows /\ Numbers /\ Frontier
    BY <1>3, OverwroteStays DEF QuietInv
  <2>2. QED
    BY <1>3, <2>1, NumbersNext, FrontierNext
<1>4. ASSUME Quiet'
      PROVE  Driven' /\ Rests'
  <2>1. IInv /\ Rows /\ Numbers /\ Frontier /\ Driven /\ Rests /\ ~overwrote'
    BY <1>4, QuietStep DEF QuietInv, IInv, Quiet
  <2>2. QED
    BY <1>4, <2>1, DrivenNext, RestsNext
<1>5. QED
  BY <1>1, <1>2, <1>3, <1>4 DEF QuietInv

LEMMA QuietInductive == Spec => []QuietInv
BY QuietInit, QuietNext, PTL DEF Spec

\* The number a retry takes next is free, or another retry has just taken it:
\* no abandoned attempt row blocks a job (ActiveIsNewest).
THEOREM NumbersAreFree == Spec => []ActiveIsNewest
<1>1. QuietInv => ActiveIsNewest
  BY DEF QuietInv
<1>2. QED
  BY <1>1, QuietInductive, PTL

\* No sequence of imports, cancellations, retries and deletions leaves a job
\* ACTIVE with nobody to move it, as long as none of them saves over another
\* (ActiveIsDriven).
THEOREM ActiveIsMoved == Spec => []ActiveIsDriven
<1>1. QuietInv => ActiveIsDriven
  BY DEF QuietInv, Driven, Drives, Pending, ActiveIsDriven
<1>2. QED
  BY <1>1, QuietInductive, PTL

\* A task of the active attempt is for the stage the row is at: begin_stage
\* refuses it only when cancellation was asked for (OnlyCancellationRefuses).
THEOREM TasksAreInStep == Spec => []OnlyCancellationRefuses
<1>1. QuietInv => OnlyCancellationRefuses
  <2>1. SUFFICES ASSUME QuietInv, ~overwrote, NEW a \in Attempt, NEW s \in Stage,
                        Takes(a, s), ~Ignores(a, s)
                 PROVE  CanBegin(job, a, s) \/ job.cancel
    BY DEF OnlyCancellationRefuses
  <2>2. a = job.active /\ job.status # "DELETED" /\ AtFrontier(s)
    BY <2>1 DEF QuietInv, Takes, Ignores, Frontier
  <2>3. s = Inspecting => Queued = s - 1
    BY DEF Inspecting, Queued
  <2>4. QED
    BY <2>2, <2>3 DEF CanBegin, AtFrontier, Immutable
<1>2. QED
  BY <1>1, QuietInductive, PTL

\* Cancelling a job before its first stage cancels the attempt for good: its
\* task, which stays queued, adds no result and gives it no other outcome
\* (CancelledAttemptRests).
THEOREM CancellationHolds == Spec => CancelledAttemptRests
<1>1. QuietInv /\ [Next]_vars =>
        [\A a \in Attempt :
           Quiet' /\ attempts[a] = "cancelled"
             /\ (\A o \in Operators : At(o, "cancelled") => op[o].att # a) =>
           /\ attempts'[a] = "cancelled"
           /\ \A s \in Stage : <<a, s>> \in results' => <<a, s>> \in results]_vars
  <2>1. SUFFICES ASSUME QuietInv, [Next]_vars, NEW a \in Attempt,
                        Quiet', attempts[a] = "cancelled",
                        \A o \in Operators : At(o, "cancelled") => op[o].att # a
                 PROVE  /\ attempts'[a] = "cancelled"
                        /\ \A s \in Stage : <<a, s>> \in results' => <<a, s>> \in results
    OBVIOUS
  <2>2. IInv /\ Rows /\ Rests /\ ~overwrote'
    BY <2>1, QuietStep DEF QuietInv, IInv, Quiet
  <2>3. QED
    BY <2>1, <2>2, CancelledStays
<1>2. QED
  BY <1>1, QuietInductive, PTL DEF Spec, CancelledAttemptRests
=============================================================================
