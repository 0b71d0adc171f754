--------------------------- MODULE DurableEvents ---------------------------
(***************************************************************************)
(* The durable business-event ledger of apps/core: a producer records an   *)
(* event and one delivery row per registered consumer in its own           *)
(* transaction; after commit a sweep task is enqueued; the sweep enqueues  *)
(* one dispatch task per due row; a Celery worker claims the row under a   *)
(* row lock, calls the subscriber outside any transaction and then         *)
(* finalizes the row under a new lock.                                     *)
(*                                                                         *)
(* Every action is one database transaction, one broker call or one        *)
(* subscriber call.  Time is relative: a row carries the age of its claim  *)
(* and the wait until its next attempt, a worker the age of its task, each *)
(* saturating where the code no longer tells two values apart.             *)
(***************************************************************************)
EXTENDS Naturals, FiniteSets

CONSTANTS Events,      \* business events that may be published
          Consumers,   \* consumer keys subscribed to those events
          Workers,     \* Celery worker slots
          MaxRetries,  \* max_retries: failures before a delivery is terminal
          RetryDelay,  \* retry_delay, in ticks
          Lease,       \* stale_processing_lease, in ticks
          TaskLimit,   \* CELERY_TASK_TIME_LIMIT, in ticks
          AttemptCap,  \* bound: attempt_count saturates here
          TaskCap,     \* bound: queued tasks of one kind saturate here
          MaxCrashes   \* bound: crashes and broker losses in a behaviour

ASSUME ConstantsAssumption ==
    /\ MaxRetries \in Nat \ {0}
    /\ RetryDelay \in Nat
    /\ Lease \in Nat
    /\ TaskLimit \in Nat
    /\ AttemptCap \in Nat
    /\ AttemptCap > MaxRetries
    /\ TaskCap \in Nat \ {0}
    /\ MaxCrashes \in Nat

VARIABLES row,        \* the delivery row of each <<event, consumer>>
          hook,       \* the on_commit hook of each event's transaction
          sweeps,     \* queued dispatch_pending tasks
          tasks,      \* queued dispatch_delivery tasks of each delivery
          worker,     \* the task each worker slot runs
          registry,   \* consumer keys the running deployment resolves
          handled,    \* ghost: the subscriber has returned normally
          reclaimed,  \* ghost: a claim was taken away when its lease ran out
          crashes     \* ghost: failures spent of MaxCrashes

vars == <<row, hook, sweeps, tasks, worker, registry, handled, reclaimed, crashes>>

Delivery == Events \X Consumers

Statuses == {"ABSENT", "PENDING", "PROCESSING", "FAILED_RETRYABLE",
             "DELIVERED", "FAILED_TERMINAL"}
Settled == {"DELIVERED", "FAILED_TERMINAL"}

Row == [status : Statuses, attempts : 0..AttemptCap,
        age : 0..(Lease + 1), wait : 0..RetryDelay]

NoRow == [status |-> "ABSENT", attempts |-> 0, age |-> 0, wait |-> 0]

Phases == {"claimed", "running", "succeeded", "failed", "unregistered"}

Task == [pc : Phases, d : Delivery, attempts : 0..AttemptCap, age : 0..TaskLimit]

Idle == [pc |-> "idle"]

TypeOK ==
    /\ row \in [Delivery -> Row]
    /\ hook \in [Events -> {"none", "committed", "done"}]
    /\ sweeps \in 0..TaskCap
    /\ tasks \in [Delivery -> 0..TaskCap]
    /\ worker \in [Workers -> Task \cup {Idle}]
    /\ registry \in SUBSET Consumers
    /\ handled \in [Delivery -> BOOLEAN]
    /\ reclaimed \in [Delivery -> BOOLEAN]
    /\ crashes \in 0..MaxCrashes

Init ==
    /\ row = [d \in Delivery |-> NoRow]
    /\ hook = [e \in Events |-> "none"]
    /\ sweeps = 0
    /\ tasks = [d \in Delivery |-> 0]
    /\ worker = [w \in Workers |-> Idle]
    /\ registry = Consumers
    /\ handled = [d \in Delivery |-> FALSE]
    /\ reclaimed = [d \in Delivery |-> FALSE]
    /\ crashes = 0

-----------------------------------------------------------------------------
(* Helpers *)

\* n + 1, saturating at cap.
Bump(n, cap) == IF n < cap THEN n + 1 ELSE n

Runs(w, d) == worker[w] # Idle /\ worker[w].d = d

\* processing_started_at < now - stale_processing_lease
LeaseExpired(d) == row[d].status = "PROCESSING" /\ row[d].age > Lease

\* Mutant: the sweep forgets expired leases.
Due_ForgetsExpired(d) ==
    \/ row[d].status = "PENDING"
    \/ row[d].status = "FAILED_RETRYABLE" /\ row[d].wait = 0

\* The rows DispatchPendingBusinessEventsService.execute selects.
Due(d) ==
    \/ row[d].status = "PENDING"
    \/ row[d].status = "FAILED_RETRYABLE" /\ row[d].wait = 0
    \/ LeaseExpired(d)

\* Mutants: the claim forgets a settled status, or the age of the lease.
Claimable_Terminal(d) ==
    row[d].status \in {"PENDING", "FAILED_RETRYABLE", "FAILED_TERMINAL"} \/ LeaseExpired(d)
Claimable_AnyLease(d) ==
    row[d].status \in {"PENDING", "FAILED_RETRYABLE", "PROCESSING"}

\* The rows a dispatch task claims: next_attempt_at is not consulted here.
Claimable(d) ==
    \/ row[d].status \in {"PENDING", "FAILED_RETRYABLE"}
    \/ LeaseExpired(d)

\* A finalizer writes the row it locks without looking at what it holds.
WriteStatus(d, status, wait) ==
    [row EXCEPT ![d] = [@ EXCEPT !.status = status, !.age = 0, !.wait = wait]]

Finish(w) == worker' = [worker EXCEPT ![w] = Idle]

Crash == crashes < MaxCrashes /\ crashes' = crashes + 1

-----------------------------------------------------------------------------
(* Producer *)

\* The producer's transaction commits: the event and one PENDING row per
\* registered consumer appear together.  (A rollback leaves nothing.)
Publish(e) ==
    /\ hook[e] = "none"
    /\ hook' = [hook EXCEPT ![e] = "committed"]
    /\ row' = [d \in Delivery |->
                 IF d[1] = e /\ d[2] \in registry
                 THEN [NoRow EXCEPT !.status = "PENDING"] ELSE row[d]]
    /\ UNCHANGED <<sweeps, tasks, worker, registry, handled, reclaimed, crashes>>

\* on_commit: the sweep task is enqueued.
ScheduleSweep(e) ==
    /\ hook[e] = "committed"
    /\ hook' = [hook EXCEPT ![e] = "done"]
    /\ sweeps' = Bump(sweeps, TaskCap)
    /\ UNCHANGED <<row, tasks, worker, registry, handled, reclaimed, crashes>>

\* The broker refuses the task and the exception is swallowed, or the
\* producer dies before the hook runs.
ScheduleFails(e) ==
    /\ hook[e] = "committed"
    /\ hook' = [hook EXCEPT ![e] = "done"]
    /\ Crash
    /\ UNCHANGED <<row, sweeps, tasks, worker, registry, handled, reclaimed>>

\* Another event, without consumers of interest, is published.
PublishOther ==
    /\ sweeps < TaskCap
    /\ sweeps' = sweeps + 1
    /\ UNCHANGED <<row, hook, tasks, worker, registry, handled, reclaimed, crashes>>

-----------------------------------------------------------------------------
(* Sweep task *)

Enqueue(ids) ==
    tasks' = [d \in Delivery |-> IF d \in ids THEN Bump(tasks[d], TaskCap) ELSE tasks[d]]

\* Select the due rows and enqueue a dispatch task for each; no row changes.
Sweep ==
    /\ sweeps > 0
    /\ sweeps' = sweeps - 1
    /\ Enqueue({d \in Delivery : Due(d)})
    /\ UNCHANGED <<row, hook, worker, registry, handled, reclaimed, crashes>>

\* The sweep's worker dies, or delay() raises, after some of the tasks.
SweepDies ==
    /\ sweeps > 0
    /\ sweeps' = sweeps - 1
    /\ \E ids \in SUBSET {d \in Delivery : Due(d)} : Enqueue(ids)
    /\ Crash
    /\ UNCHANGED <<row, hook, worker, registry, handled, reclaimed>>

-----------------------------------------------------------------------------
(* Dispatch task *)

\* execute returns early: settled, or claimed under a lease that still runs.
SkipDelivery(d) ==
    /\ tasks[d] > 0
    /\ ~Claimable(d)
    /\ tasks' = [tasks EXCEPT ![d] = @ - 1]
    /\ UNCHANGED <<row, hook, sweeps, worker, registry, handled, reclaimed, crashes>>

Claimed(r) == [r EXCEPT !.attempts = Bump(@, AttemptCap),
                        !.status = "PROCESSING", !.age = 0]

\* execute claims the row under its lock and commits.
ClaimDelivery(w, d) ==
    /\ worker[w] = Idle
    /\ tasks[d] > 0
    /\ Claimable(d)
    /\ tasks' = [tasks EXCEPT ![d] = @ - 1]
    /\ row' = [row EXCEPT ![d] = Claimed(@)]
    /\ worker' = [worker EXCEPT ![w] = [pc |-> "claimed", d |-> d, attempts |-> 0, age |-> 0]]
    /\ reclaimed' = [reclaimed EXCEPT ![d] = @ \/ LeaseExpired(d)]
    /\ UNCHANGED <<hook, sweeps, registry, handled, crashes>>

\* Mutant: the count of the claim before this one is used.
ReadClaimed_Earlier(w) ==
    /\ worker[w] # Idle
    /\ worker[w].pc = "claimed"
    /\ worker' = [worker EXCEPT
                    ![w].attempts = row[worker[w].d].attempts - 1,
                    ![w].pc = IF worker[w].d[2] \in registry THEN "running" ELSE "unregistered"]
    /\ UNCHANGED <<row, hook, sweeps, tasks, registry, handled, reclaimed, crashes>>

\* _dispatch_claimed_delivery reads the row again, without a lock, and
\* resolves the registration.
ReadClaimed(w) ==
    /\ worker[w] # Idle
    /\ worker[w].pc = "claimed"
    /\ worker' = [worker EXCEPT
                    ![w].attempts = row[worker[w].d].attempts,
                    ![w].pc = IF worker[w].d[2] \in registry THEN "running" ELSE "unregistered"]
    /\ UNCHANGED <<row, hook, sweeps, tasks, registry, handled, reclaimed, crashes>>

SubscriberReturns(w) ==
    /\ worker[w] # Idle
    /\ worker[w].pc = "running"
    /\ worker' = [worker EXCEPT ![w].pc = "succeeded"]
    /\ handled' = [handled EXCEPT ![worker[w].d] = TRUE]
    /\ UNCHANGED <<row, hook, sweeps, tasks, registry, reclaimed, crashes>>

SubscriberRaises(w) ==
    /\ worker[w] # Idle
    /\ worker[w].pc = "running"
    /\ worker' = [worker EXCEPT ![w].pc = "failed"]
    /\ UNCHANGED <<row, hook, sweeps, tasks, registry, handled, reclaimed, crashes>>

\* Mutant: a finalizer in a finally block, run whatever the subscriber did.
FinalizeDelivered_AnyOutcome(w) ==
    /\ worker[w] # Idle
    /\ worker[w].pc \in {"succeeded", "failed"}
    /\ row' = WriteStatus(worker[w].d, "DELIVERED", 0)
    /\ Finish(w)
    /\ UNCHANGED <<hook, sweeps, tasks, registry, handled, reclaimed, crashes>>

FinalizeDelivered(w) ==
    /\ worker[w] # Idle
    /\ worker[w].pc = "succeeded"
    /\ row' = WriteStatus(worker[w].d, "DELIVERED", 0)
    /\ Finish(w)
    /\ UNCHANGED <<hook, sweeps, tasks, registry, handled, reclaimed, crashes>>

\* Mutants: one attempt too many; a wait longer than the retry delay.
FinalizeRetryable_OneMore(w) ==
    /\ worker[w] # Idle
    /\ worker[w].pc = "failed"
    /\ worker[w].attempts <= MaxRetries
    /\ row' = WriteStatus(worker[w].d, "FAILED_RETRYABLE", RetryDelay)
    /\ Finish(w)
    /\ UNCHANGED <<hook, sweeps, tasks, registry, handled, reclaimed, crashes>>
FinalizeRetryable_Longer(w) ==
    /\ worker[w] # Idle
    /\ worker[w].pc = "failed"
    /\ worker[w].attempts < MaxRetries
    /\ row' = WriteStatus(worker[w].d, "FAILED_RETRYABLE", RetryDelay + 1)
    /\ Finish(w)
    /\ UNCHANGED <<hook, sweeps, tasks, registry, handled, reclaimed, crashes>>

\* The attempt count compared is the one read before the subscriber ran.
FinalizeRetryable(w) ==
    /\ worker[w] # Idle
    /\ worker[w].pc = "failed"
    /\ worker[w].attempts < MaxRetries
    /\ row' = WriteStatus(worker[w].d, "FAILED_RETRYABLE", RetryDelay)
    /\ Finish(w)
    /\ UNCHANGED <<hook, sweeps, tasks, registry, handled, reclaimed, crashes>>

FinalizeTerminal(w) ==
    /\ worker[w] # Idle
    /\ \/ worker[w].pc = "failed" /\ worker[w].attempts >= MaxRetries
       \/ worker[w].pc = "unregistered"
    /\ row' = WriteStatus(worker[w].d, "FAILED_TERMINAL", 0)
    /\ Finish(w)
    /\ UNCHANGED <<hook, sweeps, tasks, registry, handled, reclaimed, crashes>>

-----------------------------------------------------------------------------
(* Environment *)

\* ReconcileBusinessEventDeliveryService: no task calls it; an operator may.
Reconcile(d) ==
    /\ LeaseExpired(d)
    /\ row' = WriteStatus(d, "FAILED_RETRYABLE", 0)
    /\ reclaimed' = [reclaimed EXCEPT ![d] = TRUE]
    /\ UNCHANGED <<hook, sweeps, tasks, worker, registry, handled, crashes>>

\* A worker process dies; its task was acknowledged on receipt and is gone.
WorkerDies(w) ==
    /\ worker[w] # Idle
    /\ Finish(w)
    /\ Crash
    /\ UNCHANGED <<row, hook, sweeps, tasks, registry, handled, reclaimed>>

\* The broker restarts without its queues.
BrokerLosesTasks ==
    /\ sweeps > 0 \/ \E d \in Delivery : tasks[d] > 0
    /\ sweeps' = 0
    /\ tasks' = [d \in Delivery |-> 0]
    /\ Crash
    /\ UNCHANGED <<row, hook, worker, registry, handled, reclaimed>>

\* A deployment whose code no longer subscribes some consumer.
Unsubscribe(c) ==
    /\ c \in registry
    /\ registry' = registry \ {c}
    /\ UNCHANGED <<row, hook, sweeps, tasks, worker, handled, reclaimed, crashes>>

OlderRow(r) ==
    [r EXCEPT !.age = IF r.status = "PROCESSING" THEN Bump(@, Lease + 1) ELSE @,
              !.wait = IF @ > 0 THEN @ - 1 ELSE 0]

OlderTask(t) == [t EXCEPT !.age = @ + 1]

\* Time passes; no task outlives the hard time limit.
Tick ==
    /\ \A w \in Workers : worker[w] # Idle => worker[w].age < TaskLimit
    /\ row' = [d \in Delivery |-> OlderRow(row[d])]
    /\ worker' = [w \in Workers |->
                    IF worker[w] = Idle THEN Idle ELSE OlderTask(worker[w])]
    /\ UNCHANGED <<hook, sweeps, tasks, registry, handled, reclaimed, crashes>>

-----------------------------------------------------------------------------

WorkerStep(w) ==
    \/ ReadClaimed(w)
    \/ SubscriberReturns(w)
    \/ SubscriberRaises(w)
    \/ FinalizeDelivered(w)
    \/ FinalizeRetryable(w)
    \/ FinalizeTerminal(w)

Next ==
    \/ \E e \in Events : Publish(e) \/ ScheduleSweep(e) \/ ScheduleFails(e)
    \/ PublishOther
    \/ Sweep
    \/ SweepDies
    \/ \E d \in Delivery : SkipDelivery(d) \/ Reconcile(d)
    \/ \E w \in Workers, d \in Delivery : ClaimDelivery(w, d)
    \/ \E w \in Workers : WorkerStep(w) \/ WorkerDies(w)
    \/ BrokerLosesTasks
    \/ \E c \in Consumers : Unsubscribe(c)
    \/ Tick

Spec == Init /\ [][Next]_vars

\* What the deployment runs by itself: the commit hook of a live producer, the
\* sweep tasks, each delivery's dispatch tasks (a broker queue drained by a
\* worker pool), the steps of a worker that does not die, and time.  Nothing
\* makes anyone publish, and no schedule runs the sweep.
Fairness ==
    /\ \A e \in Events : WF_vars(ScheduleSweep(e))
    /\ WF_vars(Sweep)
    /\ \A d \in Delivery : WF_vars(SkipDelivery(d))
    /\ \A d \in Delivery : SF_vars(\E w \in Workers : ClaimDelivery(w, d))
    /\ \A w \in Workers : WF_vars(WorkerStep(w))
    /\ WF_vars(Tick)

FairSpec == Spec /\ Fairness

-----------------------------------------------------------------------------
(* Properties *)

\* The claim excludes: as long as no claim of a delivery was taken away for
\* an expired lease, at most one worker is between its claim and its
\* finalizer, whatever the number of duplicate tasks and sweeps.
OneOwnerUnlessReclaimed ==
    \A d \in Delivery : ~reclaimed[d] =>
        \A v, w \in Workers : Runs(v, d) /\ Runs(w, d) => v = w

\* The retry budget: a delivery is attempted more than MaxRetries times only
\* if a claim of it was taken away (a stale claim is re-claimed without
\* consulting max_retries).
AttemptsWithinBudget ==
    \A d \in Delivery : row[d].attempts > MaxRetries => reclaimed[d]

\* What makes the three facts above inductive: rows exist from their commit on;
\* a busy worker's row exists and, while its claim stands, says PROCESSING and
\* carries the attempt count the worker read; a subscriber reported as returned
\* was heard; and a row that may be claimed again has budget left.
OwnsClaim(w) ==
    LET d == worker[w].d
    IN  /\ row[d].status # "ABSENT"
        /\ worker[w].pc = "succeeded" => handled[d]
        /\ ~reclaimed[d] => row[d].status = "PROCESSING"
        /\ ~reclaimed[d] /\ worker[w].pc \in {"running", "failed"}
              => worker[w].attempts = row[d].attempts

BudgetLeft(d) ==
    ~reclaimed[d] /\ row[d].status \in {"ABSENT", "PENDING", "FAILED_RETRYABLE"}
       => row[d].attempts < MaxRetries

ClaimProtocol ==
    /\ \A d \in Delivery : hook[d[1]] = "none" => row[d].status = "ABSENT"
    /\ \A w \in Workers : worker[w] # Idle => OwnsClaim(w)
    /\ \A d \in Delivery : BudgetLeft(d)
    /\ \A d \in Delivery : row[d].status = "DELIVERED" => handled[d]

\* A settled row changes only after a claim of it was taken away: in every
\* other history DELIVERED and FAILED_TERMINAL are final.
SettledUnlessReclaimed ==
    [][\A d \in Delivery :
          row[d].status \in Settled /\ ~reclaimed[d] => row'[d].status = row[d].status]_vars

\* The rows, leases and workers implement the ledger's promise: DELIVERED only
\* to a subscriber that returned normally, and settled for good otherwise.
LedgerState(status) ==
    CASE status = "ABSENT" -> "none"
      [] status \in {"PENDING", "PROCESSING", "FAILED_RETRYABLE"} -> "owed"
      [] status = "DELIVERED" -> "delivered"
      [] status = "FAILED_TERMINAL" -> "dropped"

Ledger == INSTANCE EventLedger
            WITH state <- [d \in Delivery |-> LedgerState(row[d].status)],
                 heard <- handled, revoked <- reclaimed

ImplementsLedger == Ledger!Spec

\* If sweeps keep coming (something keeps being published), every recorded
\* delivery settles, through crashes, lost tasks and failing subscribers.
SettlesWhileSwept ==
    []<>(sweeps > 0) =>
        \A d \in Delivery : row[d].status # "ABSENT" ~> row[d].status \in Settled

-----------------------------------------------------------------------------
(* What the documents say and the code does not do *)

\* "Terminal-state checks ... make workers replay-safe": a delivered event is
\* not put back for delivery.
DeliveredIsFinal ==
    [][\A d \in Delivery :
          row[d].status = "DELIVERED" => row'[d].status = "DELIVERED"]_vars

\* "allow retryable work to resume when workers return": a retryable delivery
\* is eventually taken up again.
RetryableResumes ==
    \A d \in Delivery :
        row[d].status = "FAILED_RETRYABLE" ~> row[d].status # "FAILED_RETRYABLE"
=============================================================================
