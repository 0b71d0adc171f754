------------------------ MODULE DurableEventsProofs ------------------------
(* Theorems about DurableEvents for every set of events, consumers and      *)
(* workers and every value of the other constants.                          *)
EXTENDS DurableEvents, TLAPS

\* Saturating increment stays within its cap.
LEMMA BumpType ==
    ASSUME NEW cap \in Nat, NEW n \in 0..cap
    PROVE  Bump(n, cap) \in 0..cap /\ Bump(n, cap) >= n
BY DEF Bump

\* The delivery a busy worker runs, and the row it finalizes, are well typed.
LEMMA TaskType ==
    ASSUME TypeOK, NEW w \in Workers, worker[w] # Idle
    PROVE  worker[w] \in Task /\ worker[w].d \in Delivery
BY DEF TypeOK, Task

\* A finalizer changes one row: its status, its age and its wait.
LEMMA WriteStatusType ==
    ASSUME TypeOK, NEW d \in Delivery, NEW s \in Statuses, NEW n \in 0..RetryDelay
    PROVE  LET new == WriteStatus(d, s, n)
           IN  /\ new \in [Delivery -> Row]
               /\ new[d].status = s
               /\ new[d].attempts = row[d].attempts
               /\ \A x \in Delivery \ {d} : new[x] = row[x]
<1> DEFINE r == [row[d] EXCEPT !.status = s, !.age = 0, !.wait = n]
<1>1. 0 \in 0..(Lease + 1)
  BY ConstantsAssumption
<1>2. r \in Row /\ r.status = s /\ r.attempts = row[d].attempts
  BY <1>1 DEF TypeOK, Row
<1>3. WriteStatus(d, s, n) = [row EXCEPT ![d] = r]
  BY DEF WriteStatus
<1> HIDE DEF r
<1> QED
  BY <1>2, <1>3 DEF TypeOK

\* A claim and the passing of time keep a row a row.
LEMMA ClaimedType ==
    ASSUME NEW r \in Row
    PROVE  Claimed(r) \in Row
<1>1. Bump(r.attempts, AttemptCap) \in 0..AttemptCap
  BY BumpType, ConstantsAssumption DEF Row
<1>2. 0 \in 0..(Lease + 1) /\ "PROCESSING" \in Statuses
  BY ConstantsAssumption DEF Statuses
<1>3. \A n \in 0..AttemptCap, s \in Statuses, a \in 0..(Lease + 1) :
        [r EXCEPT !.attempts = n, !.status = s, !.age = a] \in Row
  BY DEF Row
<1> QED
  BY <1>1, <1>2, <1>3 DEF Claimed

LEMMA OlderRowType ==
    ASSUME NEW r \in Row
    PROVE  OlderRow(r) \in Row
<1>1. Bump(r.age, Lease + 1) \in 0..(Lease + 1)
  BY BumpType, ConstantsAssumption DEF Row
<1>2. (IF r.wait > 0 THEN r.wait - 1 ELSE 0) \in 0..RetryDelay
  BY ConstantsAssumption DEF Row
<1> QED
  BY <1>1, <1>2 DEF OlderRow, Row

LEMMA OlderTaskType ==
    ASSUME NEW t \in Task, t.age < TaskLimit
    PROVE  OlderTask(t) \in Task
BY ConstantsAssumption DEF OlderTask, Task

-----------------------------------------------------------------------------
LEMMA InitType == Init => TypeOK
<1> SUFFICES ASSUME Init PROVE TypeOK
  OBVIOUS
<1>1. NoRow \in Row
  BY ConstantsAssumption DEF NoRow, Row, Statuses
<1> QED
  BY <1>1, ConstantsAssumption DEF Init, TypeOK

LEMMA NextType == TypeOK /\ [Next]_vars => TypeOK'
<1> SUFFICES ASSUME TypeOK, [Next]_vars PROVE TypeOK'
  OBVIOUS
<1> USE ConstantsAssumption
<1>1. ASSUME NEW e \in Events, Publish(e) PROVE TypeOK'
  <2>1. [NoRow EXCEPT !.status = "PENDING"] \in Row
    BY DEF NoRow, Row, Statuses
  <2> QED
    BY <1>1, <2>1 DEF Publish, TypeOK
<1>2. ASSUME NEW e \in Events, ScheduleSweep(e) PROVE TypeOK'
  BY <1>2, BumpType DEF ScheduleSweep, TypeOK
<1>3. ASSUME NEW e \in Events, ScheduleFails(e) PROVE TypeOK'
  BY <1>3 DEF ScheduleFails, Crash, TypeOK
<1>4. CASE PublishOther
  BY <1>4 DEF PublishOther, TypeOK
<1>5. ASSUME NEW ids \in SUBSET Delivery, Enqueue(ids) PROVE tasks' \in [Delivery -> 0..TaskCap]
  BY <1>5, BumpType DEF Enqueue, TypeOK
<1>6. CASE Sweep
  <2>1. {d \in Delivery : Due(d)} \in SUBSET Delivery
    OBVIOUS
  <2>2. tasks' \in [Delivery -> 0..TaskCap]
    BY <1>5, <1>6, <2>1 DEF Sweep
  <2> QED
    BY <1>6, <2>2 DEF Sweep, TypeOK
<1>7. CASE SweepDies
  <2>1. PICK ids \in SUBSET {d \in Delivery : Due(d)} : Enqueue(ids)
    BY <1>7 DEF SweepDies
  <2>2. tasks' \in [Delivery -> 0..TaskCap]
    BY <1>5, <2>1
  <2> QED
    BY <1>7, <2>2 DEF SweepDies, Crash, TypeOK
<1>8. ASSUME NEW d \in Delivery, SkipDelivery(d) PROVE TypeOK'
  BY <1>8 DEF SkipDelivery, TypeOK
<1>9. ASSUME NEW d \in Delivery, Reconcile(d) PROVE TypeOK'
  <2>1. row' \in [Delivery -> Row]
    BY <1>9, WriteStatusType DEF Reconcile, Statuses
  <2> QED
    BY <1>9, <2>1 DEF Reconcile, TypeOK
<1>10. ASSUME NEW w \in Workers, NEW d \in Delivery, ClaimDelivery(w, d) PROVE TypeOK'
  <2>1. row' \in [Delivery -> Row]
    BY <1>10, ClaimedType DEF ClaimDelivery, TypeOK
  <2>2. worker' \in [Workers -> Task \cup {Idle}]
    BY <1>10 DEF ClaimDelivery, TypeOK, Task, Phases
  <2>3. tasks' \in [Delivery -> 0..TaskCap] /\ reclaimed' \in [Delivery -> BOOLEAN]
    BY <1>10 DEF ClaimDelivery, TypeOK, LeaseExpired
  <2> QED
    BY <1>10, <2>1, <2>2, <2>3 DEF ClaimDelivery, TypeOK
<1>11. ASSUME NEW w \in Workers, WorkerStep(w) PROVE TypeOK'
  <2>0. worker[w] \in Task /\ worker[w].d \in Delivery
    BY <1>11, TaskType DEF WorkerStep, ReadClaimed, SubscriberReturns, SubscriberRaises,
                           FinalizeDelivered, FinalizeRetryable, FinalizeTerminal
  <2>a. \A s \in Statuses, n \in 0..RetryDelay : WriteStatus(worker[w].d, s, n) \in [Delivery -> Row]
    BY <2>0, WriteStatusType
  <2>1. CASE ReadClaimed(w)
    BY <2>0, <2>1 DEF ReadClaimed, TypeOK, Task, Phases, Row
  <2>2. CASE SubscriberReturns(w)
    BY <2>0, <2>2 DEF SubscriberReturns, TypeOK, Task, Phases
  <2>3. CASE SubscriberRaises(w)
    BY <2>0, <2>3 DEF SubscriberRaises, TypeOK, Task, Phases
  <2>4. CASE FinalizeDelivered(w)
    <3>1. row' \in [Delivery -> Row]
      BY <2>a, <2>4 DEF FinalizeDelivered, Statuses
    <3> QED
      BY <2>4, <3>1 DEF FinalizeDelivered, Finish, TypeOK
  <2>5. CASE FinalizeRetryable(w)
    <3>1. row' \in [Delivery -> Row]
      BY <2>a, <2>5 DEF FinalizeRetryable, Statuses
    <3> QED
      BY <2>5, <3>1 DEF FinalizeRetryable, Finish, TypeOK
  <2>6. CASE FinalizeTerminal(w)
    <3>1. row' \in [Delivery -> Row]
      BY <2>a, <2>6 DEF FinalizeTerminal, Statuses
    <3> QED
      BY <2>6, <3>1 DEF FinalizeTerminal, Finish, TypeOK
  <2> QED
    BY <1>11, <2>1, <2>2, <2>3, <2>4, <2>5, <2>6 DEF WorkerStep
<1>12. ASSUME NEW w \in Workers, WorkerDies(w) PROVE TypeOK'
  BY <1>12 DEF WorkerDies, Finish, Crash, TypeOK
<1>13. CASE BrokerLosesTasks
  BY <1>13 DEF BrokerLosesTasks, Crash, TypeOK
<1>14. ASSUME NEW c \in Consumers, Unsubscribe(c) PROVE TypeOK'
  BY <1>14 DEF Unsubscribe, TypeOK
<1>15. CASE Tick
  <2>1. row' \in [Delivery -> Row]
    BY <1>15, OlderRowType DEF Tick, TypeOK
  <2>2. worker' \in [Workers -> Task \cup {Idle}]
    <3>1. ASSUME NEW w \in Workers, worker[w] # Idle
          PROVE  OlderTask(worker[w]) \in Task
      BY <1>15, <3>1, TaskType, OlderTaskType DEF Tick
    <3> QED
      BY <1>15, <3>1 DEF Tick, TypeOK
  <2> QED
    BY <1>15, <2>1, <2>2 DEF Tick, TypeOK
<1>16. CASE UNCHANGED vars
  BY <1>16 DEF vars, TypeOK
<1> QED
  BY <1>1, <1>2, <1>3, <1>4, <1>6, <1>7, <1>8, <1>9, <1>10, <1>11, <1>12, <1>13,
     <1>14, <1>15, <1>16 DEF Next

\* The rows, tasks and workers keep their types in every reachable state.
THEOREM TypeCorrect == Spec => []TypeOK
<1> QED
  BY InitType, NextType, PTL DEF Spec

-----------------------------------------------------------------------------
(* The claim excludes, the budget holds, and what is settled was heard.     *)

IInv == TypeOK /\ ClaimProtocol /\ OneOwnerUnlessReclaimed /\ AttemptsWithinBudget

LEMMA InitInv == Init => IInv
<1> SUFFICES ASSUME Init PROVE IInv
  OBVIOUS
<1>1. TypeOK
  BY InitType
<1>2. \A w \in Workers : worker[w] = Idle
  BY DEF Init
<1>3. \A d \in Delivery : hook[d[1]] = "none" /\ row[d] = NoRow
  BY DEF Init, Delivery
<1>4. ClaimProtocol
  BY <1>2, <1>3, ConstantsAssumption DEF ClaimProtocol, BudgetLeft, NoRow
<1>5. OneOwnerUnlessReclaimed
  BY <1>2 DEF OneOwnerUnlessReclaimed, Runs
<1>6. AttemptsWithinBudget
  BY <1>3, ConstantsAssumption DEF AttemptsWithinBudget, NoRow
<1> QED
  BY <1>1, <1>4, <1>5, <1>6 DEF IInv

LEMMA NextInv == IInv /\ [Next]_vars => IInv'
<1> SUFFICES ASSUME IInv, [Next]_vars PROVE IInv'
  OBVIOUS
<1> USE ConstantsAssumption
<1> DEFINE Inv == ClaimProtocol /\ OneOwnerUnlessReclaimed /\ AttemptsWithinBudget
<1>0. TypeOK /\ TypeOK'
  BY NextType DEF IInv
<1>a. Inv
  BY DEF IInv
<1>b. \A w \in Workers : worker[w] # Idle => worker[w] \in Task /\ worker[w].d \in Delivery
  BY <1>0, TaskType
<1>1. ASSUME NEW e \in Events, Publish(e) PROVE Inv'
  <2>1. \A d \in Delivery : row'[d] = IF d[1] = e /\ d[2] \in registry
                                       THEN [NoRow EXCEPT !.status = "PENDING"] ELSE row[d]
    BY <1>1 DEF Publish
  <2>2. \A d \in Delivery : d[1] = e => row[d].status = "ABSENT"
    BY <1>1, <1>a DEF Publish, ClaimProtocol
  <2>3. \A d \in Delivery : d[1] \in Events
    BY DEF Delivery
  <2>4. ClaimProtocol'
    BY <1>0, <1>1, <1>a, <1>b, <2>1, <2>2, <2>3
       DEF Publish, ClaimProtocol, OwnsClaim, BudgetLeft, NoRow, TypeOK
  <2>5. OneOwnerUnlessReclaimed'
    BY <1>1, <1>a DEF Publish, OneOwnerUnlessReclaimed, Runs
  <2>6. AttemptsWithinBudget'
    BY <1>1, <1>a, <2>1 DEF Publish, AttemptsWithinBudget, NoRow
  <2> QED
    BY <2>4, <2>5, <2>6
<1>2. ASSUME NEW e \in Events, ScheduleSweep(e) \/ ScheduleFails(e) PROVE Inv'
  BY <1>0, <1>2, <1>a DEF ScheduleSweep, ScheduleFails, ClaimProtocol, OwnsClaim, BudgetLeft,
       OneOwnerUnlessReclaimed, AttemptsWithinBudget, Runs, TypeOK, Delivery
<1>3. ASSUME PublishOther \/ Sweep \/ SweepDies \/ (\E d \in Delivery : SkipDelivery(d))
             \/ BrokerLosesTasks \/ (\E c \in Consumers : Unsubscribe(c)) \/ UNCHANGED vars
      PROVE  Inv'
  <2>1. UNCHANGED <<row, hook, worker, handled, reclaimed>>
    BY <1>3 DEF PublishOther, Sweep, SweepDies, SkipDelivery, BrokerLosesTasks, Unsubscribe, vars
  <2> QED
    BY <1>a, <2>1 DEF ClaimProtocol, OwnsClaim, BudgetLeft, OneOwnerUnlessReclaimed,
                      AttemptsWithinBudget, Runs
<1>4. ASSUME NEW d \in Delivery, Reconcile(d) PROVE Inv'
  <2>0. row[d].status = "PROCESSING" /\ row' = WriteStatus(d, "FAILED_RETRYABLE", 0)
    BY <1>4 DEF Reconcile, LeaseExpired
  <2>1. /\ row[d].status = "PROCESSING" /\ reclaimed'[d]
        /\ row'[d].status = "FAILED_RETRYABLE" /\ row'[d].attempts = row[d].attempts
        /\ \A x \in Delivery \ {d} : row'[x] = row[x] /\ reclaimed'[x] = reclaimed[x]
        /\ UNCHANGED <<hook, worker, handled>>
    BY <1>0, <1>4, <2>0, WriteStatusType DEF Reconcile, TypeOK, Statuses
  <2>2. ClaimProtocol'
    BY <1>a, <1>b, <2>1 DEF ClaimProtocol, OwnsClaim, BudgetLeft
  <2>3. OneOwnerUnlessReclaimed'
    BY <1>a, <2>1 DEF OneOwnerUnlessReclaimed, Runs
  <2>4. AttemptsWithinBudget'
    BY <1>a, <2>1 DEF AttemptsWithinBudget
  <2> QED
    BY <2>2, <2>3, <2>4
<1>5. ASSUME NEW w \in Workers, NEW d \in Delivery, ClaimDelivery(w, d) PROVE Inv'
  <2>1. /\ row'[d].status = "PROCESSING"
        /\ row'[d].attempts = Bump(row[d].attempts, AttemptCap)
        /\ reclaimed'[d] = (reclaimed[d] \/ LeaseExpired(d))
        /\ \A x \in Delivery \ {d} : row'[x] = row[x] /\ reclaimed'[x] = reclaimed[x]
        /\ worker'[w].d = d /\ worker'[w].pc = "claimed" /\ worker[w] = Idle
        /\ \A v \in Workers \ {w} : worker'[v] = worker[v]
        /\ UNCHANGED <<hook, handled>>
    BY <1>0, <1>5 DEF ClaimDelivery, Claimed, TypeOK, Row
  \* Without a revoked claim nobody else runs d, and the budget has room.
  <2>2. ~reclaimed'[d] => ~reclaimed[d] /\ row[d].status \in {"PENDING", "FAILED_RETRYABLE"}
    BY <1>5, <2>1 DEF ClaimDelivery, Claimable
  <2>3. ~reclaimed'[d] => \A v \in Workers : worker[v] # Idle => worker[v].d # d
    BY <1>a, <2>2 DEF ClaimProtocol, OwnsClaim
  <2>4. ~reclaimed'[d] => row'[d].attempts <= MaxRetries
    BY <1>0, <1>a, <2>1, <2>2 DEF ClaimProtocol, BudgetLeft, Bump, TypeOK, Row
  <2>5. row[d].status # "ABSENT"
    BY <1>5 DEF ClaimDelivery, Claimable, LeaseExpired
  <2>6. ClaimProtocol'
    <3>1. \A v \in Workers : worker'[v] # Idle => OwnsClaim(v)'
      BY <1>a, <1>b, <2>1, <2>3 DEF ClaimProtocol, OwnsClaim
    <3>2. \A x \in Delivery : BudgetLeft(x)'
      BY <1>a, <2>1 DEF ClaimProtocol, BudgetLeft
    <3> QED
      BY <1>a, <2>1, <2>5, <3>1, <3>2 DEF ClaimProtocol
  <2>7. OneOwnerUnlessReclaimed'
    BY <1>a, <2>1, <2>3 DEF OneOwnerUnlessReclaimed, Runs
  <2>8. AttemptsWithinBudget'
    BY <1>0, <1>a, <2>1, <2>4 DEF AttemptsWithinBudget, TypeOK, Row
  <2> QED
    BY <2>6, <2>7, <2>8
<1>6. ASSUME NEW w \in Workers, ReadClaimed(w) \/ SubscriberReturns(w) \/ SubscriberRaises(w)
      PROVE  Inv'
  <2>1. /\ worker[w] # Idle /\ worker'[w].d = worker[w].d
        /\ worker'[w].pc \in {"running", "failed"}
             => worker'[w].attempts = row[worker[w].d].attempts
                \/ (worker[w].pc = "running" /\ worker'[w].attempts = worker[w].attempts)
        /\ worker'[w].pc = "succeeded" => handled'[worker[w].d]
        /\ \A v \in Workers \ {w} : worker'[v] = worker[v]
        /\ UNCHANGED <<row, hook, reclaimed>>
        /\ \A d \in Delivery : handled[d] => handled'[d]
    BY <1>0, <1>6, <1>b DEF ReadClaimed, SubscriberReturns, SubscriberRaises, TypeOK, Task
  <2>2. ClaimProtocol'
    BY <1>a, <1>b, <2>1 DEF ClaimProtocol, OwnsClaim, BudgetLeft
  <2>3. OneOwnerUnlessReclaimed'
    BY <1>a, <2>1 DEF OneOwnerUnlessReclaimed, Runs
  <2>4. AttemptsWithinBudget'
    BY <1>a, <2>1 DEF AttemptsWithinBudget
  <2> QED
    BY <2>2, <2>3, <2>4
<1>7. ASSUME NEW w \in Workers,
             FinalizeDelivered(w) \/ FinalizeRetryable(w) \/ FinalizeTerminal(w)
      PROVE  Inv'
  <2> DEFINE d == worker[w].d
  <2>0. worker[w] # Idle /\ d \in Delivery
    BY <1>7, <1>b DEF FinalizeDelivered, FinalizeRetryable, FinalizeTerminal
  <2>1. PICK s \in {"DELIVERED", "FAILED_RETRYABLE", "FAILED_TERMINAL"}, n \in 0..RetryDelay :
          /\ row' = WriteStatus(d, s, n)
          /\ s = "DELIVERED" => worker[w].pc = "succeeded"
          /\ s = "FAILED_RETRYABLE" => worker[w].pc = "failed" /\ worker[w].attempts < MaxRetries
          /\ Finish(w)
          /\ UNCHANGED <<hook, handled, reclaimed>>
    BY <1>7 DEF FinalizeDelivered, FinalizeRetryable, FinalizeTerminal
  <2>2. /\ row'[d].status = s
        /\ row'[d].attempts = row[d].attempts
        /\ \A x \in Delivery \ {d} : row'[x] = row[x]
    BY <1>0, <2>0, <2>1, WriteStatusType DEF Statuses
  <2>3. worker'[w] = Idle /\ \A v \in Workers \ {w} : worker'[v] = worker[v]
    BY <1>0, <2>1 DEF Finish, TypeOK
  <2>4. \A v \in Workers : worker'[v] # Idle /\ ~reclaimed[d] => worker'[v].d # d
    BY <1>a, <2>0, <2>1, <2>2, <2>3 DEF OneOwnerUnlessReclaimed, Runs
  <2>5. ClaimProtocol'
    <3>1. \A v \in Workers : worker'[v] # Idle => OwnsClaim(v)'
      BY <1>a, <1>b, <2>1, <2>2, <2>3, <2>4 DEF ClaimProtocol, OwnsClaim
    <3>2. \A x \in Delivery : BudgetLeft(x)'
      BY <1>a, <2>0, <2>1, <2>2, <2>3 DEF ClaimProtocol, OwnsClaim, BudgetLeft
    <3>3. \A x \in Delivery : row'[x].status = "DELIVERED" => handled'[x]
      BY <1>a, <2>0, <2>1, <2>2 DEF ClaimProtocol, OwnsClaim
    <3>4. \A x \in Delivery : hook'[x[1]] = "none" => row'[x].status = "ABSENT"
      BY <1>a, <2>0, <2>1, <2>2, <2>3 DEF ClaimProtocol, OwnsClaim
    <3> QED
      BY <3>1, <3>2, <3>3, <3>4 DEF ClaimProtocol
  <2>6. OneOwnerUnlessReclaimed'
    BY <1>a, <2>1, <2>2, <2>3 DEF OneOwnerUnlessReclaimed, Runs
  <2>7. AttemptsWithinBudget'
    BY <1>a, <2>0, <2>1, <2>2, <2>3 DEF AttemptsWithinBudget
  <2> QED
    BY <2>5, <2>6, <2>7
<1>8. ASSUME NEW w \in Workers, WorkerDies(w) PROVE Inv'
  <2>1. /\ worker'[w] = Idle /\ \A v \in Workers \ {w} : worker'[v] = worker[v]
        /\ UNCHANGED <<row, hook, handled, reclaimed>>
    BY <1>0, <1>8 DEF WorkerDies, Finish, TypeOK
  <2> QED
    BY <1>a, <2>1 DEF ClaimProtocol, OwnsClaim, BudgetLeft, OneOwnerUnlessReclaimed,
                      AttemptsWithinBudget, Runs
<1>9. ASSUME Tick PROVE Inv'
  <2>1. /\ \A d \in Delivery : row'[d].status = row[d].status /\ row'[d].attempts = row[d].attempts
        /\ \A w \in Workers : worker[w] = Idle => worker'[w] = Idle
        /\ \A w \in Workers : worker[w] # Idle =>
              worker'[w].pc = worker[w].pc /\ worker'[w].d = worker[w].d
              /\ worker'[w].attempts = worker[w].attempts
        /\ UNCHANGED <<hook, handled, reclaimed>>
    BY <1>0, <1>9, <1>b DEF Tick, OlderRow, OlderTask, TypeOK, Row, Task
  <2>2. ClaimProtocol'
    BY <1>a, <1>b, <2>1 DEF ClaimProtocol, OwnsClaim, BudgetLeft
  <2>3. OneOwnerUnlessReclaimed'
    BY <1>a, <2>1 DEF OneOwnerUnlessReclaimed, Runs
  <2>4. AttemptsWithinBudget'
    BY <1>a, <2>1 DEF AttemptsWithinBudget
  <2> QED
    BY <2>2, <2>3, <2>4
<1>10. Inv'
  BY <1>1, <1>2, <1>3, <1>4, <1>5, <1>6, <1>7, <1>8, <1>9 DEF Next, WorkerStep
<1> QED
  BY <1>0, <1>10 DEF IInv

\* However many workers, sweeps, duplicates and crashes: two workers run the
\* same delivery only after a claim of it was taken away.
THEOREM ClaimExcludes == Spec => []OneOwnerUnlessReclaimed
<1> QED
  BY InitInv, NextInv, PTL DEF Spec, IInv

\* A delivery is attempted more often than max_retries only after a claim of
\* it was taken away.
THEOREM BudgetHolds == Spec => []AttemptsWithinBudget
<1> QED
  BY InitInv, NextInv, PTL DEF Spec, IInv

\* Who works on a delivery is in the statement its row says: every claim is
\* held, written under and given up as the status protocol has it.
THEOREM ClaimsAreKept == Spec => []ClaimProtocol
<1>1. IInv => ClaimProtocol
  BY DEF IInv
<1> QED
  BY <1>1, InitInv, NextInv, PTL DEF Spec

-----------------------------------------------------------------------------
(* Refinement: every step of the rows and workers is a step of the ledger.  *)

\* How a step changes the row of a delivery that already has one: its status
\* stays, or a worker claims it, revoking an expired claim, or an operator
\* reconciles it, or its owner concludes.
LEMMA RowSteps ==
    ASSUME IInv, Next
    PROVE  \/ /\ \A d \in Delivery : row'[d].status = row[d].status
              /\ UNCHANGED reclaimed
              /\ \/ UNCHANGED handled
                 \/ \E d \in Delivery : row[d].status # "ABSENT"
                                        /\ handled' = [handled EXCEPT ![d] = TRUE]
           \/ /\ \E ds \in SUBSET Delivery :
                    /\ \A d \in ds : row[d].status = "ABSENT" /\ row'[d].status = "PENDING"
                    /\ \A d \in Delivery \ ds : row'[d].status = row[d].status
              /\ UNCHANGED <<handled, reclaimed>>
           \/ \E d \in Delivery :
                 /\ row[d].status \in {"PENDING", "PROCESSING", "FAILED_RETRYABLE"}
                 /\ row'[d].status \in {"PROCESSING", "FAILED_RETRYABLE"}
                 /\ \A x \in Delivery \ {d} : row'[x].status = row[x].status
                 /\ reclaimed' = reclaimed \/ reclaimed' = [reclaimed EXCEPT ![d] = TRUE]
                 /\ UNCHANGED handled
           \/ \E d \in Delivery :
                 /\ row[d].status = "PROCESSING" \/ reclaimed[d]
                 /\ row[d].status # "ABSENT"
                 /\ row'[d].status \in {"DELIVERED", "FAILED_RETRYABLE", "FAILED_TERMINAL"}
                 /\ row'[d].status = "DELIVERED" => handled[d]
                 /\ \A x \in Delivery \ {d} : row'[x].status = row[x].status
                 /\ UNCHANGED <<handled, reclaimed>>
<1>0. TypeOK
  BY DEF IInv
<1>b. \A w \in Workers : worker[w] # Idle => worker[w].d \in Delivery /\ OwnsClaim(w)
  BY <1>0, TaskType DEF IInv, ClaimProtocol
<1> DEFINE Stays == /\ \A d \in Delivery : row'[d].status = row[d].status
                    /\ UNCHANGED <<handled, reclaimed>>
<1>1. ASSUME NEW e \in Events, Publish(e)
      PROVE  \E ds \in SUBSET Delivery :
                 /\ \A d \in ds : row[d].status = "ABSENT" /\ row'[d].status = "PENDING"
                 /\ \A d \in Delivery \ ds : row'[d].status = row[d].status
  <2> DEFINE ds == {d \in Delivery : d[1] = e /\ d[2] \in registry}
  <2>1. \A d \in ds : row[d].status = "ABSENT"
    BY <1>1 DEF Publish, IInv, ClaimProtocol
  <2>2. \A d \in Delivery : row'[d] = IF d \in ds THEN [NoRow EXCEPT !.status = "PENDING"] ELSE row[d]
    BY <1>1 DEF Publish
  <2>3. [NoRow EXCEPT !.status = "PENDING"].status = "PENDING"
    BY DEF NoRow
  <2> WITNESS ds \in SUBSET Delivery
  <2> QED
    BY <2>1, <2>2, <2>3
<1>2. ASSUME NEW w \in Workers, NEW d \in Delivery, ClaimDelivery(w, d)
      PROVE  /\ row[d].status \in {"PENDING", "PROCESSING", "FAILED_RETRYABLE"}
             /\ row'[d].status = "PROCESSING"
             /\ \A x \in Delivery \ {d} : row'[x].status = row[x].status
             /\ reclaimed' = reclaimed \/ reclaimed' = [reclaimed EXCEPT ![d] = TRUE]
             /\ UNCHANGED handled
  <2>1. row[d].status \in {"PENDING", "PROCESSING", "FAILED_RETRYABLE"}
    BY <1>2 DEF ClaimDelivery, Claimable, LeaseExpired
  <2>2. row'[d].status = "PROCESSING" /\ \A x \in Delivery \ {d} : row'[x].status = row[x].status
    BY <1>0, <1>2 DEF ClaimDelivery, Claimed, TypeOK, Row
  <2>3. CASE LeaseExpired(d)
    BY <1>2, <2>1, <2>2, <2>3 DEF ClaimDelivery
  <2>4. CASE ~LeaseExpired(d)
    <3>1. reclaimed' = reclaimed
      BY <1>0, <1>2, <2>4 DEF ClaimDelivery, TypeOK
    <3> QED
      BY <1>2, <2>1, <2>2, <3>1 DEF ClaimDelivery
  <2> QED
    BY <2>3, <2>4
<1>3. ASSUME NEW d \in Delivery, Reconcile(d)
      PROVE  /\ row[d].status = "PROCESSING"
             /\ row'[d].status = "FAILED_RETRYABLE"
             /\ \A x \in Delivery \ {d} : row'[x].status = row[x].status
             /\ reclaimed' = [reclaimed EXCEPT ![d] = TRUE]
             /\ UNCHANGED handled
  BY <1>0, <1>3, WriteStatusType, ConstantsAssumption DEF Reconcile, LeaseExpired, Statuses
<1>4. ASSUME NEW w \in Workers,
             FinalizeDelivered(w) \/ FinalizeRetryable(w) \/ FinalizeTerminal(w)
      PROVE  \E d \in Delivery :
                 /\ row[d].status = "PROCESSING" \/ reclaimed[d]
                 /\ row[d].status # "ABSENT"
                 /\ row'[d].status \in {"DELIVERED", "FAILED_RETRYABLE", "FAILED_TERMINAL"}
                 /\ row'[d].status = "DELIVERED" => handled[d]
                 /\ \A x \in Delivery \ {d} : row'[x].status = row[x].status
                 /\ UNCHANGED <<handled, reclaimed>>
  <2> DEFINE d == worker[w].d
  <2>1. PICK s \in {"DELIVERED", "FAILED_RETRYABLE", "FAILED_TERMINAL"}, n \in 0..RetryDelay :
          /\ row' = WriteStatus(d, s, n)
          /\ s = "DELIVERED" => worker[w].pc = "succeeded"
          /\ worker[w] # Idle
          /\ UNCHANGED <<handled, reclaimed>>
    BY <1>4, ConstantsAssumption DEF FinalizeDelivered, FinalizeRetryable, FinalizeTerminal
  <2>2. d \in Delivery /\ OwnsClaim(w)
    BY <1>b, <2>1
  <2>3. row'[d].status = s /\ \A x \in Delivery \ {d} : row'[x] = row[x]
    BY <1>0, <2>1, <2>2, WriteStatusType DEF Statuses
  <2> QED
    BY <2>1, <2>2, <2>3 DEF OwnsClaim
<1>5. ASSUME NEW w \in Workers, SubscriberReturns(w)
      PROVE  /\ UNCHANGED <<row, reclaimed>>
             /\ \E d \in Delivery : row[d].status # "ABSENT"
                                   /\ handled' = [handled EXCEPT ![d] = TRUE]
  BY <1>5, <1>b DEF SubscriberReturns, OwnsClaim
<1>6. CASE Tick
  <2>1. \A d \in Delivery : row'[d].status = row[d].status
    BY <1>0, <1>6 DEF Tick, OlderRow, TypeOK, Row
  <2> QED
    BY <1>6, <2>1 DEF Tick
<1>7. ASSUME NEW e \in Events, Publish(e) PROVE UNCHANGED <<handled, reclaimed>>
  BY <1>7 DEF Publish
<1>8. ASSUME \/ \E e \in Events : ScheduleSweep(e) \/ ScheduleFails(e)
             \/ PublishOther \/ Sweep \/ SweepDies \/ BrokerLosesTasks
             \/ \E d \in Delivery : SkipDelivery(d)
             \/ \E w \in Workers : ReadClaimed(w) \/ SubscriberRaises(w) \/ WorkerDies(w)
             \/ \E c \in Consumers : Unsubscribe(c)
      PROVE  Stays
  BY <1>8 DEF ScheduleSweep, ScheduleFails, PublishOther, Sweep, SweepDies, BrokerLosesTasks,
              SkipDelivery, ReadClaimed, SubscriberRaises, WorkerDies, Unsubscribe
<1> QED
  BY <1>1, <1>2, <1>3, <1>4, <1>5, <1>6, <1>7, <1>8 DEF Next, WorkerStep

\* DELIVERED and FAILED_TERMINAL are final unless a claim was taken away.
THEOREM SettledIsFinal == Spec => SettledUnlessReclaimed
<1>1. IInv /\ [Next]_vars =>
        [\A d \in Delivery :
            row[d].status \in Settled /\ ~reclaimed[d] => row'[d].status = row[d].status]_vars
  BY RowSteps DEF Settled
<1> QED
  BY <1>1, InitInv, NextInv, PTL DEF Spec, SettledUnlessReclaimed

\* The ledger's states under the refinement mapping.
LEMMA LedgerStates ==
    /\ LedgerState("ABSENT") = "none"
    /\ \A s \in {"PENDING", "PROCESSING", "FAILED_RETRYABLE"} : LedgerState(s) = "owed"
    /\ LedgerState("DELIVERED") = "delivered"
    /\ LedgerState("FAILED_TERMINAL") = "dropped"
BY DEF LedgerState

\* The durable event platform implements the event ledger: an event is owed
\* from its commit, delivered only when heard, and settled for good unless a
\* claim of it was revoked.
THEOREM ImplementsTheLedger == Spec => ImplementsLedger
<1> DEFINE state == [d \in Delivery |-> LedgerState(row[d].status)]
<1>1. Init => Ledger!Init
  BY LedgerStates DEF Init, NoRow, Ledger!Init
<1>2. ASSUME IInv, Next PROVE Ledger!Next \/ UNCHANGED Ledger!ledger
  <2>0. TypeOK
    BY <1>2 DEF IInv
  <2>1. CASE /\ \A d \in Delivery : row'[d].status = row[d].status
             /\ UNCHANGED reclaimed
             /\ \/ UNCHANGED handled
                \/ \E d \in Delivery : row[d].status # "ABSENT"
                                       /\ handled' = [handled EXCEPT ![d] = TRUE]
    <3>1. state' = state
      BY <2>1
    <3>2. CASE UNCHANGED handled
      BY <2>1, <3>1, <3>2 DEF Ledger!ledger
    <3>3. ASSUME NEW d \in Delivery, row[d].status # "ABSENT",
                 handled' = [handled EXCEPT ![d] = TRUE]
          PROVE  Ledger!Hear(d)
      <4>1. LedgerState(row[d].status) # "none"
        BY <2>0, <3>3, LedgerStates DEF TypeOK, Row, Statuses
      <4> QED
        BY <2>1, <3>1, <3>3, <4>1 DEF Ledger!Hear
    <3> QED
      BY <2>1, <3>2, <3>3 DEF Ledger!Next
  <2>2. ASSUME NEW ds \in SUBSET Delivery,
               \A d \in ds : row[d].status = "ABSENT" /\ row'[d].status = "PENDING",
               \A d \in Delivery \ ds : row'[d].status = row[d].status,
               UNCHANGED <<handled, reclaimed>>
        PROVE  Ledger!Owe(ds)
    BY <2>2, LedgerStates DEF Ledger!Owe
  <2>3. ASSUME NEW d \in Delivery,
               row[d].status \in {"PENDING", "PROCESSING", "FAILED_RETRYABLE"},
               row'[d].status \in {"PROCESSING", "FAILED_RETRYABLE"},
               \A x \in Delivery \ {d} : row'[x].status = row[x].status,
               reclaimed' = reclaimed \/ reclaimed' = [reclaimed EXCEPT ![d] = TRUE],
               UNCHANGED handled
        PROVE  Ledger!Revoke(d) \/ UNCHANGED Ledger!ledger
    <3>1. state' = state /\ LedgerState(row[d].status) = "owed"
      BY <2>3, LedgerStates
    <3> QED
      BY <2>3, <3>1 DEF Ledger!Revoke, Ledger!ledger
  <2>4. ASSUME NEW d \in Delivery,
               row[d].status = "PROCESSING" \/ reclaimed[d],
               row[d].status # "ABSENT",
               row'[d].status \in {"DELIVERED", "FAILED_RETRYABLE", "FAILED_TERMINAL"},
               row'[d].status = "DELIVERED" => handled[d],
               \A x \in Delivery \ {d} : row'[x].status = row[x].status,
               UNCHANGED <<handled, reclaimed>>
        PROVE  \E outcome \in {"owed", "delivered", "dropped"} : Ledger!Conclude(d, outcome)
    <3> DEFINE outcome == LedgerState(row'[d].status)
    <3>1. /\ outcome \in {"owed", "delivered", "dropped"}
          /\ outcome = "delivered" => handled[d]
      BY <2>4, LedgerStates
    <3>2. /\ LedgerState(row[d].status) # "none"
          /\ LedgerState(row[d].status) = "owed" \/ reclaimed[d]
      BY <2>0, <2>4, LedgerStates DEF TypeOK, Row, Statuses
    <3>3. state' = [state EXCEPT ![d] = outcome]
      BY <2>4
    <3>4. Ledger!Conclude(d, outcome)
      BY <2>4, <3>1, <3>2, <3>3 DEF Ledger!Conclude
    <3> QED
      BY <3>1, <3>4
  <2> QED
    BY RowSteps, <1>2, <2>1, <2>2, <2>3, <2>4 DEF Ledger!Next
<1>3. UNCHANGED vars => UNCHANGED Ledger!ledger
  BY DEF vars, Ledger!ledger
<1>4. IInv /\ [Next]_vars => [Ledger!Next]_(Ledger!ledger)
  BY <1>2, <1>3
<1> QED
  BY <1>1, <1>4, InitInv, NextInv, PTL DEF Spec, ImplementsLedger, Ledger!Spec
=============================================================================
