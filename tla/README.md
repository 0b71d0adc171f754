# A formal model of the A-Study backend

A-Study is a study platform: a Django backend with Celery workers, PostgreSQL and
Redis (`src/backend`), and a Next.js client (`src/frontend`). Documents are
imported, taken through a processing pipeline, reviewed by people, published into
an academic structure, indexed for retrieval and taught from. This directory holds
TLA+ modules for the parts of the backend whose correctness rests on the order of
steps taken by several actors, the TLC configurations that check them, and TLAPS
proofs for every value of the constants.

Facts about the deployment that every module relies on: PostgreSQL under READ
COMMITTED, Django in autocommit (no `ATOMIC_REQUESTS`), so that a statement
outside `transaction.atomic` is a transaction of its own and its `on_commit` runs
at once; Celery with a Redis broker, tasks acknowledged on receipt, a hard task
limit of 30 minutes (`config/settings/base.py:163`), and no periodic schedule.

## Inventory

| Component (`src/backend/apps`) | State | Operations | What is hard | What makes it correct | Status |
|---|---|---|---|---|---|
| `core`: durable events | event and delivery rows, leases | publish, sweep, claim, finalize, reconcile | duplicate tasks, crash between claim and finalizer, leases shorter than tasks, lost tasks | one owner, bounded attempts, final outcomes, every delivery settles | modelled |
| `content_processing`: job lifecycle | job row, attempts, stage results, queued tasks | import, queue, stage, retry, cancel, delete | unlocked full-row saves beside a locked pipeline; several statements per request | stages in order, review only of validated content, no forgotten job, deletion and cancellation hold | modelled but for diagnostics and progress |
| `content_processing`: stage processors | documents, hierarchies, segments, proposals | inspect, extract, structure, segment, validate, populate, index | none concurrent: pure computation in the stage's transaction | determinism | outcome only |
| `content_processing`: teaching readiness | evaluations, lineage fingerprints | evaluate, invalidate | stale lineage, idempotency keys, lock order, saves of the job that know nothing of the grant | what may be taught has evidence and an index, and stays so until somebody decides otherwise | modelled |
| `content_intelligence` | import row, stored file | import, retry, delete | deletion beside the pipeline; storage after commit | no half-deleted import | import and delete as they act on the job |
| `academic_review` | review sessions, decisions, readiness snapshots, projections | start, decide, submit, approve, reject, reprocess | stale snapshots, concurrent reviewers | approval of exactly what was reviewed | approval only, as an assumption; see Not modelled |
| `academic_review`: population | population runs | evaluate, populate, retry | unlocked pre-checks, idempotency keys | one populated run per projection | see Not modelled |
| `retrieval` | generations, runs, chunks | synchronize, promote, retire | content read more than once without a lock, promotion order, a run that dies | one whole active generation with nothing missing, runs that end, history that stays | modelled but for ranking and the earlier index |
| `learning_journeys` | journeys, progression | start, advance, complete | progression from duplicate events | monotone progression | planned |
| `self_study` | curricula, graphs, sessions | generate, revise, orchestrate | worker claims, successor chains | one current revision | planned |
| `learning_identity` | profile, versions, evidence links, marks | draft, declare, publish, withdraw, link and end evidence, onboard, restrict, archive | clients that act on what they read before; copies between versions; archived profiles that come back | one open profile, one published version, frozen history, disputes reviewed | modelled but for observations, corrections and values |
| `assessments`, `assessment_review`, `remediation` | attempts, mastery, cases | start, answer, grade | event-driven hand-over | one outcome per attempt | candidate |
| `learning`, `ariel`, `study_lab` | conversations, speech, instruments | converse, speak, compute | external providers | mostly data | not modelled |
| `academic`, `educational_organization`, `classroom_learning`, `users`, `settings`, `audit`, `notifications`, `storage` | single-row records, files | create, read, update, archive | little | sequential | not modelled |
| `frontend` | presentation | HTTP calls | none here | none here | not modelled |

`analytics`, `curriculum`, `documents` and `institutions` are empty packages; `ai`
holds provider interfaces.

How the parts interact: a service changes its rows and publishes business events
in the same transaction or right after it; the event platform delivers them to
subscribers (`content_intelligence/apps.py`, `assessment_review/apps.py`,
`self_study/apps.py`). Import creates a processing job; each stage of the job
dispatches the next; VALIDATING yields a proposal, which is accepted by policy or
reviewed; population and retrieval feed the grant of
teaching readiness; deletion cuts across all of it.

The hazards that drive the properties are listed in `PROJECT.json`, each at its
line, with those not covered yet and why.

## Modules

| Module | Models | Extends |
|---|---|---|
| `EventLedger` | what the event platform promises, without rows, leases or tasks | |
| `DurableEvents` | `core/services/durable_events.py`, `core/tasks.py`, `core/events/publisher.py`; implements `EventLedger` | |
| `MCDurableEvents` | instances for TLC | `DurableEvents` |
| `DurableEventsProofs` | theorems | `DurableEvents`, `TLAPS` |
| `ImportLifecycle` | what content processing promises of an import, without rows, stages, tasks or requests | |
| `ContentProcessing` | `content_processing` job lifecycle with import, deletion, review and readiness as they act on it; implements `ImportLifecycle` | |
| `MCContentProcessing` | instances for TLC | `ContentProcessing` |
| `ContentProcessingProofs` | theorems that hold whatever requests overwrite | `ContentProcessing`, `TLAPS` |
| `ContentProcessingQuietProofs` | theorems about the time before the first overwrite, or before the first fault | `ContentProcessingProofs` |
| `ContentProcessingLifecycleProofs` | the refinement of `ImportLifecycle` | `ContentProcessingQuietProofs` |
| `SearchIndex` | what synchronization promises of a resource's index, without requests, transactions, generations or chunks | |
| `RetrievalSync` | `retrieval/application/synchronization_services.py` with its tables, and the academic content it reads; implements `SearchIndex` | |
| `MCRetrievalSync` | instances for TLC | `RetrievalSync` |
| `RetrievalSyncProofs` | theorems, the refinement of `SearchIndex` among them | `RetrievalSync`, `TLAPS` |
| `TeachingDecisions` | what the governance of readiness promises, without snapshots, row locks or transactions | |
| `TeachingReadiness` | `content_processing/application/teaching_readiness_services.py` and deletion, composed with the index they rest on; implements `TeachingDecisions` | `RetrievalSync` |
| `MCTeachingReadiness` | instances for TLC | `TeachingReadiness` |
| `TeachingReadinessProofs` | theorems, the refinements of `RetrievalSync` and of `TeachingDecisions` among them | `TeachingReadiness`, `RetrievalSyncProofs` |
| `ProfileHistory` | what the learning profile promises to a learner and to the clients that read it, without drafts, evidence, marks or counters | |
| `LearningIdentity` | `learning_identity`: the commands of `application/` on a learner's profile; implements `ProfileHistory` | |
| `MCLearningIdentity` | instances for TLC, with its symmetry | `LearningIdentity` |
| `LearningIdentityProofs` | theorems, the refinement of `ProfileHistory` among them | `LearningIdentity`, `TLAPS` |

Operators whose names end in `_Something` and whose comment says "Mutant" are
variants of the definition that follows them, each with a plausible bug; no
specification uses them. They document what each property is able to detect.

### DurableEvents

A delivery is a pair of an event and a consumer. `row` is the delivery row: its
status, `attempt_count`, the age of `processing_started_at` and the wait until
`next_attempt_at`. `hook` is the producer's commit hook, `sweeps` and `tasks` the
broker's queues, `worker` what each Celery slot runs, `registry` the consumers
that the deployed code subscribes.

One action is one transaction, one broker call or one subscriber call, so a worker
goes through `ClaimDelivery` (the locked transaction of `execute`), `ReadClaimed`
(the unlocked read and the lookup of the subscriber), `SubscriberReturns` or
`SubscriberRaises`, and one of the finalizers, which lock the row and write it
without looking at what it holds. Time is relative and saturates where the code
no longer tells values apart; `Tick` is bounded by the hard task limit, so that a
worker may outlive its lease, as in the code, but not the limit. `WorkerDies`,
`SweepDies`, `ScheduleFails` and `BrokerLosesTasks` lose what the real failure
loses. `Unsubscribe` is a deployment without some consumer. `Reconcile` is the
service that no task calls; an operator may.

Two ghosts: `handled` (the subscriber returned normally) and `reclaimed` (a claim
was taken away because its lease ran out). The safety properties are conditioned
on `reclaimed`, which is the exact point where the code stops promising them; the
run `events_reopened` shows that beyond it they fail.

Left out: payload sanitising, logging, the batch size of 100, and `skip_locked`
(a row locked during a sweep is about to be claimed or finalized, and both are
single actions here).

`EventLedger` knows of each delivery whether it is owed, delivered or dropped,
whether its subscriber heard it, and whether a claim was revoked. The refinement
mapping sends PENDING, PROCESSING and FAILED_RETRYABLE to owed, DELIVERED to
delivered, FAILED_TERMINAL to dropped.

### ContentProcessing

One job row. Stages are numbers in the order of `STAGE_SEQUENCE`; `ReviewStage`
is VALIDATING and `LastStage` is INDEXING. `attempts` holds the attempt rows,
`results` the stage results, `tasks` the queued `process_stage` tasks, `sessions`
the attempts whose proposal has an open review.

A stage task runs in one transaction under the row lock (`get_for_update`), the
processor included, so it is one action: `SkipStage` (the early returns and the
stale-attempt error), `StageRefused` (`begin_stage` raises and the handler records
a failure), `StageFails` (the processor raises), `StageAdvances` and
`StageEndsRun`. Within it the cancellation check after the processor
(`services.py:676`) can not be taken: the job was read under the lock, and
`begin_stage` has already refused a cancelled one.

Requests take no lock. Each reads the row and saves all its columns some
statements later, so `op` keeps, for each request in flight, its next statement,
its copy of the row, and the attempt it found. Import is `CreateJob`,
`AppendFirstAttempt`, then queue; or `ResolveJob`, then queue. Queue is
`QueueFindsAttempt`, `QueueSaves`; cancel is four statements; retry appends the
attempt, saves the job, then queues; deletion reads, then commits in one
transaction. `SaveJob` writes the copy over whatever the row holds.
`transition_version` is never compared in the code and so is not in the model.
What the database does refuse is kept: the unique attempt number (`NumberFree`),
and a foreign key to an import row that was deleted (`LinkHolds`);
`RequestRefused` ends such a request. A second deletion that read the job before
the first one committed is refused in the model, and commits in the code, where it
deletes what is deleted.

A reviewer's request for reprocessing is no action. Its first query locks a row
joined to its nullable reviewer
(`academic_review/infrastructure/persistence/repositories.py:10-13`), which
PostgreSQL refuses, so that it raises before it reads or writes the job.

Abstractions: a processor is its outcome; failure codes are "retryable" or "final"
as `RetryPolicy` classifies them; the session of a proposal opens when the run
stops at VALIDATING; approval and rejection are `CloseReview`, which may come at
any later time and is an assumption (its locking query has the same flaw as
reprocessing's, and without it nothing would ever be taught); the readiness policy
is its need for a closed review;
a save and the dispatch that follows it at once are one action, and a death
between the two is `LoseTask`. A task loss within a stage's transaction leaves
nothing, as the transaction rolls back. A database error inside a processor poisons
the stage's transaction, so that its failure handler fails too
(`services.py:748-750`): all is rolled back and the task is gone, which is
`LoseTask` as well.

Ghosts: `overwrote` (a request saved over a row it had not read) and `faults`.

`ImportLifecycle` knows of an import its phase, the number of its current attempt,
which attempts have validated a proposal, and whether a save has discarded another
one. The refinement mapping sends ACTIVE to working, READY_FOR_REVIEW to offered,
READY_FOR_TEACHING to taught and the other statuses to phases of their names; an
attempt is validated when it has a result of `ReviewStage`. Its actions say what a
change of the row must rest on: content is offered only for the attempt that
validated it, a cancellation ends an attempt at once only before it has validated
anything, a restart follows a failure or a cancellation and gives the attempt a
new number. A save over a row that was not read is an `Overwrite`, as is every
later step, which may change phase and number at will but for three things:
validated attempts stay validated, content is offered or taught only for an
attempt that is, and what has been deleted stays deleted. That is all that is left
of the lifecycle in code that compares no version, and it is left in every case.

### RetrievalSync

One resource. `content` is the official academic content that the gateway finds: of
each part that was planned for (a concept with the section it is in) a version, or
`Withheld` when it is not approved and active. The manifest fingerprint is the
content it was computed from. `run` and `generation` are the two rows that a
request creates, named by its idempotency key; `stored` says whose chunks are in
the table; `request` what each request is doing.

A request reads four times without a lock, and each read is an action, since
autocommit makes each a transaction of its own: whether the key was used
(`Arrive`), whether nothing that was planned for is missing (`CheckReady`), the
content again for the manifest (`ReadManifest`), and whether a run for that
manifest exists (`LookUp`). The second look at the content skips what is not
approved any more and counts nothing; it refuses only a manifest without any
chunk. So authors who withhold a part between the two make the request index
content with a part missing; the ghost `torn` says that this has happened. The
request then creates run and generation in one transaction (`Start`, or
`StartConflicts` on the unique key), stores the chunks in a second one or fails to
embed them (`StoreChunks`, `EmbeddingFails`), and promotes in a third (`Promote`,
`PromoteConflicts`). After the commit it publishes (`Publish`, `PublishFails`);
this is still inside the `try` block, so that a failure goes where all failures
go: to `Fail`, whose `fail()` refuses a run that has ended, and the refusal rolls
the block back. `Dies` may come between any two of these. `Edit` and `Withhold`
are authors, the latter of a concept, a section or everything; `Withhold` is
deletion as well, as far as the index is concerned.

One load of the gateway is two queries, sections and then concepts, and is taken as
one read; a load that mixes two moments one query apart is left out, and "when it was
read" below is meant of a load as a whole. The third load (line 150) gives only
identifiers that do not change.

`PromoteConflicts` is PostgreSQL checking a unique index at each statement: the
candidate becomes ACTIVE before the prior generation is superseded. Its
consequence is that, in the model as in the code, no generation is ever
superseded, and at most one run of a resource is ever synchronized.

`SearchIndex` knows the official content, the manifests that somebody has read, those
of them that somebody has found nobody to be indexing, the outcome of each attempt
and which one is searched. The refinement mapping takes the run for the attempt,
the requests that have read for the first set and the prepared ones for the second,
and the active generation for what is searched. So it says of the requests, the
three transactions and the failures between them that they amount to `Read` (of
what is official at that moment, with no part missing unless content was torn),
`LookUp`, `Begin`, and at most one of `Succeed` and `Fail`: storing, embedding,
publishing and dying change nothing that a search could see.

Left out: the source fingerprint, which does not change once a population run
exists; embeddings, citations and counts; ranking; the chunk collections of the
earlier index, which is what `retire` marks.

### TeachingReadiness

Extends `RetrievalSync` with `job` (the status of a processing job that reached
review), `evaluation` (the rows, by idempotency key), `evaluator` and
`invalidator` (what is in flight), and `holder` (the lock of the job row). The
lineage is the record that the fingerprint digests, of what the rest of the model
can change: the job's status, whether the content is approved, and which
generation is searched. `Passes` is the policy for it; the gates that nothing here
can fail are taken as passed. A snapshot is assembled by several queries and taken
as one read: none of the properties tells an old field from a new one but for the
job's status and the generation, each of which one query reads.

`Observe` is the unlocked part of `execute`; `LockJob` takes the row lock and the
second snapshot, and looks up the prior evaluation; `Record` and `RecordFails` are
the rest of the transaction. `OneCurrentEvaluation` is what the lock is for:
without it two evaluations would look up the same prior one, or none. Of the copy
of the job, the model keeps what the code saves: the job's status moves only with
a READY decision. `Collides` is `cp_readiness_lineage_policy_unique`, which counts
invalidated rows, and the unique key; `Refused` is `grant_teaching_readiness`,
which wants a job that is ready for review. An invalidation is aimed by its query
(`Aim`), locks the row, which may no longer qualify by then (`LockEvaluation`),
and needs the job's lock to commit (`Invalidate`). An evaluation that holds the
job and wants the row, and an invalidation that holds the row and wants the job,
are a deadlock, of which PostgreSQL aborts one (`AbortEvaluation`,
`AbortInvalidation`). A process that dies rolls its transaction back, which is no
new behaviour.

`SaveCopy` is what the unlocked requests of `ContentProcessing` do to the status: a
cancellation that read the job when it was ready for review may save its copy of
the whole row (`content_processing/application/services.py:521`) at any later time
at which no evaluation holds the row. `Mutable` has the statuses that such a copy
may hold. When it takes a grant away the evaluation stays current; the ghost
`discarded` keeps those evaluations until the next decision or revocation, and
`ReadyIsGranted` promises nothing of them.

`TeachingDecisions` knows the job's status, what is searched, every decision ever
taken, and the current one. An evaluation's `Record` is mapped to `Decide`: it takes
the place of the current decision, on a lineage that nobody has decided on, and
READY is granted only to a job that shows the status in the lineage still, and to
an index that still has the generations in it. `Invalidate` is `Revoke`, of a
decision that was READY, although the query that found it took no lock. `SaveCopy`
is `Overwrite`, which is in the abstract module because it is what the code does;
that it should not happen to what may be taught is `TaughtIsImmutable`. All else
that evaluations and invalidations do (observing, locking, colliding, waiting for
one another, aborting) changes nothing.

### LearningIdentity

One learner's profile beside the learner's `other` one, of which only matters
whether it is open. `version` holds the profile versions and the attributes
declared in each, `link` the evidence of each, `reviewRequired` the mark that an
attribute needs somebody to look at it. Every command is one transaction under the
lock of the profile (or of a version of it), so it is one action. What does
interleave is people: `view` is what a client read, until a command counts
(`profile.version += 1`); a command with an expected version is accepted only from
a client whose view stands. So `ReadIsTrue`, that such a view tells the truth,
is what the optimistic lock is for, and it is not obvious, since four commands
change something without counting: a declared attribute, a contradiction in a
profile under review, and another profile's opening and archiving. A client is
told of the current version's evidence, and those commands touch drafts and the
other profile only.

`ProfileHistory` knows the profile's status, the versions published so far with
their attributes, the one in force, whether the learner has another open profile,
and which clients know the profile as it is. In it a client who is informed is one
whose view stands. It says that the history only grows, that its latest version is
in force, that restricting, archiving and questioning a profile is done by somebody
who knows it, and that nobody stays informed of a profile that has changed. A
publication into an archived profile is an action of its own there, `Reopen`, which
is no promise but what the code leaves: never beside another open profile. That it
should not happen is `ArchivedTakesNoDraft`. Drafts,
attributes, evidence, marks and preferences are `Work`, or nothing if they do not
count.

`Publishing` is shared by publication, by the withdrawal of an attribute and by
onboarding, the last two of which create a version and publish it in one
transaction. Publication and withdrawal do not mind that the profile is archived,
and bring it back, although the domain model refuses a draft to such a profile and
`CreateDraft` asks it: only `li_one_open_profile_per_learner` stands in the way
(`MayBeOpen`). `Copied` and `CarriedOver` are what becomes of marks and evidence
when a version is made from the one before. `NeedsReview` is
`evaluate_profile_version_provenance`: it counts reason codes, and a mark without
evidence has none, so that a marked attribute whose evidence was not copied along
(as `CreateDraft` does) is published by the next onboarding without review.
`QuestionedIsMarked` and `UnseenIsUndisputed` say what does hold.

Left out: values of attributes, the sources of evidence and their authority,
receipts and idempotency keys (a repeated command answers from its record),
observations and correction requests, which touch neither a version nor the counter,
and `revoke`, which nothing calls. `review_required=True` is a parameter of
`AddDeclaredIdentityAttributeService` that no caller passes.

## Runs

| Run | Instance | Shows |
|---|---|---|
| `events_delivery` | 1 delivery, 3 workers, budget 2, lease 1, task limit 2, 1 crash | one owner, attempt budget, claim protocol, final outcomes, refinement of the ledger; every delivery settles while sweeps keep coming |
| `events_retryable` | as above, 2 workers, no crash | violated: a retryable delivery resumes |
| `events_reopened` | as above, 2 workers, no crash | violated: a delivered row stays delivered |
| `content_safety` | 2 stages, 2 requests, 2 attempts, no fault | the eight safety properties of the job |
| `content_liveness` | 2 stages, 1 request, 3 attempts, 1 fault | an active job comes to rest; refinement of the lifecycle |
| `retrieval_safety` | 2 requests, 2 keys, 2 parts, 1 version, 1 death | one whole generation is searched, with nothing missing unless torn; runs and generations end together, only a death leaves one in progress, every run ends; refinement of the index |
| `retrieval_replacement` | 1 request, 2 keys, 1 part, 2 versions | violated: promotion replaces the prior generation |
| `readiness_safety` | 2 evaluations, 2 keys, an invalidation, a deletion, late saves, 1 synchronization | one current evaluation, READY shown by the job unless a late save discarded it, teaching accounted for and searchable, every evaluation ends; refinement of the decisions |
| `readiness_revoked` | 1 evaluation at a time, 2 keys | violated: readiness is revoked before a new decision applies |
| `readiness_discarded` | 1 evaluation, a late save | violated: a job that may be taught is not changed |
| `identity_safety` | 2 clients, 2 versions, 2 attributes, 2 slots, 2 pieces of evidence | the eight properties of the profile; refinement of its history |
| `identity_archived` | 1 client, 2 versions, 1 attribute | violated: an archived profile receives no draft version |

Why the bounds are enough to be interesting. In `events_delivery` three workers
let a lease expire under a live worker, a second one take over, and the late
finalizer open the row to a third; a lease of one tick below a limit of two keeps
the code's order of 15 and 30 minutes; `AttemptCap` of 4 is above the budget of 2
attempts. One delivery suffices there because deliveries share nothing but the
queues and the workers, and the theorems hold for any number.

In `content_safety` two requests give every pair of interleaved requests with the
pipeline; the first stage is the one that may stop for review, so every kind of
stage is there; two attempts let a retry replace the first one, which is where
stale copies and stale tasks meet new ones. `MaxFaults` is 0 there: with one fault
the run passes too and takes three times as long, and in `content_liveness` faults
fire beside one request and three attempts; the theorems cover any number of both.
`TaskCap` of 1 keeps a second task of one attempt and stage out of the queue, so
that `OnlyCancellationRefuses` meets two queued INSPECTING tasks of one attempt
only in its theorem, which holds for any cap.

In `retrieval_safety` two keys let one synchronization follow on another, race it,
or find its run; two parts let one of them be withheld, or restored, between any
two reads of a request. In `readiness_safety` two evaluations and an invalidation
give every order of their locks and the deadlock; the second evaluation is the
replacement of the first or collides with it. One part and one version suffice
since a lineage tells only whether the content is approved; with one key no second
synchronization comes after the first, so that `TeachingIsSearchable` rests on its
theorem for that. There `Mutable` is READY_FOR_REVIEW alone, the status from which
a late save undoes a grant; `readiness_discarded` has the pipeline's too, and the
theorems any. In `identity_safety` two versions let one supersede the other, two
attributes let one stay while the other is declared anew or withdrawn, two pieces
of evidence let one succeed the other or be carried over, and the second client is
the one who did not see it. Every safety property of every passing run is also
proved, so that bounds are relied on only for the four liveness properties.

`CHECK_DEADLOCK FALSE` is set for the content runs because the system may stop: a
deleted job whose sessions are closed has nothing left to do. It is set for the
retrieval and readiness runs for the same reason: the keys are used up, or the
job is deleted. The event and the identity runs check deadlock.

Symmetry is used in `content_safety` and `identity_safety` only, which check no
liveness: over requests, and over everything `LearningIdentity` has names for.

### Fairness

`DurableEvents`: weak fairness of the commit hook, the sweep task, skipping, the
steps of a live worker and time; strong fairness of claiming each delivery, since
a broker queue drained by a pool serves each task in turn although slots become
busy in between. Nothing makes anybody publish and no schedule sweeps, so
`SettlesWhileSwept` takes as its premise that sweeps keep being enqueued.

`ContentProcessing`: weak fairness of each stage task and of a request that has
started. Nobody is obliged to start one.

`RetrievalSync`: weak fairness of a request that has started: it is one thread,
which runs on unless its process dies.

`TeachingReadiness`: strong fairness of taking the job's lock, of the rest of an
evaluation and of an invalidation, each of which is enabled again and again while
others hold what it waits for: PostgreSQL grants a row lock to its waiters in
turn.

`LearningIdentity`: none. Its commands are single transactions that people choose
to send, and the code promises nothing that would have to happen by itself.

## What the counterexamples say

* `events_retryable`: only `publisher.py:27` enqueues a sweep. A delivery that
  failed waits, past its retry delay, until another event is published; the
  runbook (`docs/admin/backend-operational-runbook.md:50`) expects retryable work
  to resume when workers return.
* `events_reopened`: a worker loses its claim to an expired lease, its successor
  delivers, then the first one fails and its finalizer
  (`durable_events.py:184`) turns DELIVERED into FAILED_RETRYABLE, although
  `docs/architecture/60-abbot-study-platform-implementation-report.md:414` relies
  on terminal-state checks.
* `retrieval_replacement`: `synchronization_services.py:202` saves the candidate
  as ACTIVE while the prior generation is, and the unique index
  (`retrieval/infrastructure/persistence/models.py:107`) makes the statement fail.
  Every synchronization after a resource's first ends FAILED, against
  `docs/architecture/46-approved-academic-retrieval-synchronization.md:21`.
* `readiness_revoked`: the content is withheld after readiness was granted; the
  next evaluation is BLOCKED, invalidates the granted one, and withdraws readiness
  on a copy of the job that `teaching_readiness_services.py:107` saves only for
  READY. The resource stays READY_FOR_TEACHING, against
  `docs/architecture/47-teaching-readiness-governance.md:43`.
* `readiness_discarded`: a cancellation reads a job that is ready for review, an
  evaluation grants it readiness, and the cancellation saves its copy. It asked the
  copy, not the row, whether the job may be changed, against
  `content_processing/domain/models.py:319-321`. A current READY evaluation is left
  that the job does not show, and its lineage can not be evaluated again.
* `identity_archived`: a declaration is published by onboarding, the profile is
  archived, and the declaration is withdrawn: the withdrawal creates a version, which
  `learning_identity/domain/models.py:98-100` refuses to an archived profile (and
  `tests/test_learning_profile_domain.py:38` tests), and publishes it, which makes the
  profile ACTIVE.

Each has a passing counterpart that says what does hold: `SettlesWhileSwept`,
`SettledUnlessReclaimed`, `ImplementsIndex` (an attempt that is refused so fails, and
takes nothing from what is searched), `TeachingIsAccounted` (some current
evaluation, if not a READY one, says why), `ReadyIsGranted` (only a late save hides a
grant, and only until the next decision), and `OneOpenProfile` with
`ImplementsHistory` (what comes back is never beside another open profile).

Two more disagreements are plain from the code and have no run. Deletion calls
`RetireRetrievalResourceService`
(`content_intelligence/application/deletion_service.py:95`), which is documented
as "Remove a resource from retrieval eligibility while retaining provenance."
(`retrieval/application/services.py:155-168`) and retires only the collections of
the earlier index: the active generation of a deleted resource is still searched,
and the model says so too. And readiness for synchronization is to require
complete section and concept mappings
(`docs/architecture/46-approved-academic-retrieval-synchronization.md`), which the
code checks on one load and does not on the load it indexes: `CompleteUnlessTorn`
says exactly when what is searched may lack a part.

## Proofs

The constants are assumed as `ConstantsAssumption` (naturals, a positive budget
and a cap above it), `PipelineAssumption` (a review stage strictly between QUEUED
and the last stage), `FinitelyMany` (finitely many idempotency keys, so that runs
can be counted), `SomeContent` (something was planned for), `ReviewIsMutable` (a
job ready for review may be changed, one that is taught or deleted may not),
`NobodyEvaluates` and `NamesAreDistinct` ("nobody" and "none" name nothing else);
TLC evaluates all of them. Everything below holds for any number of events,
consumers, workers, stages, attempts, requests, keys, evaluations, clients,
versions, attributes and faults.

`DurableEventsProofs`: `TypeCorrect`, `ClaimExcludes`, `BudgetHolds`,
`SettledIsFinal`, `ClaimsAreKept`, `ImplementsTheLedger`. The inductive invariant is the
conjunction of the type invariant, the two safety invariants and `ClaimProtocol`,
which is what makes them inductive: while its claim stands, a busy worker's row
says PROCESSING and carries the count that the worker read, and a row that may be
claimed has budget left. Without it a second claim could not be excluded, since
`ClaimDelivery` looks at the row and never at the workers. TLC checks
`ClaimProtocol` in `events_delivery`. The refinement is proved action by action,
each mapping to a ledger action or a stutter.

`ContentProcessingProofs`: `TypeCorrect`, `ResultsInOrder`, `ReviewIsEarned`,
`DeletionHolds`. Since requests save copies, what holds of the row must hold of
every copy that may still be written. `IInv` says that the stage of the row and of
each copy is backed by the results of the attempt it names (`AllBacked`), that a
task is queued only behind the results of the earlier stages (`TasksBacked`),
which copies still name the import row (`Links`), and what a request has
established at its statement (`AtStatement`). `DeletionHolds` then rests on the
foreign key: every copy that some request will still save names the import row, and
the database refuses it once that row is gone.

`ContentProcessingQuietProofs`: `NumbersAreFree`, `TasksAreInStep`, `ActiveIsMoved`,
`CancellationHolds`, which are the properties that a stale save can break. `overwrote`
never becomes false again, and while it is false a request that saves finds the row it
read, so that its guard, checked some statements earlier, still speaks of the row.
`QuietInv` adds to `IInv`, in two groups. As long as nothing was overwritten, whatever
was lost or died: no copy, task or result is ahead of the row's attempt number
(`Numbers`), and a task of the active attempt that is still to run is for the stage
the row is at (`Frontier`), which is what `begin_stage` would refuse otherwise. As
long as nothing was lost either (`Quiet`): an ACTIVE job has a task of its attempt
still to run, or a request that holds the row as it is and will dispatch one
(`Driven`), and a cancelled attempt is the active one only while the row says so or
the request that marked it is about to make it (`Rests`). `Rows` holds always: which
attempt rows exist, and who names them. `ActiveIsDriven` itself is not inductive: it
does not say that the request found in its way still holds the row that it read,
nor that the task found is one the row will not refuse.

`ContentProcessingLifecycleProofs`: `ImplementsTheLifecycle`. `LifecycleInv` adds
to `QuietInv` what a request has checked when it read the row and relies on when
it saves (`Intents`): a retry, that the attempt had failed or was cancelled; a
cancellation, that the job could still change. Each step is then shown to be one
action of the lifecycle, or to leave it as it is (`Stutters`). `Overwritten` deals
with all steps once a save has discarded another one; it rests on
`ReviewedIsValidated` and on `DeletedIsFinal`.

`RetrievalSyncProofs`: a theorem for each safety property of the run. `SyncInv`
adds to the type invariant that a key is driven by one request (`Alone`), which is
what makes up for the locks that a request does not carry from one transaction to
the next; that a run and its generation move together (`Paired`); where a request
has left its run at each stage (`AtStage`); and what is searched (`Searched`).
`OnlyDeathsLeaveRuns` counts: a step of a request leaves no run behind, and a
death leaves at most one more than before. `ImplementsTheIndex` maps each step to
one action of `SearchIndex`, or to a `Drop` of manifests that are no longer in
hand (`IndexSteps`). It rests on the whole of `SyncInv`: a promotion finds its run
in progress because of `AtStage`, and a failure leaves what is searched alone
because of `Paired`. `SearchedIsComplete` has an invariant of its own,
`WholeUnlessTorn`: until content is torn, a request that has found nothing missing
finds nothing missing when it reads, and what it holds, and what runs were made
of, is complete; the refinement needs it for `Read`. `EndedRunsAreHistory`
(`HistoryStays`) is proved besides, and no run checks it, as the refinement says
more.

`TeachingReadinessProofs`: a theorem for each safety property of the run, with
`TRInv`, which contains `SyncInv`. `Held` says that an invalidation that holds an
evaluation holds a current one, although it was aimed without a lock; `Locking`
that what an evaluation looked up under the job's lock is true until it lets go,
which wants `NobodyEvaluates` (the word for no holder names no evaluation); `Promised`
that a generation which a snapshot saw active is active still, however much later
the snapshot is used, which is why `TeachingIsSearchable` survives a decision
taken before the lock. `EvidenceIsKept` (`EvaluationsAreEvidence`, which no run
checks) needs no invariant but the types: a
key is written once because `Collides` looks at every evaluation ever recorded.
`IndexIsUndisturbed` is the refinement: the composition, hiding readiness, is a
behaviour of `RetrievalSync`, deletion being one of its `Withhold` steps or a
stutter, so that the theorems about synchronization hold of it;
`IndexStaysImplemented` draws the conclusion for `SearchIndex`.
`ImplementsTheDecisions` is the other refinement, of `TeachingDecisions`. It adds
`Steady`, that a job locked by an evaluation is not deleted and still has the status
that the second snapshot saw if the evaluation is not stale (late saves wait for the
lock too), and `Aiming`, that an
invalidation is after an evaluation that is recorded and READY. `Promised` then
gives the index, and `Locking` that what is replaced is all that is current.

`LearningIdentityProofs`: a theorem for each property of the run, and
`RestrictionIsKept` and `EndedEvidenceIsFinal`, that a restricted profile stays
restricted until it is archived and terminal evidence as it is, which no run
checks. `IInv` joins the state invariants but for the marks with
`EvidenceHasVersion` (what has no version has no evidence), without which a
version that is created could find evidence that was there before it.
`OptimisticLock` has one lemma per command: either it counts, and no view stands,
or it leaves the profile as it was read. The action properties rest on three case
analyses of `Next`: what a step may do to a version (`VersionSteps`), which
commands touch evidence (`LinkSteps`), and what they do to evidence of a version
that exists (`EvidenceSteps`). `MarksFollowEvidence` is proved by itself, by
`MarksStay` (no command removes a mark) and one case per command that links, ends
or copies. `ImplementsTheHistory` has one lemma per command or group of them. What
they share is `CountsInforms` (who counts leaves nobody informed),
`DraftsAreNoHistory` (a version that is not published is not in the history) and
`PublishingImplements`, for the three commands that publish.

Only model-checked: the four liveness properties `SettlesWhileSwept`,
`ActiveComesToRest`, `RunsEnd` and `EvaluationsEnd`. They rest on fairness, whose
definition has ENABLED in it, which this version of the prover does not reason about.

## Not modelled

* Academic review, approval and population beyond what `ContentProcessing` has of
  them. `academic_review/infrastructure/persistence/repositories.py` locks the rows
  of queries that join nullable relations (`:10-13` through `reviewer`, `:23-24`,
  `:85`). The deployment's database is PostgreSQL (`config/settings/base.py:90`),
  which refuses FOR UPDATE on the nullable side of an outer join, so that the
  commands built on them raise before they change anything. Whatever a module
  said of their interleavings would be said of code that does not run. Reprocessing
  is one of them. Where the other modules need what such a command yields (an
  approval, as `CloseReview` in `ContentProcessing`; a populated run in
  `RetrievalSync`) they assume it, and no finding rests on it alone.
* Two of self study's services for the same reason: publishing a curriculum graph
  (`graph_services.py:148`) and orchestrating a session
  (`orchestration_services.py:198`; it also uses `TeachingTurnAction` at `:250`,
  which it never imports).
* Stage processors, graph and gap algorithms, instruments of the study lab: pure
  computations over documents and values, with no order of steps to get wrong.
* Conversations, speech and embeddings: the behaviour is that of an external
  provider.
* Users, settings, audit, notifications, organizations, classrooms, storage: rows
  that one request writes at a time, with no protocol of their own.
* The frontend.

`PROJECT.json` gives the status of each component. The map covers a small share of
the backend's lines, as most of them are serializers, migrations, queries and
validation of values.

## Plan

1. Learning journeys: progression under row locks, from events that may come
   twice; then the worker claim and the successor chain of curriculum revisions
   in self study.
2. Assessments: the attempt lifecycle and the hand-over to review and remediation
   through the event platform, as a composition with `EventLedger`.
3. The import row's own status and its storage, beside `ContentProcessing`.
4. Academic review and population, when their locking queries run.
