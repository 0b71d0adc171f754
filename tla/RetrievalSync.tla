---------------------------- MODULE RetrievalSync ----------------------------
(***************************************************************************)
(* Synchronization of one resource's approved academic content into the    *)
(* retrieval index.  A request builds a candidate generation outside any   *)
(* transaction and promotes it in a last one; searches read the chunks of  *)
(* the ACTIVE generation.  A run and its generation are named by the       *)
(* request's idempotency key, which the database keeps unique.             *)
(*                                                                         *)
(* The official content stands for everything the manifest fingerprint is  *)
(* computed from: the version of each approved part, a part being a        *)
(* concept with the section it is in.  The source fingerprint, which never *)
(* changes once the population run exists, is left out, and so are the     *)
(* checks on it, the one before the promotion among them.                  *)
(***************************************************************************)
EXTENDS FiniteSets, Naturals

CONSTANTS
    Requests,    \* requests that may be in flight together
    Keys,        \* idempotency keys a request may carry
    Parts,       \* parts of the content that were planned for
    Versions,    \* versions of the text of a part
    MaxCrashes   \* bound: processes that die

ASSUME FinitelyMany == IsFiniteSet(Keys) /\ MaxCrashes \in Nat
ASSUME SomeContent  == Parts # {} /\ "withheld" \notin Versions

VARIABLES
    content,     \* the version of each part that is official, or Withheld
    run,         \* the RetrievalSynchronizationRun of a key
    generation,  \* the status of the RetrievalGeneration of a key
    stored,      \* the keys whose chunks are all stored
    request,     \* what a request is doing
    crashes,
    torn         \* ghost: a part was withheld from a request that had found none missing

syncVars == <<content, run, generation, stored, request, crashes, torn>>

Withheld    == "withheld"
Official    == [Parts -> Versions \cup {Withheld}]
Nothing     == [p \in Parts |-> Withheld]
Complete(c) == \A p \in Parts : c[p] # Withheld

\* A manifest has the parts that were official when it was read.
Manifests == Official \ {Nothing}

InProgress == "synchronizing"
Finished   == {"synchronized", "failed"}
NoRun      == [status |-> "none", manifest |-> Nothing]
Run        == [status : {InProgress} \cup Finished, manifest : Manifests]

Generations == {"none", "building", "active", "superseded", "failed"}

Preparing == {"new", "ready", "read", "prepared"}

Idle    == [at |-> "idle"]
Request == {Idle} \cup [at : {"new", "ready"}, key : Keys] \cup
    [at : {"read", "prepared", "building", "stored", "promoted", "failing"},
     key : Keys, manifest : Manifests]

SyncInit ==
    /\ content \in [Parts -> Versions]
    /\ run = [k \in Keys |-> NoRun]
    /\ generation = [k \in Keys |-> "none"]
    /\ stored = {}
    /\ request = [r \in Requests |-> Idle]
    /\ crashes = 0
    /\ torn = FALSE
-----------------------------------------------------------------------------
Goes(r, at) == request' = [request EXCEPT ![r].at = at]
Ends(r)     == request' = [request EXCEPT ![r] = Idle]

\* Runs that a request for this manifest is given instead of a new one.
Equivalent(manifest) ==
    {k \in Keys : run[k].manifest = manifest /\ run[k].status \in {InProgress, "synchronized"}}

\* A request whose key has no run goes on; any other is only answered.
Arrive(r, k) ==
    /\ request[r] = Idle
    /\ run[k] = NoRun
    /\ request' = [request EXCEPT ![r] = [at |-> "new", key |-> k]]
    /\ UNCHANGED <<content, run, generation, stored, crashes, torn>>

\* Mutant: the mapped concepts are not compared with the planned ones.
CheckReady_Partial(r) ==
    /\ request[r].at = "new"
    /\ IF content # Nothing THEN Goes(r, "ready") ELSE Ends(r)
    /\ UNCHANGED <<content, run, generation, stored, crashes, torn>>

\* Its readiness: no part that was planned for is missing, now.
CheckReady(r) ==
    /\ request[r].at = "new"
    /\ IF Complete(content) THEN Goes(r, "ready") ELSE Ends(r)
    /\ UNCHANGED <<content, run, generation, stored, crashes, torn>>

\* Mutant: a manifest may be empty.
ReadManifest_Empty(r) ==
    /\ request[r].at = "ready"
    /\ request' = [request EXCEPT ![r] = [at |-> "read", key |-> request[r].key, manifest |-> content]]
    /\ UNCHANGED <<content, run, generation, stored, crashes, torn>>

\* The content is loaded a second time for the manifest. What is not approved
\* any more is skipped; only a manifest without any part is refused. The two
\* queries of a load, sections and concepts, are taken as one read.
ReadManifest(r) ==
    /\ request[r].at = "ready"
    /\ IF content = Nothing THEN Ends(r)
       ELSE request' = [request EXCEPT ![r] =
                [at |-> "read", key |-> request[r].key, manifest |-> content]]
    /\ UNCHANGED <<content, run, generation, stored, crashes, torn>>

\* A request is given the run that did or does its work already, if there is one.
LookUp(r) ==
    /\ request[r].at = "read"
    /\ IF Equivalent(request[r].manifest) = {} THEN Goes(r, "prepared") ELSE Ends(r)
    /\ UNCHANGED <<content, run, generation, stored, crashes, torn>>

\* One transaction creates the run and its BUILDING generation.
Start(r) ==
    /\ request[r].at = "prepared"
    /\ LET k == request[r].key IN
        /\ run[k] = NoRun
        /\ run' = [run EXCEPT ![k] = [status |-> InProgress, manifest |-> request[r].manifest]]
        /\ generation' = [generation EXCEPT ![k] = "building"]
    /\ Goes(r, "building")
    /\ UNCHANGED <<content, stored, crashes, torn>>

\* Another request has used the key meanwhile: IntegrityError, and no run.
StartConflicts(r) ==
    /\ request[r].at = "prepared"
    /\ run[request[r].key] # NoRun
    /\ Ends(r)
    /\ UNCHANGED <<content, run, generation, stored, crashes, torn>>

StoreChunks(r) ==
    /\ request[r].at = "building"
    /\ stored' = stored \cup {request[r].key}
    /\ Goes(r, "stored")
    /\ UNCHANGED <<content, run, generation, crashes, torn>>

\* Mutant: the error is raised outside the try block.
EmbeddingFails_Uncaught(r) ==
    /\ request[r].at = "building"
    /\ Ends(r)
    /\ UNCHANGED <<content, run, generation, stored, crashes, torn>>

EmbeddingFails(r) ==
    /\ request[r].at = "building"
    /\ Goes(r, "failing")
    /\ UNCHANGED <<content, run, generation, stored, crashes, torn>>

\* Mutant: no constraint on the table.
Prior_Unconstrained(k) == {}

\* retrieval_one_active_generation is checked at each statement.
Prior(k) == {j \in Keys \ {k} : generation[j] = "active"}

\* The last transaction saves the candidate as ACTIVE, then its run.
Promote(r) ==
    /\ request[r].at = "stored"
    /\ LET k == request[r].key IN
        /\ Prior(k) = {}
        /\ generation' = [generation EXCEPT ![k] = "active"]
        /\ run' = [run EXCEPT ![k].status = "synchronized"]
    /\ Goes(r, "promoted")
    /\ UNCHANGED <<content, stored, crashes, torn>>

\* The candidate is saved as ACTIVE before the prior generation is superseded,
\* so that a prior generation makes the statement fail and roll everything back.
PromoteConflicts(r) ==
    /\ request[r].at = "stored"
    /\ Prior(request[r].key) # {}
    /\ Goes(r, "failing")
    /\ UNCHANGED <<content, run, generation, stored, crashes, torn>>

\* Events are published after the commit, still inside the try block.
Publish(r) ==
    /\ request[r].at = "promoted"
    /\ Ends(r)
    /\ UNCHANGED <<content, run, generation, stored, crashes, torn>>

PublishFails(r) ==
    /\ request[r].at = "promoted"
    /\ Goes(r, "failing")
    /\ UNCHANGED <<content, run, generation, stored, crashes, torn>>

\* Mutants: fail() accepts a terminal run; the generation is left as it is; the
\* run is not saved.
Fail_Terminal(r) ==
    /\ request[r].at = "failing"
    /\ LET k == request[r].key IN
        /\ run' = [run EXCEPT ![k].status = "failed"]
        /\ generation' = [generation EXCEPT ![k] = "failed"]
    /\ Ends(r)
    /\ UNCHANGED <<content, stored, crashes, torn>>
Fail_RunOnly(r) ==
    /\ request[r].at = "failing"
    /\ LET k == request[r].key IN
        run' = IF run[k].status \in Finished THEN run ELSE [run EXCEPT ![k].status = "failed"]
    /\ Ends(r)
    /\ UNCHANGED <<content, generation, stored, crashes, torn>>
Fail_Unsaved(r) ==
    /\ request[r].at = "failing"
    /\ Ends(r)
    /\ UNCHANGED <<content, run, generation, stored, crashes, torn>>

\* The except block: fail() refuses a terminal run, which undoes the block.
Fail(r) ==
    /\ request[r].at = "failing"
    /\ LET k == request[r].key IN
        IF run[k].status \in Finished
        THEN UNCHANGED <<run, generation>>
        ELSE /\ run' = [run EXCEPT ![k].status = "failed"]
             /\ generation' = [generation EXCEPT ![k] = "failed"]
    /\ Ends(r)
    /\ UNCHANGED <<content, stored, crashes, torn>>

\* The process dies, or publishing the start event raises, which nothing catches.
Dies(r) ==
    /\ request[r] # Idle
    /\ crashes < MaxCrashes
    /\ crashes' = crashes + 1
    /\ Ends(r)
    /\ UNCHANGED <<content, run, generation, stored, torn>>

\* Authors edit a part that stays approved, or approve and activate it again.
Edit(p, v) ==
    /\ content[p] # v
    /\ content' = [content EXCEPT ![p] = v]
    /\ UNCHANGED <<run, generation, stored, request, crashes, torn>>

\* A concept is rejected or archived, or a section and what it has, or the
\* import is deleted, with every part. None of them touches the generations:
\* retirement reaches the collections of the earlier index only.
Withhold(P) ==
    /\ \E p \in P : content[p] # Withheld
    /\ content' = [p \in Parts |-> IF p \in P THEN Withheld ELSE content[p]]
    /\ torn' = (torn \/ \E r \in Requests : request[r].at = "ready")
    /\ UNCHANGED <<run, generation, stored, request, crashes>>

RequestStep(r) ==
    \/ CheckReady(r) \/ ReadManifest(r) \/ LookUp(r)
    \/ Start(r) \/ StartConflicts(r)
    \/ StoreChunks(r) \/ EmbeddingFails(r)
    \/ Promote(r) \/ PromoteConflicts(r)
    \/ Publish(r) \/ PublishFails(r)
    \/ Fail(r)

SyncNext ==
    \/ \E r \in Requests :
        \/ \E k \in Keys : Arrive(r, k)
        \/ RequestStep(r)
        \/ Dies(r)
    \/ \E p \in Parts, v \in Versions : Edit(p, v)
    \/ \E P \in SUBSET Parts : Withhold(P)

SyncFairness == \A r \in Requests : WF_syncVars(RequestStep(r))
SyncSpec     == SyncInit /\ [][SyncNext]_syncVars /\ SyncFairness
-----------------------------------------------------------------------------
SyncTypeOK ==
    /\ content \in Official
    /\ run \in [Keys -> {NoRun} \cup Run]
    /\ generation \in [Keys -> Generations]
    /\ stored \in SUBSET Keys
    /\ request \in [Requests -> Request]
    /\ crashes \in 0..MaxCrashes
    /\ torn \in BOOLEAN

Past(r)   == request[r] # Idle /\ request[r].at \notin Preparing
Driven(k) == \E r \in Requests : Past(r) /\ request[r].key = k

\* Searches read one generation, whose chunks are all there and whose run ended well.
SearchedIsWhole ==
    /\ \A k \in Keys : generation[k] = "active" =>
        /\ k \in stored
        /\ run[k].status = "synchronized"
    /\ \A j, k \in Keys : generation[j] = "active" /\ generation[k] = "active" => j = k

\* A run and its generation end together, whatever fails and wherever the process dies.
EndTogether ==
    \A k \in Keys :
        /\ run[k].status = InProgress <=> generation[k] = "building"
        /\ run[k].status = "failed" <=> generation[k] = "failed"

\* Only a dead process leaves a run in progress, and with it a manifest that no request rebuilds.
LeftBehind == {k \in Keys : run[k].status = InProgress /\ ~Driven(k)}
StuckByCrash == Cardinality(LeftBehind) <= crashes

\* An attempt that has ended is history, even when publishing its events fails.
HistoryStays ==
    [][\A k \in Keys : run[k].status \in Finished => run'[k] = run[k]]_syncVars

\* What searches read has every part that was planned for, unless a part was
\* withheld after a request had checked that none was missing and before it
\* read its manifest: then the part is missing from the index, and stays so.
CompleteUnlessTorn ==
    \A k \in Keys : generation[k] = "active" => torn \/ Complete(run[k].manifest)

\* The requests, runs and generations implement the index they are there for: a
\* manifest that was read is indexed or not, once and for all, in one step.
InHand(stage) == {request[r].manifest : r \in {q \in Requests : request[q].at = stage}}
SearchedKeys  == {k \in Keys : generation[k] = "active"}

Index == INSTANCE SearchIndex
            WITH read <- InHand("read"), unclaimed <- InHand("prepared"),
                 attempt <- run, searched <- SearchedKeys

ImplementsIndex == Index!Spec

\* As long as no process dies, every run ends.
RunsEnd ==
    \A k \in Keys : run[k].status = InProgress ~> (run[k].status \in Finished \/ crashes > 0)

\* "Promotion ... promotes the candidate, and only then supersedes the prior
\* active generation": a complete candidate is not refused because of a prior one.
ReplacesPrior ==
    [][\A r \in Requests : ~(request[r].at = "stored" /\ request'[r].at = "failing")]_syncVars
=============================================================================
