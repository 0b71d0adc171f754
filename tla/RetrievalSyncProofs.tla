------------------------- MODULE RetrievalSyncProofs -------------------------
(***************************************************************************)
(* What holds of RetrievalSync for every number of requests, keys, parts,  *)
(* versions and deaths.                                                    *)
(*                                                                         *)
(* A request carries no lock from one transaction to the next.  What keeps *)
(* its run for it is that a key starts one run (Alone), so that a run and  *)
(* its generation, which move together (Paired), are where the request     *)
(* that drives them has left them (AtStage).  What it read of the content  *)
(* is complete as long as nothing was torn (WholeUnlessTorn).              *)
(***************************************************************************)
EXTENDS RetrievalSync, FiniteSetTheorems, TLAPS

Paired ==
    \A k \in Keys :
        /\ run[k].status = "none" <=> generation[k] = "none"
        /\ run[k].status = InProgress <=> generation[k] = "building"
        /\ run[k].status = "synchronized" <=> generation[k] = "active"
        /\ run[k].status = "failed" <=> generation[k] = "failed"

Alone == \A r, q \in Requests : Past(r) /\ Past(q) /\ request[r].key = request[q].key => r = q

AtStage ==
    \A r \in Requests :
        LET k == request[r].key IN
        /\ request[r].at \in {"building", "stored"} => run[k].status = InProgress
        /\ request[r].at = "stored" => k \in stored
        /\ request[r].at = "promoted" => run[k].status = "synchronized"
        /\ request[r].at = "failing" => run[k].status \in {InProgress, "synchronized"}

Searched ==
    /\ \A k \in Keys : generation[k] = "active" => k \in stored
    /\ \A j, k \in Keys : generation[j] = "active" /\ generation[k] = "active" => j = k

SyncInv == SyncTypeOK /\ Paired /\ Alone /\ AtStage /\ Searched
-----------------------------------------------------------------------------
LEMMA SyncInitInv == SyncInit => SyncInv
<1> SUFFICES ASSUME SyncInit PROVE SyncInv
  OBVIOUS
<1>1. content \in Official
  <2>1. content \in [Parts -> Versions]
    BY DEF SyncInit
  <2> QED BY <2>1 DEF Official
<1>2. SyncTypeOK
  <2>1. crashes \in 0..MaxCrashes
    BY FinitelyMany DEF SyncInit
  <2>2. run \in [Keys -> {NoRun} \cup Run] /\ generation \in [Keys -> Generations]
    BY DEF SyncInit, Generations
  <2>3. request \in [Requests -> Request] /\ stored \in SUBSET Keys /\ torn \in BOOLEAN
    BY DEF SyncInit, Request
  <2> QED BY <1>1, <2>1, <2>2, <2>3 DEF SyncTypeOK
<1>3. Alone /\ AtStage
  BY DEF SyncInit, Alone, AtStage, Past, Idle
<1>4. Paired /\ Searched
  <2>1. \A k \in Keys : run[k].status = "none" /\ generation[k] = "none"
    BY DEF SyncInit, NoRun
  <2> QED BY <2>1 DEF Paired, Searched, InProgress
<1> QED BY <1>2, <1>3, <1>4 DEF SyncInv

Stages  == {"read", "prepared", "building", "stored", "promoted", "failing"}
Asking  == [at : {"new", "ready"}, key : Keys]
Holding == [at : Stages, key : Keys, manifest : Manifests]

\* What a request has in hand while it is not idle.
LEMMA NotIdle == SyncTypeOK => \A r \in Requests : request[r] # Idle => request[r] \in Asking \cup Holding
BY DEF SyncTypeOK, Request, Asking, Holding, Stages

LEMMA AtWork ==
    ASSUME SyncTypeOK, NEW r \in Requests, request[r].at \in Stages
    PROVE  /\ request[r] # Idle
           /\ request[r] \in Holding
           /\ request[r].key \in Keys
           /\ request[r].manifest \in Manifests
<1>1. request[r] # Idle
  BY DEF Idle, Stages
<1>2. request[r] \in Holding
  BY <1>1, NotIdle DEF Asking, Stages
<1> QED BY <1>1, <1>2 DEF Holding

\* A request that goes on keeps what it has in hand.
LEMMA Moving ==
    ASSUME NEW q \in Holding, NEW at \in Stages
    PROVE  /\ [q EXCEPT !.at = at] \in Request
           /\ [q EXCEPT !.at = at] # Idle
           /\ [q EXCEPT !.at = at].at = at
           /\ [q EXCEPT !.at = at].key = q.key
BY DEF Holding, Stages, Request, Idle

LEMMA GoingOn ==
    ASSUME SyncTypeOK, NEW r \in Requests, request[r].at \in Stages,
           NEW at \in Stages, Goes(r, at)
    PROVE  /\ request' \in [Requests -> Request]
           /\ request'[r].at = at
           /\ request'[r].key = request[r].key
           /\ \A q \in Requests : q # r => request'[q] = request[q]
<1>1. request \in [Requests -> Request]
  BY DEF SyncTypeOK
<1>2. request[r] \in Holding
  BY AtWork
<1>3. request' = [request EXCEPT ![r] = [request[r] EXCEPT !.at = at]]
  BY DEF Goes
<1>4. [request[r] EXCEPT !.at = at] \in Request
  BY <1>2, Moving
<1>5. [request[r] EXCEPT !.at = at].at = at /\ [request[r] EXCEPT !.at = at].key = request[r].key
  BY <1>2, Moving
<1>6. request'[r] = [request[r] EXCEPT !.at = at]
  BY <1>1, <1>3
<1> QED BY <1>1, <1>3, <1>4, <1>5, <1>6

\* A request that leaves leaves everything as it is, but for its own place.
LEMMA LeavingKeeps ==
    ASSUME SyncInv, NEW r \in Requests, Ends(r), UNCHANGED <<content, run, generation, stored, torn>>,
           crashes' \in 0..MaxCrashes
    PROVE  SyncInv'
<1>1. SyncTypeOK'
  BY DEF SyncInv, SyncTypeOK, Ends, Request
<1>2. \A q \in Requests : request'[q] # Idle => q # r /\ request'[q] = request[q]
  BY DEF SyncInv, SyncTypeOK, Ends
<1>3. Alone'
  BY <1>2 DEF SyncInv, Alone, Past, Preparing
<1>4. AtStage'
  BY <1>2 DEF SyncInv, AtStage, Idle
<1> QED BY <1>1, <1>3, <1>4 DEF SyncInv, Paired, Searched

\* What a request does before it has a run is nobody else's business.
LEMMA PreparingKeeps ==
    ASSUME SyncInv, NEW r \in Requests, request' \in [Requests -> Request],
           request'[r].at \in Preparing, \A q \in Requests : q # r => request'[q] = request[q],
           UNCHANGED <<content, run, generation, stored, crashes, torn>>
    PROVE  SyncInv'
<1>1. SyncTypeOK'
  BY DEF SyncInv, SyncTypeOK
<1>2. Alone'
  BY DEF SyncInv, Alone, Past
<1>3. AtStage'
  BY DEF SyncInv, AtStage, Preparing
<1> QED BY <1>1, <1>2, <1>3 DEF SyncInv, Paired, Searched

\* A step before there is a run: the request ends, or comes to the next stage.
Prepares(r, at) ==
    /\ request' \in [Requests -> Request]
    /\ request'[r].at = at
    /\ \A q \in Requests : q # r => request'[q] = request[q]
    /\ UNCHANGED <<content, run, generation, stored, crashes, torn>>

LeavesAsIs(r) == Ends(r) /\ UNCHANGED <<content, run, generation, stored, crashes, torn>>

LEMMA ArriveSteps ==
    ASSUME SyncTypeOK, NEW r \in Requests, NEW k \in Keys, Arrive(r, k)
    PROVE  Prepares(r, "new")
BY DEF SyncTypeOK, Arrive, Prepares, Request

LEMMA CheckReadySteps ==
    ASSUME SyncTypeOK, NEW r \in Requests, CheckReady(r)
    PROVE  (Prepares(r, "ready") /\ Complete(content)) \/ LeavesAsIs(r)
<1>1. CASE Complete(content)
  <2>1. request[r] \in Asking
    BY NotIdle DEF CheckReady, Idle, Holding, Stages
  <2>2. request' = [request EXCEPT ![r] = [request[r] EXCEPT !.at = "ready"]]
    BY <1>1 DEF CheckReady, Goes
  <2>3. /\ [request[r] EXCEPT !.at = "ready"] \in Request
        /\ [request[r] EXCEPT !.at = "ready"].at = "ready"
    BY <2>1 DEF Asking, Request
  <2> QED BY <1>1, <2>2, <2>3 DEF CheckReady, Prepares, SyncTypeOK
<1>2. CASE ~Complete(content)
  BY <1>2 DEF CheckReady, LeavesAsIs
<1> QED BY <1>1, <1>2

LEMMA ReadManifestSteps ==
    ASSUME SyncTypeOK, NEW r \in Requests, ReadManifest(r)
    PROVE  \/ Prepares(r, "read") /\ request'[r].manifest = content /\ content \in Manifests
           \/ LeavesAsIs(r)
<1>1. CASE content # Nothing
  <2>1. request[r].key \in Keys
    BY NotIdle DEF ReadManifest, Idle, Asking, Holding, Stages
  <2>2. content \in Manifests
    BY <1>1 DEF SyncTypeOK, Manifests
  <2> QED BY <1>1, <2>1, <2>2 DEF ReadManifest, Prepares, SyncTypeOK, Request
<1>2. CASE content = Nothing
  BY <1>2 DEF ReadManifest, LeavesAsIs
<1> QED BY <1>1, <1>2

LEMMA LookUpSteps ==
    ASSUME SyncTypeOK, NEW r \in Requests, LookUp(r)
    PROVE  \/ /\ Prepares(r, "prepared") /\ request'[r].manifest = request[r].manifest
              /\ Equivalent(request[r].manifest) = {}
           \/ LeavesAsIs(r)
<1>1. CASE Equivalent(request[r].manifest) = {}
  <2>1. request[r] \in Holding
    BY AtWork DEF LookUp, Stages
  <2>2. request' = [request EXCEPT ![r] = [request[r] EXCEPT !.at = "prepared"]]
    BY <1>1 DEF LookUp, Goes
  <2>3. /\ [request[r] EXCEPT !.at = "prepared"] \in Request
        /\ [request[r] EXCEPT !.at = "prepared"].at = "prepared"
        /\ [request[r] EXCEPT !.at = "prepared"].manifest = request[r].manifest
    BY <2>1 DEF Holding, Stages, Request
  <2> QED BY <1>1, <2>2, <2>3 DEF LookUp, Prepares, SyncTypeOK
<1>2. CASE Equivalent(request[r].manifest) # {}
  BY <1>2 DEF LookUp, LeavesAsIs
<1> QED BY <1>1, <1>2

LEMMA BeforeTheRun ==
    ASSUME SyncInv, NEW r \in Requests,
           (\E k \in Keys : Arrive(r, k)) \/ CheckReady(r) \/ ReadManifest(r) \/ LookUp(r)
    PROVE  LeavesAsIs(r) \/ \E at \in Preparing : Prepares(r, at)
BY ArriveSteps, CheckReadySteps, ReadManifestSteps, LookUpSteps DEF SyncInv, Preparing

LEMMA BeforeTheRunKeeps ==
    ASSUME SyncInv, NEW r \in Requests,
           (\E k \in Keys : Arrive(r, k)) \/ CheckReady(r) \/ ReadManifest(r) \/ LookUp(r)
    PROVE  SyncInv'
<1>1. CASE LeavesAsIs(r)
  BY <1>1, LeavingKeeps DEF LeavesAsIs, SyncInv, SyncTypeOK
<1>2. CASE \E at \in Preparing : Prepares(r, at)
  BY <1>2, PreparingKeeps DEF Prepares
<1> QED BY <1>1, <1>2, BeforeTheRun

LEMMA StartKeeps ==
    ASSUME SyncInv, NEW r \in Requests, Start(r) PROVE SyncInv'
<1> DEFINE k == request[r].key
<1> USE DEF Stages
<1>1. /\ request[r].at = "prepared" /\ Goes(r, "building")
      /\ run[k] = NoRun
      /\ run' = [run EXCEPT ![k] = [status |-> InProgress, manifest |-> request[r].manifest]]
      /\ generation' = [generation EXCEPT ![k] = "building"]
      /\ UNCHANGED <<content, stored, crashes, torn>>
      /\ SyncTypeOK
  BY DEF SyncInv, Start
<1>2. request[r] # Idle /\ k \in Keys /\ request[r].manifest \in Manifests
  BY <1>1, AtWork
<1>4. /\ request' \in [Requests -> Request]
      /\ request'[r].at = "building" /\ request'[r].key = k
      /\ \A q \in Requests : q # r => request'[q] = request[q]
  BY <1>1, GoingOn
<1>9. SyncTypeOK'
  BY <1>1, <1>2, <1>4 DEF SyncTypeOK, Run, Generations
<1>3. \A q \in Requests : Past(q) => request[q].key # k
  <2> SUFFICES ASSUME NEW q \in Requests, Past(q), request[q].key = k PROVE FALSE
    OBVIOUS
  <2>1. request[q] \in Holding
    BY <1>1, NotIdle DEF Past, Preparing, Asking
  <2>2. request[q].at \in {"building", "stored", "promoted", "failing"}
    BY <2>1 DEF Past, Preparing, Holding
  <2> QED BY <1>1, <2>2 DEF SyncInv, AtStage, NoRun, InProgress
<1>5. Alone'
  BY <1>3, <1>4 DEF SyncInv, Alone, Past, Preparing
<1>6. AtStage'
  <2> SUFFICES ASSUME NEW q \in Requests
               PROVE  LET j == request'[q].key IN
                      /\ request'[q].at \in {"building", "stored"} => run'[j].status = InProgress
                      /\ request'[q].at = "stored" => j \in stored'
                      /\ request'[q].at = "promoted" => run'[j].status = "synchronized"
                      /\ request'[q].at = "failing" => run'[j].status \in {InProgress, "synchronized"}
    BY DEF AtStage
  <2>1. CASE q = r
    BY <1>1, <1>2, <1>4, <2>1 DEF SyncInv, SyncTypeOK
  <2>2. CASE q # r /\ request[q].at \in {"building", "stored", "promoted", "failing"}
    <3>1. request[q].key # k
      BY <1>3, <2>2 DEF Past, Preparing, Idle
    <3>2. request[q].key \in Keys
      BY <1>1, <2>2, AtWork
    <3> QED BY <1>1, <1>4, <2>2, <3>1, <3>2 DEF SyncInv, SyncTypeOK, AtStage
  <2>3. CASE q # r /\ request[q].at \notin {"building", "stored", "promoted", "failing"}
    BY <1>4, <2>3
  <2> QED BY <2>1, <2>2, <2>3
<1>7. Paired'
  BY <1>1, <1>2 DEF SyncInv, SyncTypeOK, Paired, InProgress, NoRun
<1>8. Searched'
  BY <1>1, <1>2 DEF SyncInv, SyncTypeOK, Searched
<1> QED BY <1>5, <1>6, <1>7, <1>8, <1>9 DEF SyncInv

\* A request that goes on leaves everything as it is, and may come to fail from
\* anywhere past its start.
LEMMA FailingKeeps ==
    ASSUME SyncInv, NEW r \in Requests, request[r].at \in {"building", "stored", "promoted"},
           Goes(r, "failing"), UNCHANGED <<content, run, generation, stored, crashes, torn>>
    PROVE  SyncInv'
<1> USE DEF Stages
<1>1. request[r] # Idle /\ SyncTypeOK
  BY AtWork DEF SyncInv
<1>3. /\ request' \in [Requests -> Request]
      /\ request'[r].at = "failing" /\ request'[r].key = request[r].key
      /\ \A q \in Requests : q # r => request'[q] = request[q]
  BY <1>1, GoingOn
<1>2. SyncTypeOK'
  BY <1>1, <1>3 DEF SyncTypeOK
<1>4. Alone'
  BY <1>1, <1>3 DEF SyncInv, Alone, Past, Preparing
<1>5. AtStage'
  BY <1>3 DEF SyncInv, AtStage
<1> QED BY <1>2, <1>4, <1>5 DEF SyncInv, Paired, Searched

LEMMA StoreChunksKeeps ==
    ASSUME SyncInv, NEW r \in Requests, StoreChunks(r) PROVE SyncInv'
<1> USE DEF Stages
<1>1. request[r] # Idle /\ request[r].key \in Keys /\ SyncTypeOK
  BY AtWork DEF SyncInv, StoreChunks
<1>3. /\ request' \in [Requests -> Request]
      /\ request'[r].at = "stored" /\ request'[r].key = request[r].key
      /\ \A q \in Requests : q # r => request'[q] = request[q]
  BY <1>1, GoingOn DEF StoreChunks
<1>2. SyncTypeOK'
  BY <1>1, <1>3 DEF SyncTypeOK, StoreChunks
<1>4. Alone'
  BY <1>1, <1>3 DEF SyncInv, Alone, Past, Preparing, StoreChunks
<1>5. AtStage'
  BY <1>3 DEF SyncInv, AtStage, StoreChunks
<1> QED BY <1>2, <1>4, <1>5 DEF SyncInv, Paired, Searched, StoreChunks

LEMMA PromoteKeeps ==
    ASSUME SyncInv, NEW r \in Requests, Promote(r) PROVE SyncInv'
<1> DEFINE k == request[r].key
<1> USE DEF Stages
<1>0. request[r].at = "stored" /\ SyncTypeOK /\ Goes(r, "promoted")
  BY DEF SyncInv, Promote
<1>1. /\ request[r] # Idle /\ k \in Keys
      /\ run[k].status = InProgress /\ k \in stored
      /\ \A j \in Keys : j # k => generation[j] # "active"
      /\ run' = [run EXCEPT ![k].status = "synchronized"]
      /\ generation' = [generation EXCEPT ![k] = "active"]
      /\ UNCHANGED <<content, stored, crashes, torn>>
  BY <1>0, AtWork DEF SyncInv, AtStage, Promote, Prior
<1>2. run[k] \in Run /\ [run[k] EXCEPT !.status = "synchronized"] \in Run
  BY <1>1 DEF SyncInv, SyncTypeOK, Run, NoRun, InProgress, Finished
<1>4. /\ request' \in [Requests -> Request]
      /\ request'[r].at = "promoted" /\ request'[r].key = k
      /\ \A q \in Requests : q # r => request'[q] = request[q]
  BY <1>0, GoingOn
<1>3. SyncTypeOK'
  BY <1>0, <1>1, <1>2, <1>4 DEF SyncTypeOK, Generations
<1>5. \A q \in Requests : q # r /\ Past(q) => request[q].key # k
  BY <1>0, <1>1 DEF SyncInv, Alone, Past, Preparing
<1>6. Alone'
  BY <1>0, <1>1, <1>4 DEF SyncInv, Alone, Past, Preparing
<1>7. run'[k].status = "synchronized" /\ \A j \in Keys : j # k => run'[j] = run[j]
  BY <1>1, <1>2 DEF SyncInv, SyncTypeOK, Run
<1>8. AtStage'
  <2> SUFFICES ASSUME NEW q \in Requests
               PROVE  LET j == request'[q].key IN
                      /\ request'[q].at \in {"building", "stored"} => run'[j].status = InProgress
                      /\ request'[q].at = "stored" => j \in stored'
                      /\ request'[q].at = "promoted" => run'[j].status = "synchronized"
                      /\ request'[q].at = "failing" => run'[j].status \in {InProgress, "synchronized"}
    BY DEF AtStage
  <2>1. CASE q = r
    BY <1>4, <1>7, <2>1
  <2>2. CASE q # r /\ request[q].at \in {"building", "stored", "promoted", "failing"}
    <3>1. Past(q) /\ request[q].key \in Keys
      BY <1>0, <2>2, AtWork DEF Past, Preparing
    <3> QED BY <1>1, <1>4, <1>5, <1>7, <2>2, <3>1 DEF SyncInv, AtStage
  <2>3. CASE q # r /\ request[q].at \notin {"building", "stored", "promoted", "failing"}
    BY <1>4, <2>3
  <2> QED BY <2>1, <2>2, <2>3
<1>9. Paired'
  BY <1>1, <1>7 DEF SyncInv, SyncTypeOK, Paired, InProgress
<1>10. Searched'
  BY <1>1 DEF SyncInv, SyncTypeOK, Searched
<1> QED BY <1>3, <1>6, <1>8, <1>9, <1>10 DEF SyncInv

LEMMA FailKeeps ==
    ASSUME SyncInv, NEW r \in Requests, Fail(r) PROVE SyncInv'
<1> DEFINE k == request[r].key
<1> USE DEF Stages
<1>0. request[r].at = "failing" /\ SyncTypeOK
  BY DEF SyncInv, Fail
<1>1. /\ request[r] # Idle /\ k \in Keys
      /\ run[k].status \in {InProgress, "synchronized"}
      /\ Ends(r) /\ UNCHANGED <<content, stored, crashes, torn>>
  BY <1>0, AtWork DEF SyncInv, AtStage, Fail
<1>2. CASE run[k].status \in Finished
  BY <1>1, <1>2, LeavingKeeps DEF Fail, SyncInv, SyncTypeOK
<1>3. CASE run[k].status \notin Finished
  <2>1. /\ run[k].status = InProgress
        /\ run' = [run EXCEPT ![k].status = "failed"]
        /\ generation' = [generation EXCEPT ![k] = "failed"]
        /\ request' = [request EXCEPT ![r] = Idle]
    BY <1>1, <1>3 DEF Fail, Finished, Ends
  <2>2. run[k] \in Run /\ [run[k] EXCEPT !.status = "failed"] \in Run
    BY <1>1, <2>1 DEF SyncInv, SyncTypeOK, Run, NoRun, InProgress, Finished
  <2>3. SyncTypeOK'
    BY <1>1, <2>1, <2>2 DEF SyncInv, SyncTypeOK, Generations, Request
  <2>4. \A q \in Requests : request'[q] # Idle => q # r /\ request'[q] = request[q]
    BY <2>1 DEF SyncInv, SyncTypeOK
  <2>5. run'[k].status = "failed" /\ \A j \in Keys : j # k => run'[j] = run[j]
    BY <1>1, <2>1, <2>2 DEF SyncInv, SyncTypeOK, Run
  <2>6. Alone'
    BY <2>4 DEF SyncInv, Alone, Past, Preparing
  <2>7. AtStage'
    <3> SUFFICES ASSUME NEW q \in Requests
                 PROVE  LET j == request'[q].key IN
                        /\ request'[q].at \in {"building", "stored"} => run'[j].status = InProgress
                        /\ request'[q].at = "stored" => j \in stored'
                        /\ request'[q].at = "promoted" => run'[j].status = "synchronized"
                        /\ request'[q].at = "failing" => run'[j].status \in {InProgress, "synchronized"}
      BY DEF AtStage
    <3>1. CASE request'[q] = Idle
      BY <3>1 DEF Idle
    <3>2. CASE request'[q] # Idle /\ request[q].at \notin Preparing
      <4>1. q # r /\ request'[q] = request[q] /\ request[q].key \in Keys
        BY <1>0, <2>4, <3>2, NotIdle DEF Asking, Holding, Preparing
      <4>2. request[q].key # k
        BY <1>0, <1>1, <3>2, <4>1 DEF SyncInv, Alone, Past, Preparing
      <4> QED BY <1>1, <2>5, <4>1, <4>2 DEF SyncInv, AtStage
    <3>3. CASE request'[q] # Idle /\ request[q].at \in Preparing
      BY <2>4, <3>3 DEF Preparing
    <3> QED BY <3>1, <3>2, <3>3
  <2>8. Paired'
    BY <1>1, <2>1, <2>5 DEF SyncInv, SyncTypeOK, Paired, InProgress
  <2>9. Searched'
    BY <1>1, <2>1 DEF SyncInv, SyncTypeOK, Searched
  <2> QED BY <2>3, <2>6, <2>7, <2>8, <2>9 DEF SyncInv
<1> QED BY <1>2, <1>3

\* No part of the invariant is about what is official.
LEMMA ContentKeeps ==
    ASSUME SyncInv, UNCHANGED <<run, generation, stored, request, crashes>>, content' \in Official,
           torn' \in BOOLEAN
    PROVE  SyncInv'
BY DEF SyncInv, SyncTypeOK, Paired, Alone, Past, Preparing, AtStage, Searched

LEMMA AuthorsStep ==
    ASSUME SyncTypeOK, (\E p \in Parts, v \in Versions : Edit(p, v)) \/ \E P \in SUBSET Parts : Withhold(P)
    PROVE  /\ UNCHANGED <<run, generation, stored, request, crashes>>
           /\ content' \in Official /\ torn' \in BOOLEAN
BY DEF SyncTypeOK, Edit, Withhold, Official

\* The invariant is inductive.
LEMMA SyncNextKeeps == SyncInv /\ [SyncNext]_syncVars => SyncInv'
<1> SUFFICES ASSUME SyncInv, [SyncNext]_syncVars PROVE SyncInv'
  OBVIOUS
<1>1. ASSUME NEW r \in Requests, NEW k \in Keys, Arrive(r, k) PROVE SyncInv'
  BY <1>1, BeforeTheRunKeeps
<1>2. ASSUME NEW r \in Requests, RequestStep(r) PROVE SyncInv'
  <2>1. CASE CheckReady(r) \/ ReadManifest(r) \/ LookUp(r)
    BY <2>1, BeforeTheRunKeeps
  <2>2. CASE Start(r) \/ StoreChunks(r) \/ Promote(r) \/ Fail(r)
    BY <2>2, StartKeeps, StoreChunksKeeps, PromoteKeeps, FailKeeps
  <2>3. CASE StartConflicts(r) \/ Publish(r)
    BY <2>3, LeavingKeeps DEF StartConflicts, Publish, SyncInv, SyncTypeOK
  <2>4. CASE EmbeddingFails(r) \/ PromoteConflicts(r) \/ PublishFails(r)
    BY <2>4, FailingKeeps DEF EmbeddingFails, PromoteConflicts, PublishFails
  <2> QED BY <1>2, <2>1, <2>2, <2>3, <2>4 DEF RequestStep
<1>3. ASSUME NEW r \in Requests, Dies(r) PROVE SyncInv'
  <2>1. crashes' \in 0..MaxCrashes
    BY <1>3, FinitelyMany DEF Dies, SyncInv, SyncTypeOK
  <2> QED BY <1>3, <2>1, LeavingKeeps DEF Dies
<1>4. CASE (\E p \in Parts, v \in Versions : Edit(p, v)) \/ \E P \in SUBSET Parts : Withhold(P)
  BY <1>4, AuthorsStep, ContentKeeps DEF SyncInv
<1>5. CASE UNCHANGED syncVars
  BY <1>5, ContentKeeps DEF syncVars, SyncInv, SyncTypeOK
<1> QED BY <1>1, <1>2, <1>3, <1>4, <1>5 DEF SyncNext

LEMMA SyncInvariance == SyncInit /\ [][SyncNext]_syncVars => []SyncInv
BY SyncInitInv, SyncNextKeeps, PTL
-----------------------------------------------------------------------------
\* Type correctness.
THEOREM SyncTypeCorrect == SyncSpec => []SyncTypeOK
<1>1. SyncInv => SyncTypeOK
  BY DEF SyncInv
<1> QED BY <1>1, SyncInvariance, PTL DEF SyncSpec

\* A search reads at most one generation, of which every chunk is stored and
\* whose run has ended well: the guarantee of promoting in one transaction.
THEOREM OneWholeGeneration == SyncSpec => []SearchedIsWhole
<1>1. SyncInv => SearchedIsWhole
  BY DEF SyncInv, SyncTypeOK, Paired, Searched, SearchedIsWhole
<1> QED BY <1>1, SyncInvariance, PTL DEF SyncSpec

\* A run and its generation end together, by success or failure.
THEOREM TogetherToTheEnd == SyncSpec => []EndTogether
<1>1. SyncInv => EndTogether
  BY DEF SyncInv, Paired, EndTogether
<1> QED BY <1>1, SyncInvariance, PTL DEF SyncSpec

\* A run is left in progress by nothing but the death of its process.
\* Counting those runs takes the finiteness of the keys.
LEMMA LeftInit == SyncInit => StuckByCrash
<1> SUFFICES ASSUME SyncInit PROVE StuckByCrash
  OBVIOUS
<1>1. LeftBehind = {}
  BY DEF SyncInit, LeftBehind, NoRun, InProgress
<1> QED BY <1>1, FS_EmptySet DEF SyncInit, StuckByCrash

\* Unless a process dies, nothing is left that was not left before.
LEMMA LeftKeeps ==
    ASSUME SyncInv, StuckByCrash, LeftBehind' \subseteq LeftBehind, crashes' = crashes
    PROVE  StuckByCrash'
<1>1. IsFiniteSet(LeftBehind)
  BY FinitelyMany, FS_Subset DEF LeftBehind
<1>2. /\ Cardinality(LeftBehind') <= Cardinality(LeftBehind)
      /\ Cardinality(LeftBehind) \in Nat /\ Cardinality(LeftBehind') \in Nat
  BY <1>1, FS_Subset, FS_CardinalityType
<1> QED BY <1>2, FinitelyMany DEF StuckByCrash, SyncInv, SyncTypeOK

LEMMA AddingOne ==
    ASSUME NEW S, NEW x, IsFiniteSet(S)
    PROVE  IsFiniteSet(S \cup {x}) /\ Cardinality(S \cup {x}) <= Cardinality(S) + 1
<1>1. Cardinality(S) \in Nat
  BY FS_CardinalityType
<1> QED BY <1>1, FS_AddElement

LEMMA DyingLeaves ==
    ASSUME SyncInv, StuckByCrash, NEW r \in Requests, Dies(r) PROVE StuckByCrash'
<1> DEFINE k == request[r].key
<1>1. LeftBehind' \subseteq LeftBehind \cup {k}
  <2>1. \A q \in Requests : q # r => request'[q] = request[q]
    BY DEF Dies, Ends, SyncInv, SyncTypeOK
  <2>2. ASSUME NEW j \in Keys, j # k, Driven(j) PROVE Driven(j)'
    BY <2>1, <2>2 DEF Driven, Past
  <2> QED BY <2>2 DEF LeftBehind, Dies
<1>2. IsFiniteSet(LeftBehind) /\ Cardinality(LeftBehind) \in Nat
  BY FinitelyMany, FS_Subset, FS_CardinalityType DEF LeftBehind
<1>3. /\ IsFiniteSet(LeftBehind \cup {k})
      /\ Cardinality(LeftBehind \cup {k}) <= Cardinality(LeftBehind) + 1
  BY <1>2, AddingOne
<1>4. Cardinality(LeftBehind') \in Nat /\ Cardinality(LeftBehind') <= Cardinality(LeftBehind \cup {k})
  BY <1>1, <1>3, FS_Subset, FS_CardinalityType
<1>5. Cardinality(LeftBehind \cup {k}) \in Nat
  BY <1>3, FS_CardinalityType
<1> QED BY <1>2, <1>3, <1>4, <1>5, FinitelyMany DEF StuckByCrash, Dies, SyncInv, SyncTypeOK

\* A step of a request leaves nothing behind: whoever ends has ended its run.
\* Nor does a request that has no run yet.
LEMMA NoRunYet ==
    ASSUME SyncInv, NEW r \in Requests,
           (\E k \in Keys : Arrive(r, k)) \/ CheckReady(r) \/ ReadManifest(r) \/ LookUp(r)
    PROVE  LeftBehind' \subseteq LeftBehind /\ crashes' = crashes /\ UNCHANGED <<run, generation>>
<1>1. /\ \A q \in Requests : q # r => request'[q] = request[q]
      /\ UNCHANGED <<content, run, generation, stored, crashes, torn>>
  BY BeforeTheRun DEF Prepares, LeavesAsIs, Ends, SyncInv, SyncTypeOK
<1>2. ~Past(r)
  BY DEF Past, Preparing, Arrive, CheckReady, ReadManifest, LookUp
<1>3. ASSUME NEW j \in Keys, Driven(j) PROVE Driven(j)'
  BY <1>1, <1>2, <1>3 DEF Driven, Past
<1> QED BY <1>1, <1>3 DEF LeftBehind

LEMMA StepsLeaveNothing ==
    ASSUME SyncInv, NEW r \in Requests, RequestStep(r)
    PROVE  LeftBehind' \subseteq LeftBehind /\ crashes' = crashes
<1> DEFINE k == request[r].key
<1> USE DEF Stages
<1>0. SyncTypeOK
  BY DEF SyncInv
<1>1. crashes' = crashes
  BY DEF RequestStep, CheckReady, ReadManifest, LookUp, Start, StartConflicts, StoreChunks, EmbeddingFails, Promote, PromoteConflicts,
         Publish, PublishFails, Fail
<1>2. ASSUME NEW at \in Stages \ Preparing, request[r].at \in Stages, Goes(r, at),
             \A j \in Keys : j # k => run'[j] = run[j]
      PROVE  LeftBehind' \subseteq LeftBehind
  <2>1. /\ request'[r].at = at /\ request'[r].key = k
        /\ \A q \in Requests : q # r => request'[q] = request[q]
    BY <1>0, <1>2, GoingOn
  <2>3. Driven(k)'
    BY <1>2, <2>1 DEF Driven, Past, Preparing, Idle
  <2>4. ASSUME NEW j \in Keys, j # k, Driven(j) PROVE Driven(j)'
    BY <2>1, <2>4 DEF Driven, Past
  <2> QED BY <1>2, <2>1, <2>3, <2>4 DEF LeftBehind
<1>3. ASSUME Ends(r), \A j \in Keys : run'[j].status = InProgress => run[j].status = InProgress,
             request[r].at \in Preparing \/ run'[k].status # InProgress
      PROVE  LeftBehind' \subseteq LeftBehind
  <2>1. \A q \in Requests : q # r => request'[q] = request[q]
    BY <1>0, <1>3 DEF Ends, SyncTypeOK
  <2>2. ASSUME NEW j \in Keys, Driven(j), run'[j].status = InProgress PROVE Driven(j)'
    BY <1>3, <2>1, <2>2 DEF Driven, Past
  <2> QED BY <1>3, <2>2 DEF LeftBehind
<1>4. CASE Start(r)
  <2>1. request[r].at = "prepared" /\ Goes(r, "building")
        /\ \A j \in Keys : j # k => run'[j] = run[j]
    BY <1>0, <1>4 DEF Start, SyncTypeOK
  <2> QED BY <1>1, <1>2, <2>1 DEF Preparing
<1>5. CASE StoreChunks(r) \/ EmbeddingFails(r) \/ PromoteConflicts(r) \/ PublishFails(r)
  BY <1>1, <1>2, <1>5 DEF StoreChunks, EmbeddingFails, PromoteConflicts, PublishFails, Preparing
<1>6. CASE Promote(r)
  <2>1. request[r].at = "stored" /\ Goes(r, "promoted")
        /\ \A j \in Keys : j # k => run'[j] = run[j]
    BY <1>0, <1>6 DEF Promote, SyncTypeOK
  <2> QED BY <1>1, <1>2, <2>1 DEF Preparing
<1>7. CASE StartConflicts(r)
  BY <1>1, <1>3, <1>7 DEF StartConflicts, Preparing
<1>8. CASE Publish(r)
  <2>1. run[k].status # InProgress
    BY <1>8 DEF Publish, SyncInv, AtStage, InProgress
  <2> QED BY <1>1, <1>3, <1>8, <2>1 DEF Publish
<1>9. CASE Fail(r)
  <2>1. request[r].at = "failing" /\ k \in Keys
    BY <1>0, <1>9, AtWork DEF Fail
  <2>2. CASE run[k].status \in Finished
    BY <1>1, <1>3, <1>9, <2>2 DEF Fail, Finished, InProgress
  <2>3. CASE run[k].status \notin Finished
    <3>1. run[k] \in Run
      BY <1>0, <2>1, <2>3 DEF SyncInv, SyncTypeOK, AtStage, NoRun, InProgress
    <3>2. run'[k].status = "failed" /\ \A j \in Keys : j # k => run'[j] = run[j]
      BY <1>0, <1>9, <2>1, <2>3, <3>1 DEF Fail, SyncTypeOK, Run
    <3> QED BY <1>1, <1>3, <1>9, <3>2 DEF Fail, InProgress
  <2> QED BY <2>2, <2>3
<1>10. CASE CheckReady(r) \/ ReadManifest(r) \/ LookUp(r)
  BY <1>1, <1>10, NoRunYet
<1> QED BY <1>4, <1>5, <1>6, <1>7, <1>8, <1>9, <1>10 DEF RequestStep

LEMMA StuckKeeps == SyncInv /\ StuckByCrash /\ [SyncNext]_syncVars => StuckByCrash'
<1> SUFFICES ASSUME SyncInv, StuckByCrash, [SyncNext]_syncVars PROVE StuckByCrash'
  OBVIOUS
<1>1. ASSUME NEW r \in Requests, NEW k \in Keys, Arrive(r, k) PROVE StuckByCrash'
  BY <1>1, NoRunYet, LeftKeeps
<1>2. ASSUME NEW r \in Requests, RequestStep(r) PROVE StuckByCrash'
  BY <1>2, StepsLeaveNothing, LeftKeeps
<1>3. ASSUME NEW r \in Requests, Dies(r) PROVE StuckByCrash'
  BY <1>3, DyingLeaves
<1>4. CASE UNCHANGED <<run, request, crashes>>
  BY <1>4 DEF StuckByCrash, LeftBehind, Driven, Past
<1>5. CASE (\E p \in Parts, v \in Versions : Edit(p, v)) \/ \E P \in SUBSET Parts : Withhold(P)
  BY <1>4, <1>5, AuthorsStep DEF SyncInv
<1>6. CASE UNCHANGED syncVars
  BY <1>4, <1>6 DEF syncVars
<1> QED BY <1>1, <1>2, <1>3, <1>5, <1>6 DEF SyncNext

\* A run in progress that nobody drives was left by a process that died: an
\* error of any step closes the run instead.
THEOREM OnlyDeathsLeaveRuns == SyncSpec => []StuckByCrash
BY LeftInit, StuckKeeps, SyncInvariance, PTL DEF SyncSpec

\* An attempt that has ended is never written again, although the except block
\* is entered once more when publishing its events fails.
THEOREM EndedRunsAreHistory == SyncSpec => HistoryStays
<1>1. SyncInv /\ [SyncNext]_syncVars
      => [\A k \in Keys : run[k].status \in Finished => run'[k] = run[k]]_syncVars
  <2> SUFFICES ASSUME SyncInv, SyncNext, NEW k \in Keys, run[k].status \in Finished
               PROVE  run'[k] = run[k]
    OBVIOUS
  <2>1. ASSUME NEW r \in Requests, NEW j \in Keys, Arrive(r, j) PROVE run'[k] = run[k]
    BY <2>1 DEF Arrive
  <2>2. ASSUME NEW r \in Requests, RequestStep(r) PROVE run'[k] = run[k]
    <3>1. CASE Start(r) \/ Fail(r)
      BY <3>1 DEF Start, Fail, NoRun, Finished, SyncInv, SyncTypeOK
    <3>2. CASE Promote(r)
      BY <3>2 DEF Promote, Finished, InProgress, SyncInv, SyncTypeOK, AtStage
    <3>3. CASE UNCHANGED run
      BY <3>3
    <3> QED BY <2>2, <3>1, <3>2, <3>3 DEF RequestStep, CheckReady, ReadManifest, LookUp,
               StartConflicts, StoreChunks, EmbeddingFails, PromoteConflicts, Publish, PublishFails
  <2>3. ASSUME NEW r \in Requests, Dies(r) PROVE run'[k] = run[k]
    BY <2>3 DEF Dies
  <2>4. CASE (\E p \in Parts, v \in Versions : Edit(p, v)) \/ \E P \in SUBSET Parts : Withhold(P)
    BY <2>4 DEF Edit, Withhold
  <2> QED BY <2>1, <2>2, <2>3, <2>4 DEF SyncNext
<1> QED BY <1>1, SyncInvariance, PTL DEF SyncSpec, HistoryStays

\* An active generation stays active: its run has ended, and nothing retires it.
LEMMA ActiveStays ==
    ASSUME SyncInv, [SyncNext]_syncVars, NEW k \in Keys, generation[k] = "active"
    PROVE  generation'[k] = "active"
<1>1. run[k].status = "synchronized"
  BY DEF SyncInv, Paired
<1>2. ASSUME NEW r \in Requests, NEW j \in Keys, Arrive(r, j) PROVE generation'[k] = "active"
  BY <1>2 DEF Arrive
<1>3. ASSUME NEW r \in Requests, RequestStep(r) PROVE generation'[k] = "active"
  <2>1. CASE Start(r) \/ Fail(r) \/ Promote(r)
    BY <1>1, <2>1 DEF Start, Fail, Promote, NoRun, Finished, SyncInv, SyncTypeOK
  <2>2. CASE UNCHANGED generation
    BY <2>2
  <2> QED BY <1>3, <2>1, <2>2 DEF RequestStep, CheckReady, ReadManifest, LookUp,
             StartConflicts, StoreChunks, EmbeddingFails, PromoteConflicts, Publish, PublishFails
<1>4. ASSUME NEW r \in Requests, Dies(r) PROVE generation'[k] = "active"
  BY <1>4 DEF Dies
<1>5. CASE (\E p \in Parts, v \in Versions : Edit(p, v)) \/ \E P \in SUBSET Parts : Withhold(P)
  BY <1>5 DEF Edit, Withhold
<1>6. CASE UNCHANGED syncVars
  BY <1>6 DEF syncVars
<1> QED BY <1>2, <1>3, <1>4, <1>5, <1>6 DEF SyncNext

-----------------------------------------------------------------------------
(* What is searched is complete *)

WholeUnlessTorn ==
    \/ torn
    \/ /\ \A r \in Requests :
            /\ request[r].at = "ready" => Complete(content)
            /\ request[r].at \in Stages => Complete(request[r].manifest)
       /\ \A k \in Keys : run[k].status # "none" => Complete(run[k].manifest)

LEMMA WholeInit == SyncInit => WholeUnlessTorn
BY DEF SyncInit, WholeUnlessTorn, Idle, Stages, NoRun

\* A request that keeps what it read keeps it whole, and so does one that ends.
LEMMA WholeKept ==
    ASSUME SyncTypeOK, WholeUnlessTorn, NEW r \in Requests, UNCHANGED <<content, torn>>,
           \A q \in Requests : q # r => request'[q] = request[q],
           request'[r].at # "ready",
           request'[r].at \in Stages => torn \/ Complete(request'[r].manifest),
           \A k \in Keys : run'[k].status # "none"
                => torn \/ (run[k].status # "none" /\ run'[k].manifest = run[k].manifest)
                        \/ Complete(run'[k].manifest)
    PROVE  WholeUnlessTorn'
<1>1. CASE torn
  BY <1>1 DEF WholeUnlessTorn
<1>2. CASE ~torn
  <2>1. Complete(content)' = Complete(content)
    BY DEF Complete
  <2>2. ASSUME NEW q \in Requests, request'[q].at = "ready" PROVE Complete(content)'
    BY <1>2, <2>1, <2>2 DEF WholeUnlessTorn
  <2>3. ASSUME NEW q \in Requests, request'[q].at \in Stages PROVE Complete(request'[q].manifest)
    BY <1>2, <2>3 DEF WholeUnlessTorn
  <2>4. ASSUME NEW k \in Keys, run'[k].status # "none" PROVE Complete(run'[k].manifest)
    BY <1>2, <2>4 DEF WholeUnlessTorn
  <2> QED BY <2>2, <2>3, <2>4 DEF WholeUnlessTorn
<1> QED BY <1>1, <1>2

LEMMA WholeLeaving ==
    ASSUME SyncInv, WholeUnlessTorn, NEW r \in Requests, Ends(r), UNCHANGED <<content, run, torn>>
    PROVE  WholeUnlessTorn'
<1>1. request'[r] = Idle /\ \A q \in Requests : q # r => request'[q] = request[q]
  BY DEF Ends, SyncInv, SyncTypeOK
<1> QED BY <1>1, WholeKept DEF SyncInv, Idle, Stages

\* The manifest goes along.
LEMMA WholeGoingOn ==
    ASSUME SyncInv, WholeUnlessTorn, NEW r \in Requests, request[r].at \in Stages,
           NEW at \in Stages, Goes(r, at), UNCHANGED <<content, torn>>,
           \A k \in Keys : run'[k].status # "none"
                => \/ run[k].status # "none" /\ run'[k].manifest = run[k].manifest
                   \/ run'[k].manifest = request[r].manifest
    PROVE  WholeUnlessTorn'
<1>1. /\ request'[r].at = at
      /\ \A q \in Requests : q # r => request'[q] = request[q]
  BY GoingOn DEF SyncInv
<1>2. request'[r].manifest = request[r].manifest
  <2>1. request[r] \in Holding
    BY AtWork DEF SyncInv
  <2> QED BY <2>1 DEF Goes, SyncInv, SyncTypeOK, Holding
<1>3. torn \/ Complete(request[r].manifest)
  BY DEF WholeUnlessTorn
<1>4. at # "ready"
  BY DEF Stages
<1> QED BY <1>1, <1>2, <1>3, <1>4, WholeKept DEF SyncInv

LEMMA WholeAsking ==
    ASSUME SyncInv, WholeUnlessTorn, NEW r \in Requests,
           (\E k \in Keys : Arrive(r, k)) \/ CheckReady(r) \/ ReadManifest(r) \/ LookUp(r)
    PROVE  WholeUnlessTorn'
<1> USE DEF SyncInv
<1>1. CASE LeavesAsIs(r)
  BY <1>1, WholeLeaving DEF LeavesAsIs
<1>2. CASE \E k \in Keys : Arrive(r, k)
  BY <1>2, ArriveSteps, WholeKept DEF Prepares, Stages
<1>3. CASE CheckReady(r) /\ Prepares(r, "ready") /\ Complete(content)
  <2>1. Complete(content)'
    BY <1>3 DEF Prepares, Complete
  <2> QED BY <1>3, <2>1 DEF Prepares, WholeUnlessTorn, Stages
<1>4. CASE ReadManifest(r) /\ Prepares(r, "read") /\ request'[r].manifest = content
  <2>1. torn \/ Complete(content)
    BY <1>4 DEF ReadManifest, WholeUnlessTorn
  <2> QED BY <1>4, <2>1, WholeKept DEF Prepares
<1>5. CASE LookUp(r) /\ Prepares(r, "prepared") /\ request'[r].manifest = request[r].manifest
  <2>1. torn \/ Complete(request[r].manifest)
    BY <1>5 DEF LookUp, WholeUnlessTorn, Stages
  <2> QED BY <1>5, <2>1, WholeKept DEF Prepares
<1> QED BY <1>1, <1>2, <1>3, <1>4, <1>5, CheckReadySteps, ReadManifestSteps, LookUpSteps

LEMMA WholeSteps ==
    ASSUME SyncInv, WholeUnlessTorn, NEW r \in Requests, RequestStep(r)
    PROVE  WholeUnlessTorn'
<1> USE DEF Stages
<1>1. CASE CheckReady(r) \/ ReadManifest(r) \/ LookUp(r)
  BY <1>1, WholeAsking
<1>2. CASE Start(r) \/ Promote(r)
  <2>1. /\ request[r].at \in Stages
        /\ Goes(r, "building") \/ Goes(r, "promoted")
        /\ UNCHANGED <<content, torn>>
    BY <1>2 DEF Start, Promote
  <2>2. ASSUME NEW k \in Keys
        PROVE  \/ run[k].status # "none" /\ run'[k].manifest = run[k].manifest
               \/ run'[k].manifest = request[r].manifest
               \/ run'[k] = run[k]
    <3>1. CASE Start(r)
      BY <3>1 DEF Start, SyncInv, SyncTypeOK
    <3>2. CASE Promote(r)
      <4>1. run[k] # NoRun \/ k # request[r].key
        BY <3>2 DEF Promote, SyncInv, AtStage, NoRun, InProgress
      <4> QED BY <3>2, <4>1 DEF Promote, SyncInv, SyncTypeOK, Run, Finished, InProgress
    <3> QED BY <1>2, <3>1, <3>2
  <2> QED BY <2>1, <2>2, WholeGoingOn
<1>3. CASE StoreChunks(r) \/ EmbeddingFails(r) \/ PromoteConflicts(r) \/ PublishFails(r)
  BY <1>3, WholeGoingOn DEF StoreChunks, EmbeddingFails, PromoteConflicts, PublishFails
<1>4. CASE StartConflicts(r) \/ Publish(r)
  BY <1>4, WholeLeaving DEF StartConflicts, Publish
<1>5. CASE Fail(r)
  <2>1. request'[r] = Idle /\ \A q \in Requests : q # r => request'[q] = request[q]
    BY <1>5 DEF Fail, Ends, SyncInv, SyncTypeOK
  <2>2. ASSUME NEW k \in Keys
        PROVE  run'[k] = run[k] \/ (run[k].status # "none" /\ run'[k].manifest = run[k].manifest)
    <3>1. run[k] # NoRun \/ k # request[r].key
      BY <1>5 DEF Fail, SyncInv, AtStage, NoRun, InProgress
    <3> QED BY <1>5, <3>1 DEF Fail, SyncInv, SyncTypeOK, Run, Finished, InProgress
  <2>3. \A k \in Keys : run[k].status # "none" => torn \/ Complete(run[k].manifest)
    BY DEF WholeUnlessTorn
  <2> QED BY <1>5, <2>1, <2>2, <2>3, WholeKept DEF Fail, SyncInv, Idle
<1> QED BY <1>1, <1>2, <1>3, <1>4, <1>5 DEF RequestStep

\* Authors who edit make nothing incomplete; authors who withhold a part from a
\* request that has found none missing are what torn remembers.
LEMMA WholeAuthors ==
    ASSUME SyncInv, WholeUnlessTorn,
           (\E p \in Parts, v \in Versions : Edit(p, v)) \/ \E P \in SUBSET Parts : Withhold(P)
    PROVE  WholeUnlessTorn'
<1>1. UNCHANGED <<run, request>>
  BY AuthorsStep DEF SyncInv
<1>2. ASSUME NEW p \in Parts, NEW v \in Versions, Edit(p, v), Complete(content) PROVE Complete(content)'
  BY <1>2, SomeContent DEF Edit, Complete, Withheld, SyncInv, SyncTypeOK, Official
<1>3. CASE \E p \in Parts, v \in Versions : Edit(p, v)
  <2>1. torn' = torn /\ (Complete(content) => Complete(content)')
    BY <1>2, <1>3 DEF Edit
  <2> QED BY <1>1, <2>1 DEF WholeUnlessTorn, Complete
<1>4. CASE \E P \in SUBSET Parts : Withhold(P)
  <2>1. torn' = (torn \/ \E r \in Requests : request[r].at = "ready")
    BY <1>4 DEF Withhold
  <2> QED BY <1>1, <2>1 DEF WholeUnlessTorn, Complete
<1> QED BY <1>3, <1>4

LEMMA WholeKeeps == SyncInv /\ WholeUnlessTorn /\ [SyncNext]_syncVars => WholeUnlessTorn'
<1> SUFFICES ASSUME SyncInv, WholeUnlessTorn, [SyncNext]_syncVars PROVE WholeUnlessTorn'
  OBVIOUS
<1>1. CASE UNCHANGED syncVars
  BY <1>1 DEF syncVars, WholeUnlessTorn, Complete
<1>2. ASSUME NEW r \in Requests, NEW k \in Keys, Arrive(r, k) PROVE WholeUnlessTorn'
  BY <1>2, WholeAsking
<1>3. ASSUME NEW r \in Requests, RequestStep(r) PROVE WholeUnlessTorn'
  BY <1>3, WholeSteps
<1>4. ASSUME NEW r \in Requests, Dies(r) PROVE WholeUnlessTorn'
  BY <1>4, WholeLeaving DEF Dies
<1> QED BY <1>1, <1>2, <1>3, <1>4, WholeAuthors DEF SyncNext

\* What searches read has every part that was planned for, unless one was
\* withheld between the check of the readiness and the reading of the manifest:
\* that unlocked gap is the only way to an index with parts missing.
THEOREM SearchedIsComplete == SyncSpec => []CompleteUnlessTorn
<1>1. SyncInv /\ WholeUnlessTorn => CompleteUnlessTorn
  BY DEF SyncInv, Paired, WholeUnlessTorn, CompleteUnlessTorn
<1> QED BY <1>1, WholeInit, WholeKeeps, SyncInvariance, PTL DEF SyncSpec
-----------------------------------------------------------------------------
(* The refinement of SearchIndex *)

\* A request that is neither here nor there has no manifest in hand.
LEMMA Dropping ==
    ASSUME NEW r \in Requests, \A q \in Requests : q # r => request'[q] = request[q],
           request'[r].at \notin {"read", "prepared"}
    PROVE  InHand("read")' \in SUBSET InHand("read") /\ InHand("prepared")' \in SUBSET InHand("prepared")
BY DEF InHand

LEMMA ReadManifestImplements ==
    ASSUME SyncInv, WholeUnlessTorn, NEW r \in Requests, ReadManifest(r),
           Prepares(r, "read"), request'[r].manifest = content, content \in Manifests
    PROVE  Index!Read
<1>1. request[r].at = "ready" /\ request'[r].at = "read"
  BY DEF ReadManifest, Prepares
<1>2. InHand("read")' = InHand("read") \cup {content}
  <2>1. InHand("read")' \subseteq InHand("read") \cup {content}
    BY DEF InHand, Prepares
  <2>2. InHand("read") \subseteq InHand("read")'
    BY <1>1 DEF InHand, Prepares
  <2>3. content \in InHand("read")'
    BY <1>1 DEF InHand
  <2> QED BY <2>1, <2>2, <2>3
<1>3. InHand("prepared")' = InHand("prepared")
  BY <1>1 DEF InHand, Prepares
<1>4. torn \/ \A p \in Parts : content[p] # Withheld
  BY <1>1 DEF WholeUnlessTorn, Complete
<1>5. content # Nothing
  BY DEF Manifests
<1> QED BY <1>2, <1>3, <1>4, <1>5
        DEF Index!Read, Index!Nothing, Index!Withheld, Nothing, Withheld, Prepares, SearchedKeys

LEMMA LookUpImplements ==
    ASSUME SyncInv, NEW r \in Requests, LookUp(r), Prepares(r, "prepared"),
           request'[r].manifest = request[r].manifest, Equivalent(request[r].manifest) = {}
    PROVE  \E manifest \in InHand("read") : Index!LookUp(manifest)
<1> DEFINE m == request[r].manifest
<1>1. request[r].at = "read" /\ request'[r].at = "prepared"
  BY DEF LookUp, Prepares
<1>2. m \in InHand("read")
  BY <1>1 DEF InHand
<1>3. InHand("read")' \in SUBSET InHand("read")
  BY <1>1 DEF InHand, Prepares
<1>4. InHand("prepared")' = InHand("prepared") \cup {m}
  <2>1. InHand("prepared")' \subseteq InHand("prepared") \cup {m}
    BY DEF InHand, Prepares
  <2>2. InHand("prepared") \subseteq InHand("prepared")'
    BY <1>1 DEF InHand, Prepares
  <2>3. m \in InHand("prepared")'
    BY <1>1 DEF InHand
  <2> QED BY <2>1, <2>2, <2>3
<1>5. ASSUME NEW k \in Keys, run[k].manifest = m
      PROVE  run[k].status \in {"none", "failed"}
  <2>1. run[k].status \notin {InProgress, "synchronized"}
    BY <1>5 DEF Equivalent
  <2>2. run[k] = NoRun \/ run[k] \in Run
    BY DEF SyncInv, SyncTypeOK
  <2> QED BY <2>1, <2>2 DEF NoRun, Run, Finished
<1>6. Index!LookUp(m)
  BY <1>3, <1>4, <1>5 DEF Index!LookUp, Prepares, SearchedKeys
<1> QED BY <1>2, <1>6

LEMMA StartImplements ==
    ASSUME SyncInv, NEW r \in Requests, Start(r)
    PROVE  \E k \in Keys : Index!Begin(k)
<1> DEFINE k == request[r].key
<1>1. /\ SyncTypeOK /\ request[r].at = "prepared" /\ Goes(r, "building")
      /\ run[k] = NoRun
      /\ run' = [run EXCEPT ![k] = [status |-> InProgress, manifest |-> request[r].manifest]]
      /\ generation' = [generation EXCEPT ![k] = "building"]
      /\ UNCHANGED <<content, torn>>
  BY DEF SyncInv, Start
<1>2. k \in Keys
  BY <1>1, AtWork DEF Stages
<1>3. /\ request'[r].at = "building"
      /\ \A q \in Requests : q # r => request'[q] = request[q]
  BY <1>1, GoingOn DEF Stages
<1>4. InHand("read")' = InHand("read") /\ InHand("prepared")' \in SUBSET InHand("prepared")
  BY <1>1, <1>3 DEF InHand
<1>5. request[r].manifest \in InHand("prepared")
  BY <1>1 DEF InHand
<1>6. SearchedKeys' = SearchedKeys
  <2>1. generation[k] # "active"
    BY <1>1, <1>2 DEF SyncInv, Paired, NoRun
  <2> QED BY <1>1, <1>2, <2>1 DEF SyncTypeOK, SearchedKeys
<1>7. Index!Begin(k)
  BY <1>1, <1>4, <1>5, <1>6
  DEF Index!Begin, Index!NoAttempt, Index!Nothing, Index!Withheld, NoRun, Nothing, Withheld, InProgress
<1> QED BY <1>2, <1>7

LEMMA PromoteImplements ==
    ASSUME SyncInv, NEW r \in Requests, Promote(r)
    PROVE  \E k \in Keys : Index!Succeed(k)
<1> DEFINE k == request[r].key
<1>1. /\ SyncTypeOK /\ request[r].at = "stored" /\ Goes(r, "promoted")
      /\ Prior(k) = {}
      /\ run' = [run EXCEPT ![k].status = "synchronized"]
      /\ generation' = [generation EXCEPT ![k] = "active"]
      /\ UNCHANGED <<content, torn>>
  BY DEF SyncInv, Promote
<1>2. k \in Keys /\ run[k].status = InProgress
  BY <1>1, AtWork DEF Stages, SyncInv, AtStage
<1>3. /\ request'[r].at = "promoted"
      /\ \A q \in Requests : q # r => request'[q] = request[q]
  BY <1>1, GoingOn DEF Stages
<1>4. InHand("read")' = InHand("read") /\ InHand("prepared")' = InHand("prepared")
  BY <1>1, <1>3 DEF InHand
<1>5. SearchedKeys = {}
  <2>1. generation[k] # "active"
    BY <1>2 DEF SyncInv, Paired, InProgress
  <2> QED BY <1>1, <2>1 DEF Prior, SearchedKeys
<1>6. SearchedKeys' = {k}
  BY <1>1, <1>2, <1>5 DEF SyncTypeOK, SearchedKeys
<1>7. Index!Succeed(k)
  BY <1>1, <1>2, <1>4, <1>5, <1>6 DEF Index!Succeed, InProgress
<1> QED BY <1>2, <1>7

LEMMA FailImplements ==
    ASSUME SyncInv, NEW r \in Requests, Fail(r)
    PROVE  (\E k \in Keys : Index!Fail(k)) \/ UNCHANGED Index!index
<1> DEFINE k == request[r].key
<1>1. SyncTypeOK /\ request[r].at = "failing" /\ Ends(r) /\ UNCHANGED <<content, torn>>
  BY DEF SyncInv, Fail
<1>2. k \in Keys /\ run[k].status \in {InProgress, "synchronized"}
  BY <1>1, AtWork DEF Stages, SyncInv, AtStage
<1>3. /\ request'[r] = Idle
      /\ \A q \in Requests : q # r => request'[q] = request[q]
  BY <1>1 DEF Ends, SyncTypeOK
<1>4. InHand("read")' = InHand("read") /\ InHand("prepared")' = InHand("prepared")
  BY <1>1, <1>3 DEF InHand, Idle
<1>5. CASE run[k].status \in Finished
  BY <1>1, <1>4, <1>5 DEF Fail, Index!index, SearchedKeys
<1>6. CASE run[k].status \notin Finished
  <2>1. /\ run' = [run EXCEPT ![k].status = "failed"]
        /\ generation' = [generation EXCEPT ![k] = "failed"]
    BY <1>6 DEF Fail
  <2>2. run[k].status = InProgress
    BY <1>2, <1>6 DEF Finished
  <2>3. generation[k] # "active"
    BY <1>2, <2>2 DEF SyncInv, Paired, InProgress
  <2>4. SearchedKeys' = SearchedKeys
    BY <1>1, <1>2, <2>1, <2>3 DEF SyncTypeOK, SearchedKeys
  <2>5. Index!Fail(k)
    BY <1>1, <1>4, <2>1, <2>2, <2>4 DEF Index!Fail, InProgress
  <2> QED BY <1>2, <2>5
<1> QED BY <1>5, <1>6

\* A request that ends without touching its run drops at most its manifest.
LEMMA LeavingImplements ==
    ASSUME SyncInv, NEW r \in Requests, Ends(r), UNCHANGED <<content, torn, run, generation>>
    PROVE  Index!Drop
<1>1. /\ request'[r] = Idle
      /\ \A q \in Requests : q # r => request'[q] = request[q]
  BY DEF Ends, SyncInv, SyncTypeOK
<1>2. InHand("read")' \in SUBSET InHand("read") /\ InHand("prepared")' \in SUBSET InHand("prepared")
  BY <1>1, Dropping DEF Idle
<1> QED BY <1>2 DEF Index!Drop, SearchedKeys

\* A request that goes on with its run changes nothing that searches see.
LEMMA GoingOnImplements ==
    ASSUME SyncInv, NEW r \in Requests, request[r].at \in Stages,
           NEW at \in Stages \ Preparing, Goes(r, at), UNCHANGED <<content, torn, run, generation>>
    PROVE  Index!Drop
<1>1. /\ request'[r].at = at
      /\ \A q \in Requests : q # r => request'[q] = request[q]
  BY GoingOn DEF SyncInv
<1>2. InHand("read")' \in SUBSET InHand("read") /\ InHand("prepared")' \in SUBSET InHand("prepared")
  BY <1>1, Dropping DEF Preparing
<1> QED BY <1>2 DEF Index!Drop, SearchedKeys

LEMMA AskingImplements ==
    ASSUME SyncInv, WholeUnlessTorn, NEW r \in Requests,
           (\E k \in Keys : Arrive(r, k)) \/ CheckReady(r) \/ ReadManifest(r) \/ LookUp(r)
    PROVE  Index!Next
<1> USE DEF SyncInv
<1>1. CASE LeavesAsIs(r)
  BY <1>1, LeavingImplements DEF LeavesAsIs, Index!Next
<1>2. CASE Prepares(r, "new") \/ Prepares(r, "ready")
  <2>1. InHand("read")' \in SUBSET InHand("read") /\ InHand("prepared")' \in SUBSET InHand("prepared")
    BY <1>2, Dropping DEF Prepares
  <2> QED BY <1>2, <2>1 DEF Prepares, Index!Drop, Index!Next, SearchedKeys
<1>3. CASE ReadManifest(r) /\ Prepares(r, "read") /\ request'[r].manifest = content /\ content \in Manifests
  BY <1>3, ReadManifestImplements DEF Index!Next
<1>4. CASE LookUp(r) /\ Prepares(r, "prepared") /\ request'[r].manifest = request[r].manifest
           /\ Equivalent(request[r].manifest) = {}
  BY <1>4, LookUpImplements DEF Index!Next
<1> QED BY <1>1, <1>2, <1>3, <1>4, ArriveSteps, CheckReadySteps, ReadManifestSteps, LookUpSteps

LEMMA IndexSteps == SyncInv /\ WholeUnlessTorn /\ [SyncNext]_syncVars => [Index!Next]_(Index!index)
<1> SUFFICES ASSUME SyncInv, WholeUnlessTorn, [SyncNext]_syncVars
             PROVE  Index!Next \/ UNCHANGED Index!index
  OBVIOUS
<1>1. ASSUME NEW r \in Requests, NEW k \in Keys, Arrive(r, k) PROVE Index!Next
  BY <1>1, AskingImplements
<1>2. ASSUME NEW r \in Requests, RequestStep(r) PROVE Index!Next \/ UNCHANGED Index!index
  <2>1. CASE CheckReady(r) \/ ReadManifest(r) \/ LookUp(r)
    BY <2>1, AskingImplements
  <2>2. CASE Start(r) \/ Promote(r) \/ Fail(r)
    BY <2>2, StartImplements, PromoteImplements, FailImplements DEF Index!Next
  <2>3. CASE StartConflicts(r) \/ Publish(r)
    BY <2>3, LeavingImplements DEF StartConflicts, Publish, Index!Next
  <2>4. CASE StoreChunks(r) \/ EmbeddingFails(r) \/ PromoteConflicts(r) \/ PublishFails(r)
    BY <2>4, GoingOnImplements
    DEF StoreChunks, EmbeddingFails, PromoteConflicts, PublishFails, Stages, Preparing, Index!Next
  <2> QED BY <1>2, <2>1, <2>2, <2>3, <2>4 DEF RequestStep
<1>3. ASSUME NEW r \in Requests, Dies(r) PROVE Index!Next
  BY <1>3, LeavingImplements DEF Dies, Index!Next
<1>4. CASE (\E p \in Parts, v \in Versions : Edit(p, v)) \/ \E P \in SUBSET Parts : Withhold(P)
  <2>1. UNCHANGED <<run, generation, request>> /\ content' \in Official
    BY <1>4, AuthorsStep DEF SyncInv
  <2>2. torn' \in {torn, TRUE}
    BY <1>4 DEF Edit, Withhold, SyncInv, SyncTypeOK
  <2>3. InHand("read")' = InHand("read") /\ InHand("prepared")' = InHand("prepared") /\ SearchedKeys' = SearchedKeys
    BY <2>1 DEF InHand, SearchedKeys
  <2> QED BY <2>1, <2>2, <2>3 DEF Official, Withheld, Index!Withheld, Index!Author, Index!Next
<1>5. CASE UNCHANGED syncVars
  BY <1>5 DEF syncVars, Index!index, InHand, SearchedKeys
<1> QED BY <1>1, <1>2, <1>3, <1>4, <1>5 DEF SyncNext

\* Whatever its requests do, and whatever becomes of them, synchronization
\* starts as an empty index and goes on as SearchIndex allows.
LEMMA SyncImplements == SyncInit /\ [][SyncNext]_syncVars => ImplementsIndex
<1>1. SyncInit => Index!Init
  <2>1. SyncInit => InHand("read") = {} /\ InHand("prepared") = {} /\ SearchedKeys = {}
    BY DEF SyncInit, InHand, SearchedKeys, Idle
  <2> QED BY <2>1
          DEF SyncInit, Index!Init, Index!NoAttempt, Index!Nothing, Index!Withheld, NoRun, Nothing, Withheld
<1> QED BY <1>1, IndexSteps, SyncInvariance, WholeInit, WholeKeeps, PTL DEF ImplementsIndex, Index!Spec

\* The requests, runs and generations implement the index: content that was
\* official when it was read, whole unless torn, is indexed or not, once and for
\* all (ImplementsIndex).
THEOREM ImplementsTheIndex == SyncSpec => ImplementsIndex
BY SyncImplements, PTL DEF SyncSpec
=============================================================================
