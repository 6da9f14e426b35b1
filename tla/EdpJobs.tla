------------------------------ MODULE EdpJobs ------------------------------
(***************************************************************************)
(* The job lifecycle of edp-api: POST /edp-api/jobs, the in-memory job     *)
(* store, the background pipeline that renders and uploads a package, and  *)
(* GET /edp-api/jobs/{id}; with what surrounds it: platform-api (the       *)
(* client), the manifest publisher, S3, and the restart of the process.    *)
(*                                                                         *)
(* `create` runs on the event loop, so it is one step.  `execute` is a     *)
(* plain function, which Starlette runs on a worker thread once the 202    *)
(* has been sent: the pipelines of several jobs interleave with one        *)
(* another and with every request, at each of their reads and writes of    *)
(* S3.  A POST that is accepted gets a fresh uuid4; here a POST attempt    *)
(* and the job it may become share one identifier of Jobs.                 *)
(***************************************************************************)
EXTENDS Integers, FiniteSets

CONSTANTS
    Jobs,           \* POST attempts, hence job ids: the bound on re-POSTs
    Payloads,       \* ConfiguratorPayload values
    Deployments,    \* deployment_id values
    DeploymentOf,   \* the deployment_id a payload carries
    Valid,          \* payloads that pass region validation and sizing
    Manifests,      \* releases of manifest.yaml
    WellFormed,     \* releases that parse as a Manifest
    Serves,         \* release -> payloads whose profile it can build
    UrlPlates,      \* release -> plates its profile puts in the URL list
    BomPlates,      \* release -> plates its assemblies put on the BOM
    Plates,         \* interface plate ids
    Offers,         \* what the distributors may answer for the whole BOM
    NumArtifacts,   \* rows of `_generated`, uploaded in this order
    UsesDtm,        \* rows whose bytes are rendered from the DTM
    UsesBom,        \* rows whose bytes are rendered from the BOM
    Pool,           \* worker threads (anyio gives 40)
    SingleFlight,   \* platform-api holds a lock per deployment_id
    None            \* no record, no manifest, no object

Artifacts == 1 .. NumArtifacts

JobRecord == [status: {"RUNNING", "COMPLETE", "FAILED"},
              payload: Payloads,
              manifest: Manifests]
Bom == [manifest: Manifests, dtm: Manifests, offers: Offers \cup {None}]
Body == [dtm: Manifests \cup {None}, bom: Bom \cup {None}]

ASSUME ConstantsAssumption ==
    /\ DeploymentOf \in [Payloads -> Deployments]
    /\ Valid \subseteq Payloads
    /\ WellFormed \subseteq Manifests
    /\ Serves \in [Manifests -> SUBSET Payloads]
    /\ UrlPlates \in [Manifests -> SUBSET Plates]
    /\ BomPlates \in [Manifests -> SUBSET Plates]
    /\ NumArtifacts \in Nat \ {0}
    /\ UsesDtm \subseteq Artifacts
    /\ UsesBom \subseteq Artifacts
    /\ Pool \in Nat \ {0}
    /\ SingleFlight \in BOOLEAN
ASSUME NoneAssumption ==
    /\ None \notin Manifests \cup Payloads \cup Offers \cup Jobs \cup Deployments
    /\ None \notin JobRecord \cup Bom \cup Body

VARIABLES
    published,  \* the release manifest.yaml in S3 is at
    object,     \* S3: deployment -> artifact row -> bytes, or None
    store,      \* JobStore._records: job id -> JobRecord, or None
    task,       \* job id -> where its request or background task stands
    order,      \* job id -> the payload posted, or None
    run,        \* job id -> locals of PipelineService.run
    client      \* deployment -> how platform-api stands with its order

vars == <<published, object, store, task, order, run, client>>

(***************************************************************************)
(* A request: unused, posted, then unprocessable (422), errored (500) or   *)
(* responding (202).  A background task: queued for a thread, dtm, bom,    *)
(* enrich, upload, summary, ended.  A restart turns a request not handled  *)
(* yet into dropped, and every job created so far into lost.               *)
(***************************************************************************)
Working == {"dtm", "bom", "enrich", "upload", "summary"}
Live == {"responding", "queued"} \cup Working
TaskState == {"unused", "posted", "unprocessable", "errored", "dropped",
              "ended", "lost"} \cup Live

NoRun == [dtm |-> None, bom |-> None, next |-> 1]
RunState == [dtm: Manifests \cup {None}, bom: Bom \cup {None},
             next: 1 .. NumArtifacts + 1]

Awaiting == {"posting", "polling"}
Phase == {"idle", "rejected", "done", "failed"} \cup Awaiting
Idle == [phase |-> "idle", job |-> None]

TypeOK ==
    /\ published \in Manifests
    /\ object \in [Deployments -> [Artifacts -> Body \cup {None}]]
    /\ store \in [Jobs -> JobRecord \cup {None}]
    /\ task \in [Jobs -> TaskState]
    /\ order \in [Jobs -> Payloads \cup {None}]
    /\ run \in [Jobs -> RunState]
    /\ client \in [Deployments -> [phase: Phase, job: Jobs \cup {None}]]

Init ==
    /\ published \in Manifests
    /\ object = [d \in Deployments |-> [k \in Artifacts |-> None]]
    /\ store = [j \in Jobs |-> None]
    /\ task = [j \in Jobs |-> "unused"]
    /\ order = [j \in Jobs |-> None]
    /\ run = [j \in Jobs |-> NoRun]
    /\ client = [d \in Deployments |-> Idle]

Site(j) == DeploymentOf[order[j]]
\* Mutated: only a success reaches the store / a failed job is dropped.
PutOnlySuccess(j, s) ==
    store' = IF s = "COMPLETE" THEN [store EXCEPT ![j].status = s] ELSE store
DropFailed(j, s) ==
    store' = IF s = "COMPLETE" THEN [store EXCEPT ![j].status = s]
             ELSE [store EXCEPT ![j] = None]
SetStatus(j, s) == store' = [store EXCEPT ![j].status = s]
Goto(j, s) == task' = [task EXCEPT ![j] = s]
\* The client that waits for the answer to POST j moves to phase ph.
Answer(j, ph) ==
    client' = [d \in Deployments |->
                 IF client[d] = [phase |-> "posting", job |-> j]
                 THEN [phase |-> ph, job |-> j] ELSE client[d]]

-----------------------------------------------------------------------------
(***************************************************************************)
(* platform-api, after the readme's "Contract with platform-api".          *)
(***************************************************************************)
\* Never while it waits for an earlier order of the site.
Submit(p, j) ==
    LET d == DeploymentOf[p] IN
    /\ client[d].phase \notin Awaiting
    /\ task[j] = "unused"
    /\ order' = [order EXCEPT ![j] = p]
    /\ Goto(j, "posted")
    /\ client' = [client EXCEPT ![d] = [phase |-> "posting", job |-> j]]
    /\ UNCHANGED <<published, object, store, run>>

\* The POST or the polling took too long: back to idle, to POST again while
\* the first run may still be at work.
GiveUp(d) ==
    /\ ~SingleFlight
    /\ client[d].phase \in Awaiting
    /\ \E j \in Jobs : task[j] = "unused"
    /\ client' = [client EXCEPT ![d] = Idle]
    /\ UNCHANGED <<published, object, store, task, order, run>>

\* The process died while the POST was open.
ConnectionReset(d) ==
    /\ client[d].phase = "posting"
    /\ task[client[d].job] \in {"dropped", "lost"}
    /\ client' = [client EXCEPT ![d] = Idle]
    /\ UNCHANGED <<published, object, store, task, order, run>>

\* GET /edp-api/jobs/{job_id}: the record's status, or 404.
Get(j) == IF store[j] = None THEN "404" ELSE store[j].status

Poll(d) ==
    LET j == client[d].job IN
    /\ client[d].phase = "polling"
    /\ \/ /\ Get(j) = "404"
          /\ client' = [client EXCEPT ![d] = Idle]
       \/ /\ Get(j) = "COMPLETE"
          /\ client' = [client EXCEPT ![d].phase = "done"]
       \/ /\ Get(j) = "FAILED"
          /\ client' = [client EXCEPT ![d].phase = "failed"]
    /\ UNCHANGED <<published, object, store, task, order, run>>

-----------------------------------------------------------------------------
(***************************************************************************)
(* POST /edp-api/jobs, on the event loop.                                  *)
(***************************************************************************)
\* Validate, resolve against the release read now, pin it, store RUNNING.
Create(j) ==
    /\ task[j] = "posted"
    /\ order[j] \in Valid
    /\ published \in WellFormed
    /\ order[j] \in Serves[published]
    /\ store' = [store EXCEPT ![j] = [status |-> "RUNNING",
                                      payload |-> order[j],
                                      manifest |-> published]]
    /\ Goto(j, "responding")
    /\ UNCHANGED <<published, object, order, run, client>>

\* Any ValueError is a 422: a rule the payload breaks, but also pydantic's
\* ValidationError when the manifest read from S3 does not parse.
Unprocessable(j) ==
    /\ task[j] = "posted"
    /\ order[j] \notin Valid \/ published \notin WellFormed
    /\ Goto(j, "unprocessable")
    /\ Answer(j, "rejected")
    /\ UNCHANGED <<published, object, store, order, run>>

\* Anything else is a 500: the KeyError of a profile the release does not
\* build, an S3 error while reading the manifest.
Errored(j) ==
    /\ task[j] = "posted"
    /\ order[j] \in Valid
    /\ Goto(j, "errored")
    /\ Answer(j, "failed")
    /\ UNCHANGED <<published, object, store, order, run>>

\* The 202 is sent; only then does the background task ask for a thread.
Respond(j) ==
    /\ task[j] = "responding"
    /\ Goto(j, "queued")
    /\ Answer(j, "polling")
    /\ UNCHANGED <<published, object, store, order, run>>

-----------------------------------------------------------------------------
(***************************************************************************)
(* JobsService.execute and PipelineService.run, on a worker thread.        *)
(***************************************************************************)
Start(j) ==
    /\ task[j] = "queued"
    /\ Cardinality({i \in Jobs : task[i] \in Working}) < Pool
    /\ Goto(j, IF store[j] = None THEN "ended" ELSE "dtm")
    /\ UNCHANGED <<published, object, store, order, run, client>>

\* Mutated: the DTM, too, follows the release published now.
GenerateDtmLatest(j) ==
    /\ task[j] = "dtm"
    /\ run' = [run EXCEPT ![j].dtm = published]
    /\ Goto(j, "bom")
    /\ UNCHANGED <<published, object, store, order, client>>

\* The DTM and the cable and hose schedule: from the manifest in the record.
GenerateDtm(j) ==
    /\ task[j] = "dtm"
    /\ run' = [run EXCEPT ![j].dtm = store[j].manifest]
    /\ Goto(j, "bom")
    /\ UNCHANGED <<published, object, store, order, client>>

\* The BOM: `generate` reads manifest.yaml from S3 once more, and takes the
\* cable and hose lines of the schedule made from the DTM.
GenerateBom(j) ==
    /\ task[j] = "bom"
    /\ published \in WellFormed
    /\ order[j] \in Serves[published]
    /\ run' = [run EXCEPT ![j].bom = [manifest |-> published,
                                      dtm |-> run[j].dtm,
                                      offers |-> None]]
    /\ Goto(j, "enrich")
    /\ UNCHANGED <<published, object, store, order, client>>

\* Live distributor offers are merged into the BOM; then the drawings.
AttachOffers(j) ==
    /\ task[j] = "enrich"
    /\ \E o \in Offers : run' = [run EXCEPT ![j].bom.offers = o]
    /\ Goto(j, "upload")
    /\ UNCHANGED <<published, object, store, order, client>>

\* artifact_bytes: what row k is rendered from.
ArtifactBytes(k, r) ==
    [dtm |-> IF k \in UsesDtm THEN r.dtm ELSE None,
     bom |-> IF k \in UsesBom THEN r.bom ELSE None]

\* Mutated: the upload loop ends `off` rows late.
UploadOff(j, off) ==
    LET k == run[j].next IN
    /\ task[j] = "upload"
    /\ object' = [object EXCEPT ![Site(j)][k] = ArtifactBytes(k, run[j])]
    /\ run' = [run EXCEPT ![j].next = k + 1]
    /\ Goto(j, IF k = NumArtifacts + off THEN "summary" ELSE "upload")
    /\ UNCHANGED <<published, store, order, client>>
UploadPastLast(j) == UploadOff(j, 1)
UploadNotLast(j) == UploadOff(j, -1)

\* One put_object per generated row, in the order of the URL list.
Upload(j) ==
    LET k == run[j].next IN
    /\ task[j] = "upload"
    /\ object' = [object EXCEPT ![Site(j)][k] = ArtifactBytes(k, run[j])]
    /\ run' = [run EXCEPT ![j].next = k + 1]
    /\ Goto(j, IF k = NumArtifacts THEN "summary" ELSE "upload")
    /\ UNCHANGED <<published, store, order, client>>

\* with_summaries counts the plates of the URL list on the BOM; then COMPLETE.
Finish(j) ==
    /\ task[j] = "summary"
    /\ UrlPlates[store[j].manifest] \subseteq BomPlates[run[j].bom.manifest]
    /\ SetStatus(j, "COMPLETE")
    /\ run' = [run EXCEPT ![j] = NoRun]
    /\ Goto(j, "ended")
    /\ UNCHANGED <<published, object, order, client>>

\* Mutated: what is raised after COMPLETE was stored still stores FAILED.
FailLate(j) ==
    /\ task[j] \in Working \cup {"ended"}
    /\ SetStatus(j, "FAILED")
    /\ run' = [run EXCEPT ![j] = NoRun]
    /\ Goto(j, "ended")
    /\ UNCHANGED <<published, object, order, client>>

\* An exception anywhere in the pipeline: S3, a generator, or a plate of the
\* URL list that the BOM does not have (KeyError in with_summaries).  Bytes
\* uploaded before it stay in S3.
Fail(j) ==
    /\ task[j] \in Working
    /\ task[j] = "summary" =>
         ~(UrlPlates[store[j].manifest] \subseteq BomPlates[run[j].bom.manifest])
    /\ SetStatus(j, "FAILED")
    /\ run' = [run EXCEPT ![j] = NoRun]
    /\ Goto(j, "ended")
    /\ UNCHANGED <<published, object, order, client>>

-----------------------------------------------------------------------------
(***************************************************************************)
(* The environment.                                                        *)
(***************************************************************************)
\* edp-module-assemblies publishes another manifest.yaml at the same URL.
Publish ==
    /\ \E m \in Manifests \ {published} : published' = m
    /\ UNCHANGED <<object, store, task, order, run, client>>

\* The process restarts: records, requests and threads are gone, S3 stays.
Restart ==
    /\ store' = [j \in Jobs |-> None]
    /\ run' = [j \in Jobs |-> NoRun]
    /\ task' = [j \in Jobs |->
                  IF task[j] = "posted" THEN "dropped"
                  ELSE IF task[j] \in Live \cup {"ended"} THEN "lost"
                  ELSE task[j]]
    /\ UNCHANGED <<published, object, order, client>>

Request(j) == Create(j) \/ Unprocessable(j) \/ Errored(j) \/ Respond(j)
Execute(j) ==
    \/ Start(j) \/ GenerateDtm(j) \/ GenerateBom(j) \/ AttachOffers(j)
    \/ Upload(j) \/ Finish(j) \/ Fail(j)
Platform ==
    \/ \E p \in Payloads, j \in Jobs : Submit(p, j)
    \/ \E d \in Deployments : GiveUp(d) \/ ConnectionReset(d) \/ Poll(d)

Next ==
    \/ Platform
    \/ \E j \in Jobs : Request(j) \/ Execute(j)
    \/ Publish
    \/ Restart

(***************************************************************************)
(* The event loop serves every request and every thread runs on: each call *)
(* of a pipeline ends, in a result or in an exception.  platform-api polls *)
(* and notices a closed connection.  Nobody has to POST, to give up, to    *)
(* publish or to restart.                                                  *)
(***************************************************************************)
Fairness ==
    /\ \A j \in Jobs : WF_vars(Request(j)) /\ WF_vars(Execute(j))
    /\ \A d \in Deployments : WF_vars(Poll(d)) /\ WF_vars(ConnectionReset(d))

Spec == Init /\ [][Next]_vars
FairSpec == Spec /\ Fairness

-----------------------------------------------------------------------------
(***************************************************************************)
(* Properties.                                                             *)
(***************************************************************************)
\* A record says RUNNING exactly as long as a request or thread is at work
\* on the job: no job is left RUNNING for ever by an error path, and none
\* settles while its thread still writes (JobsService.create and execute).
RunningIffTask ==
    \A j \in Jobs : Get(j) = "RUNNING" <=> task[j] \in Live

\* platform-api takes a 404 for "edp-api restarted" and POSTs again: a job
\* it was told of is never unknown for another reason (JobsService.create
\* stores the record before the 202 leaves; nothing deletes one).
NotFoundMeansRestart ==
    \A d \in Deployments :
        client[d].phase = "polling" /\ Get(client[d].job) = "404"
            => task[client[d].job] = "lost"

\* The package of site d is whole: every generated URL can be fetched.
Delivered(d) == \A k \in Artifacts : object[d][k] # None

\* When platform-api holds COMPLETE for an order, every generated URL of it
\* can be fetched, whatever failed, overlapped or restarted before or since
\* (PipelineService.run uploads all rows before JobsService.execute stores
\* COMPLETE; nothing removes an object).
DoneMeansDelivered ==
    \A d \in Deployments : client[d].phase = "done" => Delivered(d)

\* The bytes at the URLs of site d come from one DTM and one BOM.
Untorn(d) ==
    /\ \A k, l \in UsesDtm : object[d][k].dtm = object[d][l].dtm
    /\ \A k, l \in UsesBom : object[d][k].bom = object[d][l].bom

\* With the lock per deployment_id that the readme leaves to platform-api, a
\* COMPLETE package is one run's: its drawings and DTM are of the release
\* its URL list was built from and all its BOM files are the same BOM,
\* whatever crashed or failed before (PipelineService.run, S3 keys shared by
\* all runs of a site).
SingleFlightPackage ==
    \A d \in Deployments :
        SingleFlight /\ client[d].phase = "done" =>
            /\ Untorn(d)
            /\ LET j == client[d].job IN
               store[j] # None =>
                   \A k \in UsesDtm : object[d][k].dtm = store[j].manifest

\* Whoever waits for platform-api's order gets an answer: a POST or a poll
\* does not go unanswered for ever (pipeline exceptions, full thread pool,
\* restarts in between).
AnswerArrives ==
    \A d \in Deployments :
        client[d].phase \in Awaiting ~> client[d].phase \notin Awaiting

\* The readme: "Two parallel POSTs of the same payload waste compute [...]
\* but don't corrupt output."  If every run of a site ended COMPLETE, its
\* package is of one piece (PipelineService.run uploads row by row).
ParallelPostsHarmless ==
    \A d \in Deployments :
        LET posts == {j \in Jobs : order[j] # None /\ Site(j) = d} IN
        posts # {} /\ (\A j \in posts : Get(j) = "COMPLETE") => Untorn(d)

\* The comments of JobsModule and PipelineService.run: the manifest pinned by
\* create is the one the whole pipeline uses, "no second fetch".
BomFollowsUrls ==
    \A j \in Jobs :
        run[j].bom # None => run[j].bom.manifest = store[j].manifest

-----------------------------------------------------------------------------
(***************************************************************************)
(* The inductive invariant behind the safety properties.                   *)
(***************************************************************************)
Created == Live \cup {"ended"}

\* The record of a job, against where its task stands.
RecordOK(j) ==
    /\ task[j] \in Created <=> store[j] # None
    /\ task[j] \in Live => store[j].status = "RUNNING"
    /\ task[j] = "ended" => store[j].status # "RUNNING"
    /\ task[j] # "unused" => order[j] # None

\* How far a run is: what it has generated, and what it has uploaded.
RunOK(j) ==
    /\ task[j] \in {"bom", "enrich", "upload", "summary"} =>
           run[j].dtm = store[j].manifest
    /\ task[j] \in {"enrich", "upload", "summary"} => run[j].bom # None
    /\ task[j] \notin {"upload", "summary"} => run[j].next = 1
    /\ task[j] = "upload" =>
           /\ run[j].next \in Artifacts
           /\ \A k \in 1 .. run[j].next - 1 : object[Site(j)][k] # None
    /\ task[j] = "summary" \/ Get(j) = "COMPLETE" => Delivered(Site(j))

\* The order platform-api waits for, or has seen COMPLETE.
ClientOK(d) ==
    LET j == client[d].job IN
    /\ client[d].phase \in Awaiting \cup {"done"} =>
           j \in Jobs /\ task[j] # "unused" /\ Site(j) = d
    /\ client[d].phase = "polling" => task[j] \in Created \cup {"lost"}
    /\ client[d].phase = "done" => Delivered(d)

IInv ==
    /\ TypeOK
    /\ \A j \in Jobs : RecordOK(j) /\ RunOK(j)
    /\ \A d \in Deployments : ClientOK(d)

-----------------------------------------------------------------------------
(***************************************************************************)
(* The promise to platform-api, and how this specification implements it.  *)
(***************************************************************************)
Accepted == Live \cup {"ended", "lost"}

StatusOf(j) ==
    IF Get(j) = "RUNNING" THEN "running"
    ELSE IF Get(j) = "COMPLETE" THEN "complete"
    ELSE IF Get(j) = "FAILED" THEN "failed"
    ELSE IF task[j] = "lost" THEN "lost" ELSE "none"

SiteOf(j) == IF task[j] \in Accepted THEN Site(j) ELSE None

statusBar == [j \in Jobs |-> StatusOf(j)]
siteBar == [j \in Jobs |-> SiteOf(j)]
deliveredBar == {d \in Deployments : Delivered(d)}

Protocol == INSTANCE JobProtocol WITH
    NoSite <- None, status <- statusBar, site <- siteBar, delivered <- deliveredBar

\* Every behaviour, restarts, failures and overlapping runs included, is one
\* JobProtocol allows: a job settles once, COMPLETE only over a whole
\* package, and (under Fairness) it settles unless a restart takes it.
ImplementsProtocol == Protocol!Spec
=============================================================================
