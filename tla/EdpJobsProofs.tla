--------------------------- MODULE EdpJobsProofs ---------------------------
(***************************************************************************)
(* Theorems about EdpJobs, for every number of jobs, payloads, sites,      *)
(* releases, artifact rows and worker threads.  The argument is the        *)
(* inductive invariant IInv: what a record says follows from where its     *)
(* task stands (RecordOK), an upload has filled exactly the rows before    *)
(* `next` (RunOK), and platform-api only waits for a job of its own site   *)
(* (ClientOK).                                                             *)
(***************************************************************************)
EXTENDS EdpJobs, TLAPS

USE ConstantsAssumption, NoneAssumption
USE DEF Created, Live, Working, Awaiting

-----------------------------------------------------------------------------
(***************************************************************************)
(* What a step leaves true of whatever it does not touch.                  *)
(***************************************************************************)
\* No step of the specification removes an object from S3.
KeepsObjects ==
    \A d \in Deployments, k \in Artifacts :
        object[d][k] # None => object'[d][k] # None

SameJob(j) ==
    /\ task'[j] = task[j]
    /\ store'[j] = store[j]
    /\ order'[j] = order[j]
    /\ run'[j] = run[j]

\* A step may move tasks, but not back to before their POST, nor an accepted
\* job to anywhere but lost.
KeepsTasks ==
    \A j \in Jobs :
        /\ task[j] # "unused" => task'[j] # "unused" /\ order'[j] = order[j]
        /\ task[j] \in Created \cup {"lost"} => task'[j] \in Created \cup {"lost"}

\* The site of a job that was posted is a deployment.
LEMMA SiteType ==
  ASSUME NEW j \in Jobs, TypeOK, RecordOK(j), task[j] # "unused"
  PROVE  Site(j) \in Deployments /\ order[j] \in Payloads
BY DEF TypeOK, RecordOK, Site

\* A package stays whole while objects are only added or overwritten.
LEMMA DeliveredFrame ==
  ASSUME NEW d \in Deployments, Delivered(d), KeepsObjects
  PROVE  Delivered(d)'
BY DEF Delivered, KeepsObjects

\* A job a step does not touch keeps its part of the invariant.
LEMMA JobFrame ==
  ASSUME NEW j \in Jobs, TypeOK, RecordOK(j), RunOK(j), SameJob(j), KeepsObjects
  PROVE  RecordOK(j)' /\ RunOK(j)'
<1>1. RecordOK(j)'
  BY DEF RecordOK, SameJob
<1>2. CASE task[j] = "unused"
  BY <1>2 DEF RecordOK, RunOK, SameJob, Get
<1>3. CASE task[j] # "unused"
  <2>1. Site(j) \in Deployments /\ Site(j)' = Site(j)
    BY <1>3, SiteType DEF SameJob, Site
  <2>2. Delivered(Site(j)) => Delivered(Site(j))'
    BY <2>1, DeliveredFrame DEF Delivered
  <2>3. Get(j)' = Get(j)
    BY DEF SameJob, Get
  <2>4. task[j] = "upload" =>
          \A k \in 1 .. run[j].next - 1 : object'[Site(j)][k] # None
    BY <2>1 DEF RunOK, KeepsObjects, Artifacts
  <2>5. (task[j] = "upload" =>
           /\ run[j].next \in Artifacts
           /\ \A k \in 1 .. run[j].next - 1 : object[Site(j)][k] # None)'
    BY <2>1, <2>4 DEF RunOK, SameJob
  <2>6. (task[j] = "summary" \/ Get(j) = "COMPLETE" => Delivered(Site(j)))'
    BY <2>2, <2>3 DEF RunOK, SameJob
  <2> QED
    BY <1>1, <2>5, <2>6 DEF RunOK, SameJob
<1> QED
  BY <1>1, <1>2, <1>3

\* So does platform-api's view of a site it leaves alone.
LEMMA ClientFrame ==
  ASSUME NEW d \in Deployments, TypeOK, ClientOK(d),
         client'[d] = client[d], KeepsTasks, KeepsObjects
  PROVE  ClientOK(d)'
<1>1. Delivered(d) => Delivered(d)'
  BY DeliveredFrame
<1> QED
  BY <1>1 DEF ClientOK, KeepsTasks, Site

-----------------------------------------------------------------------------
(***************************************************************************)
(* IInv holds at the start and is kept by every action.                    *)
(***************************************************************************)
\* Nothing runs and nothing is stored when the process first starts.
LEMMA InitInv == Init => IInv
<1> SUFFICES ASSUME Init PROVE IInv
  OBVIOUS
<1>1. TypeOK
  BY DEF Init, TypeOK, TaskState, RunState, NoRun, Phase, Idle, Artifacts
<1>2. ASSUME NEW j \in Jobs PROVE RecordOK(j) /\ RunOK(j)
  BY <1>2 DEF Init, RecordOK, RunOK, NoRun, Get
<1>3. ASSUME NEW d \in Deployments PROVE ClientOK(d)
  BY <1>3 DEF Init, ClientOK, Idle
<1> QED
  BY <1>1, <1>2, <1>3 DEF IInv

\* A payload is posted under an id that nothing refers to yet.
LEMMA SubmitInv ==
  ASSUME NEW p \in Payloads, NEW j \in Jobs, IInv, Submit(p, j)
  PROVE  IInv'
<1> USE DEF Submit, Goto
<1>1. TypeOK'
  BY DEF IInv, TypeOK, TaskState, Phase
<1>2. KeepsObjects /\ KeepsTasks
  BY DEF IInv, TypeOK, KeepsObjects, KeepsTasks
<1>3. ASSUME NEW i \in Jobs PROVE RecordOK(i)' /\ RunOK(i)'
  <2>1. TypeOK /\ RecordOK(i) /\ RunOK(i)
    BY DEF IInv
  <2>2. CASE i = j
    BY <2>1, <2>2 DEF TypeOK, RecordOK, RunOK, Get
  <2>3. CASE i # j
    BY <1>2, <2>1, <2>3, JobFrame DEF TypeOK, SameJob
  <2> QED
    BY <2>2, <2>3
<1>4. ASSUME NEW d \in Deployments PROVE ClientOK(d)'
  <2>1. TypeOK /\ ClientOK(d)
    BY DEF IInv
  <2>2. CASE d = DeploymentOf[p]
    BY <2>1, <2>2 DEF TypeOK, ClientOK, Site
  <2>3. CASE d # DeploymentOf[p]
    BY <1>2, <2>1, <2>3, ClientFrame DEF TypeOK
  <2> QED
    BY <2>2, <2>3
<1> QED
  BY <1>1, <1>3, <1>4 DEF IInv

\* Giving up forgets the order.
LEMMA GiveUpInv ==
  ASSUME NEW d \in Deployments, IInv, GiveUp(d)
  PROVE  IInv'
<1> USE DEF GiveUp
<1>1. TypeOK'
  BY DEF IInv, TypeOK, Phase, Idle
<1>2. KeepsObjects /\ KeepsTasks
  BY DEF IInv, TypeOK, KeepsObjects, KeepsTasks
<1>3. ASSUME NEW i \in Jobs PROVE RecordOK(i)' /\ RunOK(i)'
  BY <1>2, JobFrame DEF IInv, SameJob
<1>4. ASSUME NEW e \in Deployments PROVE ClientOK(e)'
  <2>1. TypeOK /\ ClientOK(e)
    BY DEF IInv
  <2>2. CASE e = d
    BY <2>1, <2>2 DEF TypeOK, ClientOK, Idle
  <2>3. CASE e # d
    BY <1>2, <2>1, <2>3, ClientFrame DEF TypeOK
  <2> QED
    BY <2>2, <2>3
<1> QED
  BY <1>1, <1>3, <1>4 DEF IInv

\* So does a closed connection.
LEMMA ConnectionResetInv ==
  ASSUME NEW d \in Deployments, IInv, ConnectionReset(d)
  PROVE  IInv'
<1> USE DEF ConnectionReset
<1>1. TypeOK'
  BY DEF IInv, TypeOK, Phase, Idle
<1>2. KeepsObjects /\ KeepsTasks
  BY DEF IInv, TypeOK, KeepsObjects, KeepsTasks
<1>3. ASSUME NEW i \in Jobs PROVE RecordOK(i)' /\ RunOK(i)'
  BY <1>2, JobFrame DEF IInv, SameJob
<1>4. ASSUME NEW e \in Deployments PROVE ClientOK(e)'
  <2>1. TypeOK /\ ClientOK(e)
    BY DEF IInv
  <2>2. CASE e = d
    BY <2>1, <2>2 DEF TypeOK, ClientOK, Idle
  <2>3. CASE e # d
    BY <1>2, <2>1, <2>3, ClientFrame DEF TypeOK
  <2> QED
    BY <2>2, <2>3
<1> QED
  BY <1>1, <1>3, <1>4 DEF IInv

\* A poll that sees COMPLETE sees it over a whole package: RunOK of that job.
LEMMA PollInv ==
  ASSUME NEW d \in Deployments, IInv, Poll(d)
  PROVE  IInv'
<1> USE DEF Poll
<1>1. TypeOK'
  <2>1. TypeOK /\ client[d] \in [phase: Phase, job: Jobs \cup {None}]
    BY DEF IInv, TypeOK
  <2>2. client'[d] \in [phase: Phase, job: Jobs \cup {None}]
    BY <2>1 DEF TypeOK, Phase, Idle
  <2> QED
    BY <2>1, <2>2 DEF TypeOK
<1>2. KeepsObjects /\ KeepsTasks
  BY DEF IInv, TypeOK, KeepsObjects, KeepsTasks
<1>3. ASSUME NEW i \in Jobs PROVE RecordOK(i)' /\ RunOK(i)'
  BY <1>2, JobFrame DEF IInv, SameJob
<1>4. ASSUME NEW e \in Deployments PROVE ClientOK(e)'
  <2>1. TypeOK /\ ClientOK(e)
    BY DEF IInv
  <2>2. CASE e = d
    <3> DEFINE j == client[d].job
    <3>1. j \in Jobs /\ Site(j) = d /\ RunOK(j) /\ task[j] # "unused"
      BY <2>1, <2>2 DEF IInv, ClientOK
    <3>2. Get(j) = "COMPLETE" => Delivered(d)
      BY <3>1 DEF RunOK
    <3>3. Delivered(d) => Delivered(d)'
      BY <1>2, DeliveredFrame
    <3> QED
      BY <2>1, <2>2, <3>1, <3>2, <3>3 DEF TypeOK, ClientOK, Idle, Site
  <2>3. CASE e # d
    BY <1>2, <2>1, <2>3, ClientFrame DEF TypeOK
  <2> QED
    BY <2>2, <2>3
<1> QED
  BY <1>1, <1>3, <1>4 DEF IInv

-----------------------------------------------------------------------------
(***************************************************************************)
(* The steps of a job.                                                     *)
(***************************************************************************)
\* What is known of a job that has a record.
LEMMA RecordType ==
  ASSUME NEW j \in Jobs, TypeOK, RecordOK(j), task[j] \in Created
  PROVE  /\ store[j] \in JobRecord /\ store[j] # None
         /\ store[j].status \in {"RUNNING", "COMPLETE", "FAILED"}
         /\ store[j].manifest \in Manifests
<1>1. store[j] \in JobRecord \cup {None} /\ store[j] # None
  BY DEF TypeOK, RecordOK
<1> QED
  BY <1>1 DEF JobRecord

\* The locals of a run.
LEMMA RunType ==
  ASSUME NEW j \in Jobs, TypeOK
  PROVE  /\ run[j] \in RunState
         /\ run[j].dtm \in Manifests \cup {None}
         /\ run[j].bom \in Bom \cup {None}
         /\ run[j].next \in 1 .. NumArtifacts + 1
BY DEF TypeOK, RunState

\* The rows a run uploads are bytes.
LEMMA BytesType ==
  ASSUME NEW k \in Artifacts, NEW r \in RunState
  PROVE  ArtifactBytes(k, r) \in Body /\ ArtifactBytes(k, r) # None
<1>1. r.dtm \in Manifests \cup {None} /\ r.bom \in Bom \cup {None}
  BY DEF RunState
<1>2. ArtifactBytes(k, r) \in Body
  BY <1>1 DEF ArtifactBytes, Body
<1> QED
  BY <1>2

\* The status a run leaves behind is put over a record that is there.
LEMMA SetStatusType ==
  ASSUME NEW j \in Jobs, NEW s \in {"RUNNING", "COMPLETE", "FAILED"},
         TypeOK, RecordOK(j), task[j] \in Created, SetStatus(j, s)
  PROVE  /\ store' \in [Jobs -> JobRecord \cup {None}]
         /\ store'[j] # None /\ store'[j].status = s
         /\ \A i \in Jobs : i # j => store'[i] = store[i]
<1>1. store[j] \in JobRecord
  BY RecordType
<1>2. [store[j] EXCEPT !.status = s] \in JobRecord
  BY <1>1 DEF JobRecord
<1>3. store'[j] = [store[j] EXCEPT !.status = s]
  BY DEF SetStatus, TypeOK
<1>4. store'[j].status = s
  BY <1>1, <1>3 DEF JobRecord
<1>5. store'[j] # None
  BY <1>2, <1>3
<1> QED
  BY <1>2, <1>4, <1>5 DEF SetStatus, TypeOK

\* Storing a BOM leaves the other locals as they are.
LEMMA SetBom ==
  ASSUME NEW r \in RunState, NEW b \in Bom
  PROVE  /\ [r EXCEPT !.bom = b] \in RunState
         /\ [r EXCEPT !.bom = b].dtm = r.dtm
         /\ [r EXCEPT !.bom = b].bom = b
         /\ [r EXCEPT !.bom = b].next = r.next
BY DEF RunState

\* A job step that leaves platform-api alone.
LEMMA JobStep ==
  ASSUME NEW j \in Jobs, IInv, TypeOK', KeepsObjects, KeepsTasks,
         \A i \in Jobs : i # j => SameJob(i),
         RecordOK(j)', RunOK(j)', UNCHANGED client
  PROVE  IInv'
<1>1. ASSUME NEW i \in Jobs, i # j PROVE RecordOK(i)' /\ RunOK(i)'
  BY <1>1, JobFrame DEF IInv
<1>2. ASSUME NEW d \in Deployments PROVE ClientOK(d)'
  BY <1>2, ClientFrame DEF IInv
<1> QED
  BY <1>1, <1>2 DEF IInv

\* The record is stored before the task moves on.
LEMMA CreateInv ==
  ASSUME NEW j \in Jobs, IInv, Create(j)
  PROVE  IInv'
<1> USE DEF Create, Goto
<1>1. TypeOK /\ RecordOK(j) /\ RunOK(j)
  BY DEF IInv
<1>2. TypeOK'
  BY <1>1 DEF TypeOK, TaskState, JobRecord
<1>3. KeepsObjects /\ KeepsTasks /\ \A i \in Jobs : i # j => SameJob(i)
  BY <1>1 DEF TypeOK, KeepsObjects, KeepsTasks, SameJob
<1>4. RecordOK(j)' /\ RunOK(j)'
  <2>1. store'[j] \in JobRecord /\ store'[j].status = "RUNNING"
    BY <1>1 DEF TypeOK, JobRecord
  <2>2. task'[j] = "responding" /\ Get(j)' = "RUNNING" /\ order'[j] # None
    BY <1>1, <2>1 DEF TypeOK, Get
  <2>3. run'[j] = run[j]
    OBVIOUS
  <2> QED
    BY <1>1, <2>1, <2>2, <2>3 DEF RecordOK, RunOK
<1> QED
  BY <1>2, <1>3, <1>4, JobStep

\* Only a job with a record is started, and every queued job has one.
LEMMA StartInv ==
  ASSUME NEW j \in Jobs, IInv, Start(j)
  PROVE  IInv'
<1> USE DEF Start, Goto
<1>1. TypeOK /\ RecordOK(j) /\ RunOK(j)
  BY DEF IInv
<1>2. TypeOK'
  BY <1>1 DEF TypeOK, TaskState
<1>3. KeepsObjects /\ KeepsTasks /\ \A i \in Jobs : i # j => SameJob(i)
  BY <1>1 DEF TypeOK, KeepsObjects, KeepsTasks, SameJob
<1>4. RecordOK(j)' /\ RunOK(j)'
  <2>1. task'[j] = "dtm" /\ store'[j] = store[j] /\ Get(j)' = "RUNNING"
    BY <1>1 DEF TypeOK, RecordOK, Get
  <2> QED
    BY <1>1, <2>1 DEF RecordOK, RunOK
<1> QED
  BY <1>2, <1>3, <1>4, JobStep

\* The DTM is of the release in the record.
LEMMA GenerateDtmInv ==
  ASSUME NEW j \in Jobs, IInv, GenerateDtm(j)
  PROVE  IInv'
<1> USE DEF GenerateDtm, Goto
<1>1. TypeOK /\ RecordOK(j) /\ RunOK(j)
  BY DEF IInv
<1>2. TypeOK'
  <2>1. [run[j] EXCEPT !.dtm = store[j].manifest] \in RunState
    BY <1>1, RecordType, RunType DEF RunState
  <2> QED
    BY <1>1, <2>1 DEF TypeOK, TaskState
<1>3. KeepsObjects /\ KeepsTasks /\ \A i \in Jobs : i # j => SameJob(i)
  BY <1>1 DEF TypeOK, KeepsObjects, KeepsTasks, SameJob
<1>4. RecordOK(j)' /\ RunOK(j)'
  <2>1. task'[j] = "bom" /\ store'[j] = store[j] /\ Get(j)' = "RUNNING"
    BY <1>1 DEF TypeOK, RecordOK, Get
  <2>2. run'[j].dtm = store[j].manifest /\ run'[j].next = 1
    BY <1>1, RunType DEF TypeOK, RunState, RunOK
  <2> QED
    BY <1>1, <2>1, <2>2 DEF RecordOK, RunOK
<1> QED
  BY <1>2, <1>3, <1>4, JobStep

\* The BOM is of the release published now.
LEMMA GenerateBomInv ==
  ASSUME NEW j \in Jobs, IInv, GenerateBom(j)
  PROVE  IInv'
<1> USE DEF GenerateBom, Goto
<1>1. TypeOK /\ RecordOK(j) /\ RunOK(j)
  BY DEF IInv
<1> DEFINE b == [manifest |-> published, dtm |-> run[j].dtm, offers |-> None]
<1>0. b \in Bom /\ b # None
  <2>1. run[j].dtm = store[j].manifest /\ store[j].manifest \in Manifests
    BY <1>1, RecordType DEF RunOK
  <2>2. b \in Bom
    BY <1>1, <2>1 DEF TypeOK, Bom
  <2> QED
    BY <2>2
<1>2. TypeOK'
  <2>1. [run[j] EXCEPT !.bom = b] \in RunState
    BY <1>0, <1>1, RunType, SetBom
  <2> QED
    BY <1>1, <2>1 DEF TypeOK, TaskState
<1>3. KeepsObjects /\ KeepsTasks /\ \A i \in Jobs : i # j => SameJob(i)
  BY <1>1 DEF TypeOK, KeepsObjects, KeepsTasks, SameJob
<1>4. RecordOK(j)' /\ RunOK(j)'
  <2>1. task'[j] = "enrich" /\ store'[j] = store[j] /\ Get(j)' = "RUNNING"
    BY <1>1 DEF TypeOK, RecordOK, Get
  <2>2. run'[j] = [run[j] EXCEPT !.bom = b]
    BY <1>1 DEF TypeOK
  <2>3. /\ run'[j].dtm = store[j].manifest
        /\ run'[j].next = 1
        /\ run'[j].bom = b
    <3>1. run[j].dtm = store[j].manifest /\ run[j].next = 1
      BY <1>1 DEF RunOK
    <3>2. run[j] \in RunState /\ b \in Bom
      BY <1>0, <1>1, RunType
    <3> HIDE DEF b
    <3>3. /\ run'[j].dtm = run[j].dtm
          /\ run'[j].next = run[j].next
          /\ run'[j].bom = b
      BY <2>2, <3>2 DEF RunState
    <3> QED
      BY <3>1, <3>3
  <2> QED
    BY <1>0, <1>1, <2>1, <2>3 DEF RecordOK, RunOK
<1> QED
  BY <1>2, <1>3, <1>4, JobStep

\* Offers do not turn a BOM into none.
LEMMA AttachOffersInv ==
  ASSUME NEW j \in Jobs, IInv, AttachOffers(j)
  PROVE  IInv'
<1> USE DEF AttachOffers, Goto
<1>1. TypeOK /\ RecordOK(j) /\ RunOK(j)
  BY DEF IInv
<1>a. PICK o \in Offers : run' = [run EXCEPT ![j].bom.offers = o]
  OBVIOUS
<1> DEFINE b == [run[j].bom EXCEPT !.offers = o]
<1>0. b \in Bom /\ b # None
  <2>1. run[j].bom \in Bom
    BY <1>1, RunType DEF RunOK
  <2>2. b \in Bom
    BY <2>1 DEF Bom
  <2> QED
    BY <2>2
<1>2. TypeOK'
  <2>1. [run[j] EXCEPT !.bom = b] \in RunState
    BY <1>0, <1>1, RunType, SetBom
  <2> QED
    BY <1>1, <1>a, <2>1 DEF TypeOK, TaskState
<1>3. KeepsObjects /\ KeepsTasks /\ \A i \in Jobs : i # j => SameJob(i)
  BY <1>1, <1>a DEF TypeOK, KeepsObjects, KeepsTasks, SameJob
<1>4. RecordOK(j)' /\ RunOK(j)'
  <2>1. task'[j] = "upload" /\ store'[j] = store[j] /\ Get(j)' = "RUNNING"
    BY <1>1 DEF TypeOK, RecordOK, Get
  <2>2. run'[j] = [run[j] EXCEPT !.bom = b]
    BY <1>1, <1>a DEF TypeOK
  <2>3. /\ run'[j].dtm = store[j].manifest
        /\ run'[j].next = 1
        /\ run'[j].bom = b
    <3>1. run[j].dtm = store[j].manifest /\ run[j].next = 1
      BY <1>1 DEF RunOK
    <3>2. run[j] \in RunState /\ b \in Bom
      BY <1>0, <1>1, RunType
    <3> HIDE DEF b
    <3>3. /\ run'[j].dtm = run[j].dtm
          /\ run'[j].next = run[j].next
          /\ run'[j].bom = b
      BY <2>2, <3>2 DEF RunState
    <3> QED
      BY <3>1, <3>3
  <2>4. 1 \in Artifacts /\ 1 .. 1 - 1 = {}
    BY DEF Artifacts
  <2> QED
    BY <1>0, <1>1, <2>1, <2>3, <2>4 DEF RecordOK, RunOK
<1> QED
  BY <1>2, <1>3, <1>4, JobStep

\* Row `next` is filled; the rows before it still are.
LEMMA UploadInv ==
  ASSUME NEW j \in Jobs, IInv, Upload(j)
  PROVE  IInv'
<1> USE DEF Upload, Goto
<1>1. TypeOK /\ RecordOK(j) /\ RunOK(j)
  BY DEF IInv
<1> DEFINE k == run[j].next
<1>0. /\ k \in Artifacts /\ Site(j) \in Deployments
      /\ ArtifactBytes(k, run[j]) \in Body
      /\ ArtifactBytes(k, run[j]) # None
  <2>1. k \in Artifacts /\ Site(j) \in Deployments
    BY <1>1, SiteType DEF RunOK
  <2> QED
    BY <1>1, <2>1, RunType, BytesType
<1>2. TypeOK'
  <2>1. object' \in [Deployments -> [Artifacts -> Body \cup {None}]]
    BY <1>0, <1>1 DEF TypeOK
  <2>2. run' \in [Jobs -> RunState]
    <3>1. [run[j] EXCEPT !.next = run[j].next + 1] \in RunState
      BY <1>0, <1>1, RunType DEF RunState, Artifacts
    <3> QED
      BY <1>1, <3>1 DEF TypeOK
  <2> QED
    BY <1>1, <2>1, <2>2 DEF TypeOK, TaskState
<1>3. KeepsObjects /\ KeepsTasks /\ \A i \in Jobs : i # j => SameJob(i)
  <2>1. KeepsObjects
    BY <1>0, <1>1 DEF TypeOK, KeepsObjects
  <2> QED
    BY <1>1, <2>1 DEF TypeOK, KeepsTasks, SameJob
<1>4. RecordOK(j)' /\ RunOK(j)'
  <2>1. store'[j] = store[j] /\ Get(j)' = "RUNNING" /\ Site(j)' = Site(j)
    BY <1>1 DEF RecordOK, Get, Site
  <2>2. /\ run'[j].next = k + 1
        /\ run'[j].dtm = run[j].dtm
        /\ run'[j].bom = run[j].bom
    BY <1>1, RunType DEF TypeOK, RunState
  <2>3. \A l \in 1 .. k : object'[Site(j)][l] # None
    <3> SUFFICES ASSUME NEW l \in 1 .. k PROVE object'[Site(j)][l] # None
      OBVIOUS
    <3>1. CASE l = k
      BY <1>0, <1>1, <3>1 DEF TypeOK
    <3>2. CASE l # k
      <4>1. l \in 1 .. k - 1 /\ l \in Artifacts
        BY <1>0, <3>2 DEF Artifacts
      <4>2. object[Site(j)][l] # None
        BY <1>1, <4>1 DEF RunOK
      <4> QED
        BY <1>0, <1>3, <4>1, <4>2 DEF KeepsObjects
    <3> QED
      BY <3>1, <3>2
  <2>4. RecordOK(j)'
    BY <1>1, <2>1 DEF RecordOK, TypeOK
  <2>5. CASE k = NumArtifacts
    <3>1. Delivered(Site(j))'
      BY <2>1, <2>3, <2>5 DEF Delivered, Artifacts
    <3>2. task'[j] = "summary"
      BY <1>1, <2>5 DEF TypeOK
    <3> QED
      BY <1>1, <2>1, <2>2, <2>4, <3>1, <3>2 DEF RunOK
  <2>6. CASE k # NumArtifacts
    <3>1. task'[j] = "upload"
      BY <1>1, <2>6 DEF TypeOK
    <3>2. run'[j].next \in Artifacts /\ 1 .. run'[j].next - 1 = 1 .. k
      BY <1>0, <2>2, <2>6 DEF Artifacts
    <3>3. (task[j] = "upload" =>
             /\ run[j].next \in Artifacts
             /\ \A l \in 1 .. run[j].next - 1 : object[Site(j)][l] # None)'
      BY <2>1, <2>3, <3>2
    <3> QED
      BY <1>1, <2>1, <2>2, <2>4, <3>1, <3>3 DEF RunOK
  <2> QED
    BY <2>5, <2>6
<1> QED
  BY <1>2, <1>3, <1>4, JobStep

\* A run that ends COMPLETE has uploaded every row.
LEMMA FinishInv ==
  ASSUME NEW j \in Jobs, IInv, Finish(j)
  PROVE  IInv'
<1> USE DEF Finish, Goto
<1>1. TypeOK /\ RecordOK(j) /\ RunOK(j)
  BY DEF IInv
<1>2. TypeOK'
  <2>1. store' \in [Jobs -> JobRecord \cup {None}]
    BY <1>1, SetStatusType
  <2>2. NoRun \in RunState
    BY DEF NoRun, RunState
  <2> QED
    BY <1>1, <2>1, <2>2 DEF TypeOK, TaskState
<1>3. KeepsObjects /\ KeepsTasks /\ \A i \in Jobs : i # j => SameJob(i)
  <2>1. \A i \in Jobs : i # j => store'[i] = store[i]
    BY <1>1, SetStatusType
  <2> QED
    BY <1>1, <2>1 DEF TypeOK, KeepsObjects, KeepsTasks, SameJob
<1>4. RecordOK(j)' /\ RunOK(j)'
  <2>1. store'[j] # None /\ store'[j].status = "COMPLETE"
    BY <1>1, SetStatusType
  <2>2. task'[j] = "ended" /\ run'[j].next = 1
    BY <1>1 DEF TypeOK, NoRun
  <2>3. Delivered(Site(j))'
    BY <1>1 DEF RunOK, Delivered, Site
  <2> QED
    BY <1>1, <2>1, <2>2, <2>3 DEF RecordOK, RunOK
<1> QED
  BY <1>2, <1>3, <1>4, JobStep

\* A run that ends FAILED promises nothing.
LEMMA FailInv ==
  ASSUME NEW j \in Jobs, IInv, Fail(j)
  PROVE  IInv'
<1> USE DEF Fail, Goto
<1>1. TypeOK /\ RecordOK(j) /\ RunOK(j)
  BY DEF IInv
<1>2. TypeOK'
  <2>1. store' \in [Jobs -> JobRecord \cup {None}]
    BY <1>1, SetStatusType
  <2>2. NoRun \in RunState
    BY DEF NoRun, RunState
  <2> QED
    BY <1>1, <2>1, <2>2 DEF TypeOK, TaskState
<1>3. KeepsObjects /\ KeepsTasks /\ \A i \in Jobs : i # j => SameJob(i)
  <2>1. \A i \in Jobs : i # j => store'[i] = store[i]
    BY <1>1, SetStatusType
  <2> QED
    BY <1>1, <2>1 DEF TypeOK, KeepsObjects, KeepsTasks, SameJob
<1>4. RecordOK(j)' /\ RunOK(j)'
  <2>1. store'[j] # None /\ store'[j].status = "FAILED"
    BY <1>1, SetStatusType
  <2>2. task'[j] = "ended" /\ run'[j].next = 1 /\ Get(j)' = "FAILED"
    BY <1>1, <2>1 DEF TypeOK, NoRun, Get
  <2> QED
    BY <1>1, <2>1, <2>2 DEF RecordOK, RunOK
<1> QED
  BY <1>2, <1>3, <1>4, JobStep

\* Whoever waited for a POST is answered; an answer that moves platform-api
\* to polling is only given for a job that exists.
LEMMA AnswerStep ==
  ASSUME NEW j \in Jobs, NEW ph \in {"rejected", "failed", "polling"},
         IInv, KeepsObjects, KeepsTasks, Answer(j, ph),
         ph = "polling" => task'[j] \in Created
  PROVE  /\ client' \in [Deployments -> [phase: Phase, job: Jobs \cup {None}]]
         /\ \A d \in Deployments : ClientOK(d)'
<1>1. TypeOK
  BY DEF IInv
<1>2. client' \in [Deployments -> [phase: Phase, job: Jobs \cup {None}]]
  BY <1>1 DEF Answer, TypeOK, Phase
<1>3. ASSUME NEW d \in Deployments PROVE ClientOK(d)'
  <2>1. ClientOK(d)
    BY DEF IInv
  <2>2. CASE client[d] = [phase |-> "posting", job |-> j]
    <3>1. client'[d] = [phase |-> ph, job |-> j]
      BY <2>2 DEF Answer
    <3>2. task[j] # "unused" /\ Site(j) = d
      BY <2>1, <2>2 DEF ClientOK
    <3>3. task'[j] # "unused" /\ Site(j)' = d
      BY <3>2 DEF KeepsTasks, Site
    <3> QED
      BY <3>1, <3>3 DEF ClientOK
  <2>3. CASE client[d] # [phase |-> "posting", job |-> j]
    <3>1. client'[d] = client[d]
      BY <2>3 DEF Answer
    <3> QED
      BY <1>1, <2>1, <3>1, ClientFrame
  <2> QED
    BY <2>2, <2>3
<1> QED
  BY <1>2, <1>3

\* A payload that is turned down leaves no record.
LEMMA UnprocessableInv ==
  ASSUME NEW j \in Jobs, IInv, Unprocessable(j)
  PROVE  IInv'
<1> USE DEF Unprocessable, Goto
<1>1. TypeOK /\ RecordOK(j) /\ RunOK(j)
  BY DEF IInv
<1>2. KeepsObjects /\ KeepsTasks /\ \A i \in Jobs : i # j => SameJob(i)
  BY <1>1 DEF TypeOK, KeepsObjects, KeepsTasks, SameJob
<1>3. task'[j] = "unprocessable"
  BY <1>1 DEF TypeOK
<1>4. RecordOK(j)' /\ RunOK(j)'
  BY <1>1, <1>3 DEF RecordOK, RunOK, Get
<1>5. ASSUME NEW i \in Jobs, i # j PROVE RecordOK(i)' /\ RunOK(i)'
  BY <1>2, <1>5, JobFrame DEF IInv
<1>6. /\ client' \in [Deployments -> [phase: Phase, job: Jobs \cup {None}]]
      /\ \A d \in Deployments : ClientOK(d)'
  BY <1>2, <1>3, AnswerStep
<1>7. TypeOK'
  BY <1>1, <1>6 DEF TypeOK, TaskState
<1> QED
  BY <1>4, <1>5, <1>6, <1>7 DEF IInv

\* Nor does a POST that errs.
LEMMA ErroredInv ==
  ASSUME NEW j \in Jobs, IInv, Errored(j)
  PROVE  IInv'
<1> USE DEF Errored, Goto
<1>1. TypeOK /\ RecordOK(j) /\ RunOK(j)
  BY DEF IInv
<1>2. KeepsObjects /\ KeepsTasks /\ \A i \in Jobs : i # j => SameJob(i)
  BY <1>1 DEF TypeOK, KeepsObjects, KeepsTasks, SameJob
<1>3. task'[j] = "errored"
  BY <1>1 DEF TypeOK
<1>4. RecordOK(j)' /\ RunOK(j)'
  BY <1>1, <1>3 DEF RecordOK, RunOK, Get
<1>5. ASSUME NEW i \in Jobs, i # j PROVE RecordOK(i)' /\ RunOK(i)'
  BY <1>2, <1>5, JobFrame DEF IInv
<1>6. /\ client' \in [Deployments -> [phase: Phase, job: Jobs \cup {None}]]
      /\ \A d \in Deployments : ClientOK(d)'
  BY <1>2, <1>3, AnswerStep
<1>7. TypeOK'
  BY <1>1, <1>6 DEF TypeOK, TaskState
<1> QED
  BY <1>4, <1>5, <1>6, <1>7 DEF IInv

\* The 202 names a job that has its record.
LEMMA RespondInv ==
  ASSUME NEW j \in Jobs, IInv, Respond(j)
  PROVE  IInv'
<1> USE DEF Respond, Goto
<1>1. TypeOK /\ RecordOK(j) /\ RunOK(j)
  BY DEF IInv
<1>2. KeepsObjects /\ KeepsTasks /\ \A i \in Jobs : i # j => SameJob(i)
  BY <1>1 DEF TypeOK, KeepsObjects, KeepsTasks, SameJob
<1>3. task'[j] = "queued"
  BY <1>1 DEF TypeOK
<1>4. RecordOK(j)' /\ RunOK(j)'
  <2>1. Get(j)' = "RUNNING"
    BY <1>1 DEF RecordOK, Get
  <2> QED
    BY <1>1, <1>3, <2>1 DEF RecordOK, RunOK
<1>5. ASSUME NEW i \in Jobs, i # j PROVE RecordOK(i)' /\ RunOK(i)'
  BY <1>2, <1>5, JobFrame DEF IInv
<1>6. /\ client' \in [Deployments -> [phase: Phase, job: Jobs \cup {None}]]
      /\ \A d \in Deployments : ClientOK(d)'
  BY <1>2, <1>3, AnswerStep
<1>7. TypeOK'
  BY <1>1, <1>6 DEF TypeOK, TaskState
<1> QED
  BY <1>4, <1>5, <1>6, <1>7 DEF IInv

\* A new release changes no job and no package.
LEMMA PublishInv ==
  ASSUME IInv, Publish
  PROVE  IInv'
<1> USE DEF Publish
<1>1. TypeOK /\ TypeOK'
  BY DEF IInv, TypeOK
<1>2. KeepsObjects /\ KeepsTasks
  BY DEF KeepsObjects, KeepsTasks
<1>3. ASSUME NEW j \in Jobs PROVE RecordOK(j)' /\ RunOK(j)'
  BY <1>2, JobFrame DEF IInv, SameJob
<1>4. ASSUME NEW d \in Deployments PROVE ClientOK(d)'
  BY <1>2, ClientFrame DEF IInv
<1> QED
  BY <1>1, <1>3, <1>4 DEF IInv

\* A restart loses every record and every run, and no object.
LEMMA RestartInv ==
  ASSUME IInv, Restart
  PROVE  IInv'
<1> USE DEF Restart
<1>1. TypeOK
  BY DEF IInv
<1>2. NoRun \in RunState
  BY DEF NoRun, RunState
<1>3. TypeOK'
  BY <1>1, <1>2 DEF TypeOK, TaskState
<1>4. KeepsObjects /\ KeepsTasks
  BY <1>1 DEF TypeOK, KeepsObjects, KeepsTasks
<1>5. ASSUME NEW j \in Jobs PROVE RecordOK(j)' /\ RunOK(j)'
  <2>1. store'[j] = None /\ run'[j].next = 1 /\ Get(j)' = "404"
    BY DEF NoRun, Get
  <2>2. task'[j] \notin Created /\ (task'[j] # "unused" => task[j] # "unused")
    BY <1>1 DEF TypeOK, TaskState
  <2>3. RecordOK(j)
    BY DEF IInv
  <2> QED
    BY <2>1, <2>2, <2>3 DEF RecordOK, RunOK
<1>6. ASSUME NEW d \in Deployments PROVE ClientOK(d)'
  BY <1>4, ClientFrame DEF IInv
<1> QED
  BY <1>3, <1>5, <1>6 DEF IInv

-----------------------------------------------------------------------------
(***************************************************************************)
(* The theorems.                                                           *)
(***************************************************************************)
\* Every step keeps the inductive invariant.
LEMMA NextInv == IInv /\ [Next]_vars => IInv'
<1> SUFFICES ASSUME IInv, [Next]_vars PROVE IInv'
  OBVIOUS
<1>1. ASSUME NEW p \in Payloads, NEW j \in Jobs, Submit(p, j) PROVE IInv'
  BY <1>1, SubmitInv
<1>2. ASSUME NEW d \in Deployments, GiveUp(d) \/ ConnectionReset(d) \/ Poll(d)
      PROVE  IInv'
  BY <1>2, GiveUpInv, ConnectionResetInv, PollInv
<1>3. ASSUME NEW j \in Jobs, Request(j) PROVE IInv'
  BY <1>3, CreateInv, UnprocessableInv, ErroredInv, RespondInv DEF Request
<1>4. ASSUME NEW j \in Jobs, Execute(j) PROVE IInv'
  BY <1>4, StartInv, GenerateDtmInv, GenerateBomInv, AttachOffersInv,
     UploadInv, FinishInv, FailInv DEF Execute
<1>5. CASE Publish
  BY <1>5, PublishInv
<1>6. CASE Restart
  BY <1>6, RestartInv
<1>7. CASE UNCHANGED vars
  <2>1. TypeOK'
    BY <1>7 DEF IInv, TypeOK, vars
  <2>2. KeepsObjects /\ KeepsTasks
    BY <1>7 DEF vars, KeepsObjects, KeepsTasks
  <2>3. ASSUME NEW j \in Jobs PROVE RecordOK(j)' /\ RunOK(j)'
    BY <1>7, <2>2, JobFrame DEF IInv, SameJob, vars
  <2>4. ASSUME NEW d \in Deployments PROVE ClientOK(d)'
    BY <1>7, <2>2, ClientFrame DEF IInv, vars
  <2> QED
    BY <2>1, <2>3, <2>4 DEF IInv
<1> QED
  BY <1>1, <1>2, <1>3, <1>4, <1>5, <1>6, <1>7 DEF Next, Platform

\* IInv is an invariant of the specification.
THEOREM Invariance == Spec => []IInv
<1>1. Init => IInv
  BY InitInv
<1>2. IInv /\ [Next]_vars => IInv'
  BY NextInv
<1> QED
  BY <1>1, <1>2, PTL DEF Spec

\* Type correctness, for every instance.
THEOREM TypeCorrect == Spec => []TypeOK
<1>1. IInv => TypeOK
  BY DEF IInv
<1> QED
  BY <1>1, Invariance, PTL

\* A record says RUNNING exactly as long as a request or a worker thread is
\* at work on the job (JobsService.create and execute).
THEOREM RecordsFollowTasks == Spec => []RunningIffTask
<1>1. IInv => RunningIffTask
  <2> SUFFICES ASSUME IInv, NEW j \in Jobs
               PROVE  Get(j) = "RUNNING" <=> task[j] \in Live
    BY DEF RunningIffTask
  <2>1. RecordOK(j)
    BY DEF IInv
  <2> QED
    BY <2>1 DEF RecordOK, Get
<1> QED
  BY <1>1, Invariance, PTL

\* A job that platform-api was told of is unknown only after a restart
\* (JobsService.create stores the record before the 202 leaves).
THEOREM UnknownOnlyAfterRestart == Spec => []NotFoundMeansRestart
<1>1. IInv => NotFoundMeansRestart
  <2> SUFFICES ASSUME IInv, NEW d \in Deployments,
                      client[d].phase = "polling", Get(client[d].job) = "404"
               PROVE  task[client[d].job] = "lost"
    BY DEF NotFoundMeansRestart
  <2> DEFINE j == client[d].job
  <2>1. j \in Jobs /\ task[j] \in Created \cup {"lost"}
    BY DEF IInv, ClientOK
  <2>2. RecordOK(j)
    BY <2>1 DEF IInv
  <2>3. store[j] # None => Get(j) # "404"
    <3> SUFFICES ASSUME store[j] # None PROVE Get(j) # "404"
      OBVIOUS
    <3>1. TypeOK /\ task[j] \in Created
      BY <2>1, <2>2 DEF IInv, RecordOK
    <3>2. store[j].status \in {"RUNNING", "COMPLETE", "FAILED"}
      BY <2>1, <2>2, <3>1, RecordType
    <3> QED
      BY <3>2 DEF Get
  <2> QED
    BY <2>1, <2>2, <2>3 DEF RecordOK
<1> QED
  BY <1>1, Invariance, PTL

\* Once platform-api has seen COMPLETE, every generated URL of that site can
\* be fetched, now and after any later failure, overlap or restart
\* (PipelineService.run uploads before JobsService.execute stores COMPLETE).
THEOREM CompleteIsDelivered == Spec => []DoneMeansDelivered
<1>1. IInv => DoneMeansDelivered
  BY DEF IInv, ClientOK, DoneMeansDelivered
<1> QED
  BY <1>1, Invariance, PTL

-----------------------------------------------------------------------------
(***************************************************************************)
(* EdpJobs implements JobProtocol: under the mapping of statusBar, siteBar *)
(* and deliveredBar its initial states are the protocol's, and each of its *)
(* steps is a step of the protocol or leaves what platform-api is promised *)
(* alone.  The mapping reads records, tasks and S3; IInv ties the three    *)
(* together, and is what the steps below rest on.                          *)
(***************************************************************************)
barVars == <<statusBar, siteBar, deliveredBar>>

-----------------------------------------------------------------------------
(***************************************************************************)
(* What the mapping makes of a job, and of a step.                         *)
(***************************************************************************)
\* The status of a job, as where its task stands has it.
StatusFollows ==
    \A j \in Jobs :
        /\ task[j] \in Live => StatusOf(j) = "running"
        /\ task[j] \in Created =>
             StatusOf(j) = IF store[j].status = "RUNNING" THEN "running"
                           ELSE IF store[j].status = "COMPLETE" THEN "complete"
                           ELSE "failed"
        /\ task[j] = "lost" => StatusOf(j) = "lost"
        /\ task[j] \notin Accepted => StatusOf(j) = "none"

\* Records, tasks and the mapping go together.
LEMMA StatusFacts == IInv => StatusFollows
<1> SUFFICES ASSUME IInv, NEW j \in Jobs
             PROVE  /\ task[j] \in Live => StatusOf(j) = "running"
                    /\ task[j] \in Created =>
                         StatusOf(j) = IF store[j].status = "RUNNING" THEN "running"
                                       ELSE IF store[j].status = "COMPLETE" THEN "complete"
                                       ELSE "failed"
                    /\ task[j] = "lost" => StatusOf(j) = "lost"
                    /\ task[j] \notin Accepted => StatusOf(j) = "none"
  BY DEF StatusFollows
<1>0. TypeOK /\ RecordOK(j)
  BY DEF IInv
<1>1. CASE task[j] \in Created
  <2>1. store[j] # None /\ store[j].status \in {"RUNNING", "COMPLETE", "FAILED"}
    BY <1>0, <1>1, RecordType
  <2>2. task[j] # "lost"
    BY <1>1
  <2> QED
    BY <1>0, <1>1, <2>1, <2>2 DEF RecordOK, StatusOf, Get, Accepted
<1>2. CASE task[j] \notin Created
  BY <1>0, <1>2 DEF RecordOK, StatusOf, Get, Accepted
<1> QED
  BY <1>1, <1>2

\* They do so after a step, too.
LEMMA StatusFactsAfter == IInv' => StatusFollows'
BY StatusFacts, PTL

\* A step that moves no job and no package stutters.
LEMMA Stutters ==
  ASSUME \A j \in Jobs : StatusOf(j)' = StatusOf(j) /\ SiteOf(j)' = SiteOf(j),
         \A d \in Deployments : Delivered(d)' <=> Delivered(d)
  PROVE  UNCHANGED barVars
<1>1. statusBar' = statusBar /\ siteBar' = siteBar
  BY DEF statusBar, siteBar
<1>2. deliveredBar' = deliveredBar
  BY DEF deliveredBar
<1> QED
  BY <1>1, <1>2 DEF barVars

\* What a step leaves alone of a job, the mapping leaves alone.
LEMMA SameImage ==
  ASSUME NEW j \in Jobs, SameJob(j)
  PROVE  StatusOf(j)' = StatusOf(j) /\ SiteOf(j)' = SiteOf(j)
BY DEF SameJob, StatusOf, SiteOf, Site, Get

\* Packages are what S3 holds.
LEMMA SamePackages ==
  ASSUME UNCHANGED object
  PROVE  \A d \in Deployments : Delivered(d)' <=> Delivered(d)
BY DEF Delivered

\* A job that stays accepted, or stays not accepted, and whose record stays
\* what it was, looks the same to platform-api.
LEMMA QuietJob ==
  ASSUME NEW j \in Jobs, IInv, IInv',
         store'[j] = store[j],
         \/ /\ task[j] \in Created /\ task'[j] \in Created
            /\ order'[j] = order[j]
         \/ /\ task[j] \notin Accepted /\ task'[j] \notin Accepted
  PROVE  StatusOf(j)' = StatusOf(j) /\ SiteOf(j)' = SiteOf(j)
<1>1. TypeOK /\ TypeOK' /\ RecordOK(j) /\ RecordOK(j)'
  BY DEF IInv
<1>2. SiteOf(j)' = SiteOf(j)
  BY DEF SiteOf, Site, Accepted
<1>3. StatusOf(j)' = StatusOf(j)
  BY <1>1, RecordType DEF StatusOf, Get, RecordOK, Accepted
<1> QED
  BY <1>2, <1>3

-----------------------------------------------------------------------------
(***************************************************************************)
(* The steps that stutter.                                                 *)
(***************************************************************************)
\* platform-api and the publisher do not touch what is promised, but for a
\* POST, which is not accepted yet.
LEMMA PlatformStep ==
  ASSUME IInv, IInv', Platform \/ Publish \/ UNCHANGED vars
  PROVE  UNCHANGED barVars
<1>1. UNCHANGED object
  BY DEF Platform, Submit, GiveUp, ConnectionReset, Poll, Publish, vars
<1>2. ASSUME NEW p \in Payloads, NEW j \in Jobs, Submit(p, j), NEW i \in Jobs
      PROVE  StatusOf(i)' = StatusOf(i) /\ SiteOf(i)' = SiteOf(i)
  <2>1. CASE i = j
    <3>1. task[i] \notin Accepted /\ task'[i] \notin Accepted /\ store'[i] = store[i]
      BY <1>2, <2>1 DEF Submit, Goto, Accepted, IInv, TypeOK
    <3> QED
      BY <3>1, QuietJob
  <2>2. CASE i # j
    BY <1>2, <2>2, SameImage DEF Submit, Goto, SameJob, IInv, TypeOK
  <2> QED
    BY <2>1, <2>2
<1>3. ASSUME UNCHANGED <<store, task, order, run>>, NEW i \in Jobs
      PROVE  StatusOf(i)' = StatusOf(i) /\ SiteOf(i)' = SiteOf(i)
  BY <1>3, SameImage DEF SameJob
<1>4. \/ \E p \in Payloads, j \in Jobs : Submit(p, j)
      \/ UNCHANGED <<store, task, order, run>>
  BY DEF Platform, GiveUp, ConnectionReset, Poll, Publish, vars
<1>5. \A i \in Jobs : StatusOf(i)' = StatusOf(i) /\ SiteOf(i)' = SiteOf(i)
  BY <1>2, <1>3, <1>4
<1> QED
  BY <1>1, <1>5, SamePackages, Stutters

\* A refused POST, the 202 and the stages before the uploads change neither
\* a record nor a package.
LEMMA QuietStep ==
  ASSUME NEW j \in Jobs, IInv, IInv',
         \/ Unprocessable(j) \/ Errored(j) \/ Respond(j)
         \/ Start(j) \/ GenerateDtm(j) \/ GenerateBom(j) \/ AttachOffers(j)
  PROVE  UNCHANGED barVars
<1> USE DEF Unprocessable, Errored, Respond, Start, GenerateDtm, GenerateBom,
            AttachOffers, Goto
<1>1. TypeOK /\ RecordOK(j) /\ task[j] \in TaskState
  BY DEF IInv, TypeOK
<1>2. UNCHANGED <<object, store, order>> /\ task'[j] \in TaskState
      /\ \A i \in Jobs : i # j => task'[i] = task[i]
  BY <1>1 DEF TypeOK, TaskState
<1>3. ASSUME NEW i \in Jobs
      PROVE  StatusOf(i)' = StatusOf(i) /\ SiteOf(i)' = SiteOf(i)
  <2>1. CASE i = j
    <3>1. \/ task[j] \in Created /\ task'[j] \in Created
          \/ task[j] \notin Accepted /\ task'[j] \notin Accepted
      BY <1>1 DEF TypeOK, Accepted
    <3> QED
      BY <1>2, <2>1, <3>1, QuietJob
  <2>2. CASE i # j
    BY <1>2, <2>2 DEF StatusOf, SiteOf, Site, Get
  <2> QED
    BY <2>1, <2>2
<1> QED
  BY <1>2, <1>3, SamePackages, Stutters

-----------------------------------------------------------------------------
(***************************************************************************)
(* The steps of the protocol.                                              *)
(***************************************************************************)
\* The images of a step that moves one job and leaves its order alone.
LEMMA OneJobMoves ==
  ASSUME NEW j \in Jobs, NEW s, NEW d, StatusOf(j)' = s, SiteOf(j)' = d,
         \A i \in Jobs : i # j => StatusOf(i)' = StatusOf(i) /\ SiteOf(i)' = SiteOf(i)
  PROVE  /\ statusBar' = [statusBar EXCEPT ![j] = s]
         /\ siteBar' = [siteBar EXCEPT ![j] = d]
         /\ SiteOf(j) = d => siteBar' = siteBar
BY DEF statusBar, siteBar

\* JobsService.create makes a job: Accept.
LEMMA CreateAccepts ==
  ASSUME NEW j \in Jobs, IInv, IInv', Create(j)
  PROVE  Protocol!Accept(j, Site(j)) /\ Site(j) \in Deployments
<1> USE DEF Create, Goto
<1>1. TypeOK /\ TypeOK' /\ RecordOK(j) /\ RecordOK(j)'
  BY DEF IInv
<1>2. task[j] = "posted" /\ task'[j] = "responding" /\ UNCHANGED <<object, order>>
  BY <1>1 DEF TypeOK
<1>3. StatusOf(j) = "none" /\ StatusOf(j)' = "running" /\ SiteOf(j)' = Site(j)
  BY <1>2, StatusFacts, StatusFactsAfter DEF StatusFollows, Accepted, SiteOf, Site
<1>4. ASSUME NEW i \in Jobs, i # j
      PROVE  StatusOf(i)' = StatusOf(i) /\ SiteOf(i)' = SiteOf(i)
  BY <1>1, <1>4, SameImage DEF TypeOK, SameJob
<1>5. statusBar[j] = "none" /\ deliveredBar' = deliveredBar
  BY <1>2, <1>3, SamePackages DEF statusBar, deliveredBar
<1>6. /\ statusBar' = [statusBar EXCEPT ![j] = "running"]
      /\ siteBar' = [siteBar EXCEPT ![j] = Site(j)]
  BY <1>3, <1>4, OneJobMoves
<1>7. Site(j) \in Deployments
  BY <1>1, <1>2, SiteType
<1> QED
  BY <1>5, <1>6, <1>7 DEF Protocol!Accept

\* The upload of a row is Deliver when it was the last one missing.
LEMMA UploadDelivers ==
  ASSUME NEW j \in Jobs, IInv, IInv', Upload(j)
  PROVE  Protocol!Deliver(Site(j)) \/ UNCHANGED barVars
<1> DEFINE k == run[j].next
<1>1. TypeOK /\ TypeOK' /\ RecordOK(j) /\ RunOK(j) /\ task[j] = "upload"
  BY DEF IInv, Upload
<1>a. PICK e \in Deployments : e = Site(j)
  BY <1>1, SiteType
<1>2. k \in Artifacts /\ run[j] \in RunState
  BY <1>1, RunType DEF RunOK
<1>3. ArtifactBytes(k, run[j]) # None /\ object[e] \in [Artifacts -> Body \cup {None}]
  BY <1>1, <1>2, BytesType DEF TypeOK
<1>4. object' = [object EXCEPT ![e][k] = ArtifactBytes(k, run[j])]
      /\ UNCHANGED <<store, order>> /\ task'[j] \in Created
      /\ \A i \in Jobs : i # j => task'[i] = task[i]
  BY <1>1, <1>a DEF Upload, Goto, TypeOK
<1>5. ASSUME NEW i \in Jobs
      PROVE  StatusOf(i)' = StatusOf(i) /\ SiteOf(i)' = SiteOf(i)
  <2>1. CASE i = j
    BY <1>1, <1>4, <2>1, QuietJob
  <2>2. CASE i # j
    BY <1>4, <2>2 DEF StatusOf, SiteOf, Site, Get
  <2> QED
    BY <2>1, <2>2
<1>6. statusBar' = statusBar /\ siteBar' = siteBar
  BY <1>5 DEF statusBar, siteBar
<1>7. ASSUME NEW d \in Deployments, d # e PROVE Delivered(d)' <=> Delivered(d)
  BY <1>1, <1>2, <1>4, <1>7 DEF Delivered, TypeOK
<1>8. Delivered(e) => Delivered(e)'
  <2>1. KeepsObjects
    BY <1>1, <1>2, <1>3, <1>4 DEF TypeOK, KeepsObjects
  <2> QED
    BY <1>2, <2>1, DeliveredFrame
<1>9. CASE Delivered(e)' /\ ~Delivered(e)
  <2>1. deliveredBar' = deliveredBar \cup {e}
    BY <1>2, <1>7, <1>9 DEF deliveredBar
  <2>2. statusBar[j] = "running" /\ siteBar[j] = e
    BY <1>1, <1>a, StatusFacts DEF StatusFollows, statusBar, siteBar, SiteOf, Accepted
  <2> QED
    BY <1>a, <1>6, <2>1, <2>2 DEF Protocol!Deliver
<1>10. CASE Delivered(e)' => Delivered(e)
  BY <1>8, <1>5, <1>7, <1>10, Stutters
<1> QED
  BY <1>8, <1>9, <1>10

\* COMPLETE is stored over a whole package, FAILED over any.
LEMMA SettleStep ==
  ASSUME NEW j \in Jobs, IInv, IInv', Finish(j) \/ Fail(j)
  PROVE  Protocol!Complete(j) \/ Protocol!Fail(j)
<1>1. TypeOK /\ TypeOK' /\ RecordOK(j) /\ RecordOK(j)' /\ RunOK(j) /\ task[j] \in Working
  BY DEF IInv, Finish, Fail
<1>2. task'[j] = "ended" /\ UNCHANGED <<object, order>>
  BY <1>1 DEF Finish, Fail, Goto, TypeOK
<1>3. ASSUME NEW i \in Jobs, i # j
      PROVE  StatusOf(i)' = StatusOf(i) /\ SiteOf(i)' = SiteOf(i)
  BY <1>1, <1>3, SameImage DEF Finish, Fail, SetStatus, Goto, TypeOK, SameJob
<1>4. StatusOf(j) = "running" /\ SiteOf(j) = Site(j) /\ SiteOf(j)' = Site(j)
  BY <1>1, <1>2, StatusFacts DEF StatusFollows, SiteOf, Site, Accepted
<1>5. statusBar[j] = "running" /\ siteBar[j] = Site(j) /\ deliveredBar' = deliveredBar
  BY <1>2, <1>4, SamePackages DEF statusBar, siteBar, deliveredBar
<1>6. CASE Finish(j)
  <2>1. store'[j].status = "COMPLETE"
    BY <1>1, <1>6, SetStatusType DEF Finish
  <2>2. StatusOf(j)' = "complete"
    BY <1>2, <2>1, StatusFactsAfter DEF StatusFollows
  <2>3. Site(j) \in deliveredBar
    BY <1>1, <1>6, SiteType DEF Finish, RunOK, deliveredBar
  <2>4. statusBar' = [statusBar EXCEPT ![j] = "complete"] /\ siteBar' = siteBar
    BY <1>3, <1>4, <2>2, OneJobMoves
  <2> QED
    BY <1>5, <2>3, <2>4 DEF Protocol!Complete
<1>7. CASE Fail(j)
  <2>1. store'[j].status = "FAILED"
    BY <1>1, <1>7, SetStatusType DEF Fail
  <2>2. StatusOf(j)' = "failed"
    BY <1>2, <2>1, StatusFactsAfter DEF StatusFollows
  <2>3. statusBar' = [statusBar EXCEPT ![j] = "failed"] /\ siteBar' = siteBar
    BY <1>3, <1>4, <2>2, OneJobMoves
  <2> QED
    BY <1>5, <2>3 DEF Protocol!Fail
<1> QED
  BY <1>6, <1>7

\* A restart forgets every job at once, and no package.
LEMMA RestartForgets ==
  ASSUME IInv, IInv', Restart
  PROVE  Protocol!Forget
<1>1. ASSUME NEW j \in Jobs
      PROVE  /\ StatusOf(j)' = IF StatusOf(j) = "none" THEN "none" ELSE "lost"
             /\ SiteOf(j)' = SiteOf(j)
  <2>1. TypeOK /\ TypeOK' /\ RecordOK(j) /\ RecordOK(j)' /\ order'[j] = order[j]
    BY DEF IInv, Restart
  <2>2. CASE task[j] \in Accepted
    <3>1. task'[j] = "lost"
      BY <2>2 DEF Restart, Accepted
    <3>2. StatusOf(j)' = "lost" /\ SiteOf(j)' = SiteOf(j)
      BY <2>1, <2>2, <3>1, StatusFactsAfter DEF StatusFollows, SiteOf, Site, Accepted
    <3>3. StatusOf(j) # "none"
      BY <2>1, <2>2, StatusFacts, RecordType DEF StatusFollows, Accepted
    <3> QED
      BY <3>2, <3>3
  <2>3. CASE task[j] \notin Accepted
    <3>1. task'[j] \notin Accepted
      BY <2>1, <2>3 DEF Restart, Accepted, TypeOK, TaskState
    <3> QED
      BY <2>3, <3>1, StatusFacts, StatusFactsAfter DEF StatusFollows, SiteOf
  <2> QED
    BY <2>2, <2>3
<1>2. statusBar' = [j \in Jobs |-> IF statusBar[j] = "none" THEN "none" ELSE "lost"]
  BY <1>1 DEF statusBar
<1>3. siteBar' = siteBar
  BY <1>1 DEF siteBar
<1>4. deliveredBar' = deliveredBar
  BY SamePackages DEF Restart, deliveredBar
<1> QED
  BY <1>2, <1>3, <1>4 DEF Protocol!Forget

-----------------------------------------------------------------------------
(***************************************************************************)
(* The theorem.                                                            *)
(***************************************************************************)
\* Nothing is promised when the process first starts.
LEMMA InitMaps == Init => Protocol!Init
<1> SUFFICES ASSUME Init PROVE Protocol!Init
  OBVIOUS
<1>1. statusBar = [j \in Jobs |-> "none"]
  BY DEF Init, statusBar, StatusOf, Get
<1>2. siteBar = [j \in Jobs |-> None]
  BY DEF Init, siteBar, SiteOf, Accepted
<1>3. deliveredBar = {}
  BY DEF Init, deliveredBar, Delivered, Artifacts
<1> QED
  BY <1>1, <1>2, <1>3 DEF Protocol!Init

\* Every step is a step of the protocol, or none.
LEMMA StepMaps == IInv /\ IInv' /\ [Next]_vars => [Protocol!Next]_barVars
<1> SUFFICES ASSUME IInv, IInv', [Next]_vars
             PROVE  Protocol!Next \/ UNCHANGED barVars
  OBVIOUS
<1>1. CASE Platform \/ Publish \/ UNCHANGED vars
  BY <1>1, PlatformStep
<1>2. ASSUME NEW j \in Jobs, Request(j) PROVE Protocol!Next \/ UNCHANGED barVars
  BY <1>2, CreateAccepts, QuietStep DEF Request, Protocol!Next
<1>3. ASSUME NEW j \in Jobs, Execute(j) PROVE Protocol!Next \/ UNCHANGED barVars
  <2>1. CASE Upload(j)
    <3>1. Site(j) \in Deployments
      BY <2>1, SiteType DEF IInv, Upload
    <3> QED
      BY <2>1, <3>1, UploadDelivers DEF Protocol!Next
  <2>2. CASE Finish(j) \/ Fail(j)
    BY <2>2, SettleStep DEF Protocol!Next
  <2>3. CASE Start(j) \/ GenerateDtm(j) \/ GenerateBom(j) \/ AttachOffers(j)
    BY <2>3, QuietStep
  <2> QED
    BY <1>3, <2>1, <2>2, <2>3 DEF Execute
<1>4. CASE Restart
  BY <1>4, RestartForgets DEF Protocol!Next
<1> QED
  BY <1>1, <1>2, <1>3, <1>4 DEF Next

\* The safety part of ImplementsProtocol: whatever fails, overlaps or
\* restarts, platform-api sees a job settle once, COMPLETE only over a whole
\* package, and jobs forgotten by a restart only (JobsService, JobStore).
THEOREM Refinement == Spec => Protocol!SafetySpec
<1>1. Init => Protocol!Init
  BY InitMaps
<1>2. IInv /\ IInv' /\ [Next]_vars => [Protocol!Next]_barVars
  BY StepMaps
<1>3. [Protocol!Next]_barVars => [Protocol!Next]_(Protocol!protocolVars)
  BY DEF barVars, Protocol!protocolVars
<1> QED
  BY <1>1, <1>2, <1>3, Invariance, PTL DEF Spec, Protocol!SafetySpec
-----------------------------------------------------------------------------
(***************************************************************************)
(* A lock per site.  With a lock per deployment_id held by platform-api, a *)
(* COMPLETE package is of one run.  The lock is what ties a site to one    *)
(* job: whatever is posted or at work for a site is the order its client   *)
(* waits for, so no upload of another run comes between the rows of this   *)
(* one, and none after it, until the client has its answer and posts       *)
(* again.  LockInv is the invariant of the runs under the lock.            *)
(***************************************************************************)
Open(j) == task[j] \in {"posted"} \cup Live

\* The client of a site waits for whatever is open there.
LockHeld(j) ==
    Open(j) =>
        /\ client[Site(j)].job = j
        /\ client[Site(j)].phase =
             IF task[j] \in {"posted", "responding"} THEN "posting" ELSE "polling"

\* The rows a run has uploaded are as it uploaded them.
RowsStand(j) ==
    /\ task[j] = "upload" =>
         \A k \in 1 .. run[j].next - 1 : object[Site(j)][k] = ArtifactBytes(k, run[j])
    /\ task[j] = "summary" =>
         \A k \in Artifacts : object[Site(j)][k] = ArtifactBytes(k, run[j])

OfOneRun(d, r) == \A k \in Artifacts : object[d][k] = ArtifactBytes(k, r)

\* The package a client has seen COMPLETE, or will when it polls.
OnePackage(d) ==
    LET j == client[d].job IN
    client[d].phase = "done" \/ (client[d].phase = "polling" /\ Get(j) = "COMPLETE") =>
        \E r \in RunState :
            /\ OfOneRun(d, r)
            /\ store[j] # None => r.dtm = store[j].manifest

Locked ==
    /\ \A j \in Jobs : LockHeld(j) /\ RowsStand(j)
    /\ \A d \in Deployments : OnePackage(d)

LockInv == IInv /\ (SingleFlight => Locked)

-----------------------------------------------------------------------------
(***************************************************************************)
(* Frames.                                                                 *)
(***************************************************************************)
\* What is open was posted for a site of its own.
LEMMA OpenSite ==
  ASSUME NEW j \in Jobs, IInv, Open(j)
  PROVE  Site(j) \in Deployments
BY SiteType DEF IInv, RecordOK, Open

\* Two open jobs of a site are the same.
LEMMA OneOpen ==
  ASSUME NEW i \in Jobs, NEW j \in Jobs, Locked, Open(i), Open(j), Site(i) = Site(j)
  PROVE  i = j
BY DEF Locked, LockHeld

\* A job that a step leaves alone keeps its lock and its rows, if its site's
\* client and package are left alone.
LEMMA JobKept ==
  ASSUME NEW j \in Jobs, LockHeld(j), RowsStand(j), SameJob(j),
         client'[Site(j)] = client[Site(j)],
         task[j] \in {"upload", "summary"} => object'[Site(j)] = object[Site(j)]
  PROVE  LockHeld(j)' /\ RowsStand(j)'
<1>1. Site(j)' = Site(j)
  BY DEF SameJob, Site
<1>2. LockHeld(j)'
  BY <1>1 DEF LockHeld, Open, SameJob
<1>3. RowsStand(j)'
  BY <1>1 DEF RowsStand, ArtifactBytes, SameJob
<1> QED
  BY <1>2, <1>3

\* A package stays one run's while nothing is written to its site.
LEMMA PackageKept ==
  ASSUME NEW d \in Deployments, OnePackage(d),
         object'[d] = object[d], client'[d] = client[d],
         store'[client[d].job] = store[client[d].job]
  PROVE  OnePackage(d)'
BY DEF OnePackage, OfOneRun, ArtifactBytes, Get

-----------------------------------------------------------------------------
(***************************************************************************)
(* platform-api.                                                           *)
(***************************************************************************)
\* A POST takes a lock that nobody holds.
LEMMA SubmitLocked ==
  ASSUME NEW p \in Payloads, NEW j \in Jobs, IInv, SingleFlight, Locked, Submit(p, j)
  PROVE  Locked'
<1> DEFINE e == DeploymentOf[p]
<1>1. TypeOK /\ e \in Deployments /\ client[e].phase \notin Awaiting
  BY DEF IInv, Submit
<1>2. /\ UNCHANGED <<object, store, run>> /\ task[j] = "unused"
      /\ task' = [task EXCEPT ![j] = "posted"]
      /\ order' = [order EXCEPT ![j] = p]
      /\ client' = [client EXCEPT ![e] = [phase |-> "posting", job |-> j]]
  BY DEF Submit, Goto
<1>3. ASSUME NEW i \in Jobs PROVE LockHeld(i)' /\ RowsStand(i)'
  <2>1. LockHeld(i) /\ RowsStand(i)
    BY DEF Locked
  <2>2. CASE i = j
    BY <1>1, <1>2, <2>2 DEF LockHeld, RowsStand, Open, Site, TypeOK
  <2>3. CASE i # j /\ Open(i)
    <3>1. Site(i) \in Deployments /\ Site(i) # e
      BY <1>1, <2>1, <2>3, OpenSite DEF LockHeld
    <3>2. SameJob(i) /\ client'[Site(i)] = client[Site(i)]
      BY <1>1, <1>2, <2>3, <3>1 DEF SameJob, TypeOK
    <3> QED
      BY <1>2, <2>1, <3>2, JobKept
  <2>4. CASE i # j /\ ~Open(i)
    BY <1>1, <1>2, <2>4 DEF LockHeld, RowsStand, Open, TypeOK
  <2> QED
    BY <2>2, <2>3, <2>4
<1>4. ASSUME NEW d \in Deployments PROVE OnePackage(d)'
  <2>1. CASE d = e
    BY <1>1, <1>2, <2>1 DEF OnePackage, TypeOK
  <2>2. CASE d # e
    BY <1>1, <1>2, <2>2, PackageKept DEF Locked, TypeOK
  <2> QED
    BY <2>1, <2>2
<1> QED
  BY <1>3, <1>4 DEF Locked

\* The client lets go of its lock with the answer it gets, and then nothing
\* is open for its site.
LEMMA ClientLocked ==
  ASSUME NEW e \in Deployments, IInv, SingleFlight, Locked,
         GiveUp(e) \/ ConnectionReset(e) \/ Poll(e)
  PROVE  Locked'
<1> DEFINE j == client[e].job
<1>1. TypeOK /\ ClientOK(e) /\ client[e] \in [phase: Phase, job: Jobs \cup {None}]
  BY DEF IInv, TypeOK
<1>2. UNCHANGED <<object, store, task, order, run>>
      /\ \A d \in Deployments : d # e => client'[d] = client[d]
  BY <1>1 DEF GiveUp, ConnectionReset, Poll, TypeOK
<1>3. /\ j \in Jobs /\ Site(j) = e /\ ~Open(j)
      /\ client'[e].phase \in {"idle", "done", "failed"}
      /\ client'[e].phase = "done" =>
           Get(j) = "COMPLETE" /\ client[e].phase = "polling" /\ client'[e].job = j
  <2>1. CASE GiveUp(e)
    BY <2>1 DEF GiveUp
  <2>2. CASE ConnectionReset(e)
    BY <1>1, <2>2 DEF ConnectionReset, ClientOK, Open, Idle, TypeOK
  <2>3. CASE Poll(e)
    <3>1. j \in Jobs /\ Site(j) = e /\ RecordOK(j) /\ task[j] \in Created \cup {"lost"}
      BY <1>1, <2>3 DEF Poll, ClientOK, IInv
    <3>2. Get(j) # "RUNNING" => ~Open(j)
      BY <3>1 DEF Open, RecordOK, Get
    <3> QED
      BY <1>1, <2>3, <3>1, <3>2 DEF Poll, Idle, TypeOK
  <2> QED
    BY <2>1, <2>2, <2>3
<1>4. ASSUME NEW i \in Jobs PROVE LockHeld(i)' /\ RowsStand(i)'
  <2>1. LockHeld(i) /\ RowsStand(i) /\ SameJob(i)
    BY <1>2 DEF Locked, SameJob
  <2>2. CASE Open(i)
    <3>1. Site(i) \in Deployments /\ Site(i) # e
      BY <1>3, <2>1, <2>2, OpenSite DEF LockHeld
    <3> QED
      BY <1>2, <2>1, <3>1, JobKept
  <2>3. CASE ~Open(i)
    BY <2>1, <2>3 DEF LockHeld, RowsStand, Open, SameJob
  <2> QED
    BY <2>2, <2>3
<1>5. ASSUME NEW d \in Deployments PROVE OnePackage(d)'
  <2>1. OnePackage(d)
    BY DEF Locked
  <2>2. CASE d = e
    BY <1>2, <1>3, <2>1, <2>2 DEF OnePackage, OfOneRun, ArtifactBytes, Get
  <2>3. CASE d # e
    BY <1>2, <2>1, <2>3, PackageKept
  <2> QED
    BY <2>2, <2>3
<1> QED
  BY <1>4, <1>5 DEF Locked

-----------------------------------------------------------------------------
(***************************************************************************)
(* The steps of a job.                                                     *)
(***************************************************************************)
\* The client that an open job has, and no other.
LEMMA ItsClient ==
  ASSUME NEW j \in Jobs, NEW d \in Deployments, IInv, Locked, Open(j),
         client[d].phase \in Awaiting \cup {"done"}, client[d].job = j
  PROVE  d = Site(j) /\ client[d].phase # "done"
<1>1. d = Site(j)
  BY DEF IInv, ClientOK
<1> QED
  BY <1>1 DEF Locked, LockHeld

\* A step of an open job that writes no package, and does not complete.
LEMMA OpenStep ==
  ASSUME NEW j \in Jobs, IInv, IInv', SingleFlight, Locked, Open(j),
         UNCHANGED <<object, order>>,
         \A i \in Jobs : i # j => SameJob(i),
         \A d \in Deployments : d # Site(j) => client'[d] = client[d],
         client'[Site(j)].phase # "done",
         client'[Site(j)].phase = "polling" => client'[Site(j)].job = j,
         Get(j)' # "COMPLETE",
         LockHeld(j)', RowsStand(j)'
  PROVE  Locked'
<1>1. ASSUME NEW i \in Jobs PROVE LockHeld(i)' /\ RowsStand(i)'
  <2>1. LockHeld(i) /\ RowsStand(i)
    BY DEF Locked
  <2>2. CASE i # j /\ Open(i)
    <3>1. Site(i) \in Deployments /\ Site(i) # Site(j)
      BY <2>2, OpenSite, OneOpen
    <3> QED
      BY <2>1, <2>2, <3>1, JobKept
  <2>3. CASE i # j /\ ~Open(i)
    BY <2>1, <2>3 DEF LockHeld, RowsStand, Open, SameJob
  <2> QED
    BY <2>2, <2>3
<1>2. ASSUME NEW d \in Deployments PROVE OnePackage(d)'
  <2>1. OnePackage(d)
    BY DEF Locked
  <2>2. CASE d = Site(j)
    BY <2>2 DEF OnePackage
  <2>3. CASE d # Site(j) /\ client[d].phase \in {"polling", "done"}
    <3>1. client[d].job \in Jobs /\ client[d].job # j
      BY <2>3, ItsClient DEF IInv, ClientOK
    <3> QED
      BY <2>1, <2>3, <3>1, PackageKept DEF SameJob
  <2>4. CASE d # Site(j) /\ client[d].phase \notin {"polling", "done"}
    BY <2>4 DEF OnePackage
  <2> QED
    BY <2>2, <2>3, <2>4
<1> QED
  BY <1>1, <1>2 DEF Locked

\* The request and the stages before the uploads.
LEMMA EarlyLocked ==
  ASSUME NEW j \in Jobs, IInv, IInv', SingleFlight, Locked,
         \/ Create(j) \/ Respond(j) \/ Unprocessable(j) \/ Errored(j)
         \/ Start(j) \/ GenerateDtm(j) \/ GenerateBom(j) \/ AttachOffers(j)
  PROVE  Locked'
<1> USE DEF Create, Respond, Unprocessable, Errored, Start, GenerateDtm,
            GenerateBom, AttachOffers, Goto
<1>1. TypeOK /\ TypeOK' /\ RecordOK(j) /\ RecordOK(j)' /\ RunOK(j) /\ RunOK(j)' /\ LockHeld(j)
  BY DEF IInv, Locked
<1>2. Open(j) /\ UNCHANGED <<object, order>> /\ Site(j)' = Site(j) /\ Site(j) \in Deployments
  BY <1>1, OpenSite DEF Open, Site
<1>3. ASSUME NEW i \in Jobs, i # j PROVE SameJob(i)
  BY <1>1, <1>3 DEF TypeOK, SameJob
<1>4. ASSUME NEW d \in Deployments, d # Site(j) PROVE client'[d] = client[d]
  <2>1. client[d] # [phase |-> "posting", job |-> j]
    BY <1>2, <1>4, ItsClient
  <2> QED
    BY <1>1, <2>1 DEF Answer
<1>5. Get(j)' # "COMPLETE"
  BY <1>1 DEF TypeOK, RecordOK, Get
<1>6. RowsStand(j)'
  <2>1. CASE AttachOffers(j)
    <3>1. PICK o \in Offers : run' = [run EXCEPT ![j].bom.offers = o]
      BY <2>1
    <3>2. run'[j].next = 1 /\ task'[j] = "upload"
      BY <1>1, <2>1, <3>1, RunType DEF TypeOK, RunOK, RunState
    <3> QED
      BY <3>2 DEF RowsStand
  <2>2. CASE ~AttachOffers(j)
    BY <1>1, <2>2 DEF TypeOK, RowsStand
  <2> QED
    BY <2>1, <2>2
<1>7. /\ LockHeld(j)' /\ client'[Site(j)].phase # "done"
      /\ client'[Site(j)].phase = "polling" => client'[Site(j)].job = j
  BY <1>1, <1>2 DEF TypeOK, LockHeld, Open, Answer
<1> QED
  BY <1>2, <1>3, <1>4, <1>5, <1>6, <1>7, OpenStep

\* An upload writes the next row of a package that is its own.
LEMMA UploadLocked ==
  ASSUME NEW j \in Jobs, IInv, IInv', SingleFlight, Locked, Upload(j)
  PROVE  Locked'
<1> DEFINE k == run[j].next
<1>1. TypeOK /\ TypeOK' /\ RecordOK(j) /\ RunOK(j) /\ LockHeld(j) /\ RowsStand(j)
      /\ task[j] = "upload" /\ Open(j)
  BY DEF IInv, Locked, Upload, Open
<1>2. PICK e \in Deployments : e = Site(j)
  BY <1>1, OpenSite
<1>3. k \in Artifacts /\ run[j] \in RunState
  BY <1>1, RunType DEF RunOK
<1>4. /\ object' = [object EXCEPT ![e][k] = ArtifactBytes(k, run[j])]
      /\ run'[j] = [run[j] EXCEPT !.next = k + 1]
      /\ UNCHANGED <<store, order, client>>
      /\ task'[j] = IF k = NumArtifacts THEN "summary" ELSE "upload"
  BY <1>1, <1>2 DEF Upload, Goto, TypeOK
<1>5. ASSUME NEW i \in Jobs, i # j PROVE SameJob(i)
  BY <1>1, <1>5 DEF Upload, Goto, TypeOK, SameJob
<1>6. ASSUME NEW d \in Deployments, d # e PROVE object'[d] = object[d]
  BY <1>1, <1>4, <1>6 DEF TypeOK
<1>7. LockHeld(j)' /\ RowsStand(j)'
  <2>1. Site(j)' = e /\ LockHeld(j)'
    BY <1>1, <1>2, <1>4 DEF LockHeld, Open, Site
  <2>2. \A l \in Artifacts : ArtifactBytes(l, run'[j]) = ArtifactBytes(l, run[j])
    BY <1>3, <1>4 DEF ArtifactBytes, RunState
  <2>3. \A l \in Artifacts : object'[e][l] = IF l = k THEN ArtifactBytes(k, run[j]) ELSE object[e][l]
    BY <1>1, <1>3, <1>4 DEF TypeOK
  <2>4. \A l \in 1 .. k : object'[e][l] = ArtifactBytes(l, run'[j])
    BY <1>1, <1>2, <1>3, <2>2, <2>3 DEF RowsStand, Artifacts
  <2>5. run'[j].next = k + 1
    BY <1>3, <1>4 DEF RunState
  <2> QED
    BY <1>3, <1>4, <2>1, <2>4, <2>5 DEF RowsStand, Artifacts
<1>8. ASSUME NEW i \in Jobs, i # j PROVE LockHeld(i)' /\ RowsStand(i)'
  <2>1. LockHeld(i) /\ RowsStand(i) /\ SameJob(i)
    BY <1>5, <1>8 DEF Locked
  <2>2. CASE Open(i)
    <3>1. Site(i) \in Deployments /\ Site(i) # e
      BY <1>1, <1>2, <1>8, <2>2, OpenSite, OneOpen
    <3> QED
      BY <1>4, <1>6, <2>1, <3>1, JobKept
  <2>3. CASE ~Open(i)
    BY <2>1, <2>3 DEF LockHeld, RowsStand, Open, SameJob
  <2> QED
    BY <2>2, <2>3
<1>9. ASSUME NEW d \in Deployments PROVE OnePackage(d)'
  <2>1. CASE d = e
    <3>1. client'[d].phase = "polling" /\ client'[d].job = j /\ Get(j)' = "RUNNING"
      BY <1>1, <1>2, <1>4, <2>1 DEF LockHeld, RecordOK, Get
    <3> QED
      BY <3>1 DEF OnePackage
  <2>2. CASE d # e
    BY <1>4, <1>6, <2>2, PackageKept DEF Locked
  <2> QED
    BY <2>1, <2>2
<1> QED
  BY <1>7, <1>8, <1>9 DEF Locked

\* COMPLETE is stored over rows that are all of this run.
LEMMA FinishLocked ==
  ASSUME NEW j \in Jobs, IInv, IInv', SingleFlight, Locked, Finish(j)
  PROVE  Locked'
<1>1. TypeOK /\ TypeOK' /\ RecordOK(j) /\ RunOK(j) /\ LockHeld(j) /\ RowsStand(j)
      /\ task[j] = "summary" /\ Open(j)
  BY DEF IInv, Locked, Finish, Open
<1>2. PICK e \in Deployments : e = Site(j)
  BY <1>1, OpenSite
<1>3. UNCHANGED <<object, order, client>> /\ task'[j] = "ended"
  BY <1>1 DEF Finish, Goto, TypeOK
<1>4. /\ store'[j] # None /\ store'[j].manifest = store[j].manifest
      /\ \A i \in Jobs : i # j => SameJob(i)
  <2>1. store'[j] = [store[j] EXCEPT !.status = "COMPLETE"] /\ store[j] \in JobRecord
    BY <1>1, RecordType DEF Finish, SetStatus, TypeOK
  <2>2. store'[j] # None /\ store'[j].manifest = store[j].manifest
    BY <1>1, <2>1, SetStatusType DEF Finish, JobRecord
  <2> QED
    BY <1>1, <2>2 DEF Finish, SetStatus, Goto, TypeOK, SameJob
<1>5. ASSUME NEW i \in Jobs PROVE LockHeld(i)' /\ RowsStand(i)'
  <2>1. CASE i = j
    BY <1>3, <2>1 DEF LockHeld, RowsStand, Open
  <2>2. CASE i # j
    BY <1>3, <1>4, <2>2, JobKept DEF Locked
  <2> QED
    BY <2>1, <2>2
<1>6. ASSUME NEW d \in Deployments PROVE OnePackage(d)'
  <2>1. CASE d = e
    <3>1. client'[d].job = j /\ run[j] \in RunState /\ run[j].dtm = store'[j].manifest
      BY <1>1, <1>2, <1>3, <1>4, <2>1, RunType DEF LockHeld, RunOK
    <3>2. \A k \in Artifacts : object'[d][k] = ArtifactBytes(k, run[j])
      BY <1>1, <1>2, <1>3, <2>1 DEF RowsStand
    <3> DEFINE r == run[j]
    <3>3. \E q \in RunState :
             /\ \A k \in Artifacts : object'[d][k] = ArtifactBytes(k, q)
             /\ q.dtm = store'[j].manifest
      BY <3>1, <3>2
    <3> QED
      BY <3>1, <3>3 DEF OnePackage, OfOneRun, ArtifactBytes
  <2>2. CASE d # e /\ client[d].phase \in {"polling", "done"}
    <3>1. client[d].job \in Jobs /\ client[d].job # j
      BY <1>1, <1>2, <2>2, ItsClient DEF IInv, ClientOK
    <3> QED
      BY <1>3, <1>4, <2>2, <3>1, PackageKept DEF Locked, SameJob
  <2>3. CASE client[d].phase \notin {"polling", "done"}
    BY <1>3, <2>3 DEF OnePackage
  <2> QED
    BY <2>1, <2>2, <2>3
<1> QED
  BY <1>5, <1>6 DEF Locked

\* FAILED is no answer that promises a package.
LEMMA FailLocked ==
  ASSUME NEW j \in Jobs, IInv, IInv', SingleFlight, Locked, Fail(j)
  PROVE  Locked'
<1>1. TypeOK /\ TypeOK' /\ RecordOK(j) /\ LockHeld(j) /\ Open(j) /\ task[j] \in Working
  BY DEF IInv, Locked, Fail, Open
<1>2. UNCHANGED <<object, order, client>> /\ task'[j] = "ended"
      /\ \A i \in Jobs : i # j => SameJob(i)
  BY <1>1 DEF Fail, SetStatus, Goto, TypeOK, SameJob
<1>3. Get(j)' # "COMPLETE"
  BY <1>1, SetStatusType DEF Fail, Get
<1>4. LockHeld(j)' /\ RowsStand(j)'
  BY <1>2 DEF LockHeld, RowsStand, Open
<1>5. client[Site(j)].phase = "polling" /\ client[Site(j)].job = j
  BY <1>1 DEF LockHeld
<1> QED
  BY <1>1, <1>2, <1>3, <1>4, <1>5, OpenStep

\* A restart closes everything and forgets what was complete; a package
\* already seen COMPLETE is left as it is.
LEMMA RestartLocked ==
  ASSUME IInv, SingleFlight, Locked, Restart
  PROVE  Locked'
<1>1. ASSUME NEW j \in Jobs PROVE LockHeld(j)' /\ RowsStand(j)'
  BY <1>1 DEF Restart, LockHeld, RowsStand, Open, IInv, TypeOK
<1>2. ASSUME NEW d \in Deployments PROVE OnePackage(d)'
  <2>1. OnePackage(d) /\ ClientOK(d)
    BY DEF Locked, IInv
  <2>2. CASE client[d].phase \in {"polling", "done"}
    <3>1. client[d].job \in Jobs /\ store'[client[d].job] = None /\ UNCHANGED <<object, client>>
      BY <2>1, <2>2 DEF ClientOK, Restart
    <3> QED
      BY <2>1, <3>1 DEF OnePackage, OfOneRun, ArtifactBytes, Get
  <2>3. CASE client[d].phase \notin {"polling", "done"}
    BY <2>3 DEF OnePackage, Restart
  <2> QED
    BY <2>2, <2>3
<1> QED
  BY <1>1, <1>2 DEF Locked

-----------------------------------------------------------------------------
(***************************************************************************)
(* The theorems.                                                           *)
(***************************************************************************)
\* Every step keeps what the lock gives.
LEMMA NextLocked == IInv /\ IInv' /\ SingleFlight /\ Locked /\ [Next]_vars => Locked'
<1> SUFFICES ASSUME IInv, IInv', SingleFlight, Locked, [Next]_vars PROVE Locked'
  OBVIOUS
<1>1. ASSUME NEW p \in Payloads, NEW j \in Jobs, Submit(p, j) PROVE Locked'
  BY <1>1, SubmitLocked
<1>2. ASSUME NEW d \in Deployments, GiveUp(d) \/ ConnectionReset(d) \/ Poll(d)
      PROVE  Locked'
  BY <1>2, ClientLocked
<1>3. ASSUME NEW j \in Jobs, Request(j) \/ Execute(j) PROVE Locked'
  BY <1>3, EarlyLocked, UploadLocked, FinishLocked, FailLocked DEF Request, Execute
<1>4. CASE Restart
  BY <1>4, RestartLocked
<1>5. CASE Publish \/ UNCHANGED vars
  <2>1. UNCHANGED <<object, store, task, order, run, client>>
    BY <1>5 DEF Publish, vars
  <2>2. ASSUME NEW j \in Jobs PROVE LockHeld(j)' /\ RowsStand(j)'
    BY <2>1, JobKept DEF Locked, SameJob
  <2>3. ASSUME NEW d \in Deployments PROVE OnePackage(d)'
    BY <2>1, PackageKept DEF Locked
  <2> QED
    BY <2>2, <2>3 DEF Locked
<1> QED
  BY <1>1, <1>2, <1>3, <1>4, <1>5 DEF Next, Platform

\* IInv and, under the lock, Locked are invariants.
THEOREM LockInvariance == Spec => []LockInv
<1>1. Init => LockInv
  <2>1. ASSUME Init PROVE Locked
    BY <2>1 DEF Init, Locked, LockHeld, RowsStand, OnePackage, Open, Idle
  <2> QED
    BY <2>1, InitInv DEF LockInv
<1>2. LockInv /\ [Next]_vars => LockInv'
  BY NextInv, NextLocked DEF LockInv
<1> QED
  BY <1>1, <1>2, PTL DEF Spec

\* A package platform-api holds COMPLETE for is of one DTM and one BOM, of
\* the release its URL list was made for, whatever failed or restarted, if
\* platform-api holds a lock per site (PipelineService.run).
THEOREM CompleteIsOneRuns == Spec => []SingleFlightPackage
<1>1. LockInv => SingleFlightPackage
  <2> SUFFICES ASSUME LockInv, NEW d \in Deployments, SingleFlight, client[d].phase = "done"
               PROVE  /\ Untorn(d)
                      /\ store[client[d].job] # None =>
                           \A k \in UsesDtm : object[d][k].dtm = store[client[d].job].manifest
    BY DEF SingleFlightPackage
  <2>1. PICK r \in RunState :
           /\ OfOneRun(d, r)
           /\ store[client[d].job] # None => r.dtm = store[client[d].job].manifest
    BY DEF LockInv, Locked, OnePackage
  <2>2. \A k \in Artifacts :
           /\ k \in UsesDtm => object[d][k].dtm = r.dtm
           /\ k \in UsesBom => object[d][k].bom = r.bom
    <3> SUFFICES ASSUME NEW k \in Artifacts
                 PROVE  /\ k \in UsesDtm => object[d][k].dtm = r.dtm
                        /\ k \in UsesBom => object[d][k].bom = r.bom
      OBVIOUS
    <3>1. object[d][k] = ArtifactBytes(k, r)
      BY <2>1 DEF OfOneRun
    <3>2. /\ ArtifactBytes(k, r).dtm = IF k \in UsesDtm THEN r.dtm ELSE None
          /\ ArtifactBytes(k, r).bom = IF k \in UsesBom THEN r.bom ELSE None
      BY DEF ArtifactBytes
    <3> QED
      BY <3>1, <3>2
  <2>3. UsesDtm \subseteq Artifacts /\ UsesBom \subseteq Artifacts
    OBVIOUS
  <2> QED
    BY <2>1, <2>2, <2>3 DEF Untorn
<1> QED
  BY <1>1, LockInvariance, PTL
=============================================================================
