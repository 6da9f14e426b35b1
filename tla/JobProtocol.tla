---------------------------- MODULE JobProtocol ----------------------------
(***************************************************************************)
(* What edp-api promises platform-api about one order, as the readme's     *)
(* "Failure Model" states it and without a word on how it is done.  A POST *)
(* makes a job; the job runs and settles exactly once, COMPLETE or FAILED; *)
(* COMPLETE is only ever shown for a site whose whole package is in S3;    *)
(* and only a restart forgets jobs, all of them at once, never the files.  *)
(***************************************************************************)
CONSTANTS Jobs,         \* every job_id that may be issued
          Deployments,  \* deployment_id values
          NoSite        \* no deployment: the site of a job_id not issued yet

VARIABLES status,       \* what GET /edp-api/jobs/{id} stands at, per job_id
          site,         \* the deployment a job was accepted for
          delivered     \* deployments with every generated artifact in S3

protocolVars == <<status, site, delivered>>

JobStatus == {"none", "running", "complete", "failed", "lost"}

TypeOK ==
    /\ status \in [Jobs -> JobStatus]
    /\ site \in [Jobs -> Deployments \cup {NoSite}]
    /\ delivered \in SUBSET Deployments

Init ==
    /\ status = [j \in Jobs |-> "none"]
    /\ site = [j \in Jobs |-> NoSite]
    /\ delivered = {}

\* 202: a fresh job_id, RUNNING from the moment it is known.
Accept(j, d) ==
    /\ status[j] = "none"
    /\ status' = [status EXCEPT ![j] = "running"]
    /\ site' = [site EXCEPT ![j] = d]
    /\ UNCHANGED delivered

\* The last missing artifact of a site arrives; a running job put it there.
Deliver(d) ==
    /\ \E j \in Jobs : status[j] = "running" /\ site[j] = d
    /\ delivered' = delivered \cup {d}
    /\ UNCHANGED <<status, site>>

Complete(j) ==
    /\ status[j] = "running"
    /\ site[j] \in delivered
    /\ status' = [status EXCEPT ![j] = "complete"]
    /\ UNCHANGED <<site, delivered>>

Fail(j) ==
    /\ status[j] = "running"
    /\ status' = [status EXCEPT ![j] = "failed"]
    /\ UNCHANGED <<site, delivered>>

\* The process restarts: every job known so far answers 404 from now on.
Forget ==
    /\ status' = [j \in Jobs |-> IF status[j] = "none" THEN "none" ELSE "lost"]
    /\ UNCHANGED <<site, delivered>>

Next ==
    \/ \E j \in Jobs, d \in Deployments : Accept(j, d)
    \/ \E d \in Deployments : Deliver(d)
    \/ \E j \in Jobs : Complete(j) \/ Fail(j)
    \/ Forget

\* A job that runs does settle, unless a restart takes it first.
Fairness == \A j \in Jobs : WF_protocolVars(Complete(j) \/ Fail(j))

SafetySpec == Init /\ [][Next]_protocolVars
Spec == SafetySpec /\ Fairness
=============================================================================
