------------------------- MODULE WorkbenchReconciler -------------------------
(***************************************************************************)
(* The reconciliation of one Workbench: WorkbenchReconciler.Reconcile and  *)
(* what it calls, one step per call to the Kubernetes API, with the world  *)
(* around it (the user, the informers that feed the client's cache, the    *)
(* deployment, job and garbage collection controllers).                    *)
(*                                                                         *)
(* Simplifications, each an abstraction of data and not of control:        *)
(*  - An informer that lags catches up with the current object in one      *)
(*    step: the versions of an object it skips are never read, but a       *)
(*    change is always followed by an event.                               *)
(*  - A write is refused as conflicting iff the object differs from the    *)
(*    one read; resource versions are not modelled, so an object that went *)
(*    back to an earlier content is not told apart from it.                *)
(*  - Of the server's status, the pod's readiness is kept, which the code  *)
(*    acts on; the rest is rewritten as the deployment and the pod change. *)
(*  - The delays of requeues are not modelled: a requeued item is queued.  *)
(*  - One workbench object; a second workbench, or one made again under    *)
(*    the same name, belongs to another module.  One operator process at a *)
(*    time (the chart deploys it with --leader-elect).                     *)
(*  - ProcessEnabledStorage never fails a pass; WorkbenchStorage has it,   *)
(*    with the directory jobs it makes, which are extra jobs to a sweep.   *)
(*  - "Stopped" stands for Stopped and Killed, which initJob treats alike; *)
(*    "Invalid" for an app initJob refuses (no image, or a UID collision). *)
(*                                                                         *)
(* An operator marked "Mutant" is a plausible mistake in the definition    *)
(* that follows it; no other definition uses it.                           *)
(***************************************************************************)
EXTENDS Naturals, FiniteSets

CONSTANTS
    Uids,            \* keys of spec.apps
    AppNames,        \* names of applications
    JobNames,        \* names of batch jobs
    JobName,         \* the job name of <<uid, app name>>
    Versions,        \* versions of the xpra server
    CachedReads,     \* TRUE: the manager's client; FALSE: a direct client
    Faulty,          \* call sites that may fail, plus "crash"
    MaxEdits,        \* bound on the user's edits of the spec
    MaxFaults,       \* bound on failed calls and crashes
    MaxDisruptions   \* bound on disruptions of the children

Absent == "absent"

ASSUME ConstantsAssumption ==
    /\ JobName \in [Uids \X AppNames -> JobNames]
    /\ CachedReads \in BOOLEAN
    /\ MaxEdits \in Nat /\ MaxFaults \in Nat /\ MaxDisruptions \in Nat
    /\ Absent \notin Versions

VARIABLES
    wb,          \* the Workbench object in the API server
    dep,         \* its Deployment
    pod,         \* TRUE iff the server's pod exists with all containers ready
    svc,         \* TRUE iff its Service exists
    jobs,        \* its Jobs, by name
    cache,       \* what the informers have delivered of the five above
    news,        \* the kinds with an event still to be delivered
    queued,      \* the workqueue holds the workbench
    pc,          \* the next call of the running pass, or "idle"
    pass,        \* the memory of the running pass
    edits, faults, disruptions

api == <<wb, dep, pod, svc, jobs>>
worker == <<queued, pc, pass>>
budgets == <<edits, faults, disruptions>>
vars == <<api, cache, news, worker, budgets>>

-----------------------------------------------------------------------------
(* The objects. *)

AppStates == {"none", "Running", "Stopped", "Invalid"}
App == [name : AppNames, state : AppStates]
AppStatuses == {"none", "Running", "Complete", "Failed"}

\* ready: serverPod is set and its field ready is true.
Status == [ready : BOOLEAN, apps : [Uids -> AppStatuses]]

Workbench == [phase     : {"live", "terminating", "gone"},
              finalizer : BOOLEAN,
              version   : Versions,
              apps      : [Uids -> App],
              status    : Status]

\* available: what the deployment controller last wrote of the pod.
Deployment == [image : Versions \cup {Absent}, available : BOOLEAN]
NoDeployment == [image |-> Absent, available |-> FALSE]

\* active: the job has a pod, ready or not; idle: it has none, because it is
\* new, suspended or failed; done: it succeeded.
JobPhases == {"absent", "idle", "active", "done"}
Job == [phase : JobPhases, suspend : BOOLEAN]
NoJob == [phase |-> "absent", suspend |-> FALSE]
FreshJob == [phase |-> "idle", suspend |-> FALSE]

Objects == [wb : Workbench, dep : Deployment, pod : BOOLEAN, svc : BOOLEAN,
            jobs : [JobNames -> Job]]
Kinds == {"wb", "dep", "pod", "svc", "jobs"}

\* The objects as the API server has them.
Now == [wb |-> wb, dep |-> dep, pod |-> pod, svc |-> svc, jobs |-> jobs]

NoStatus == [ready |-> FALSE, apps |-> [u \in Uids |-> "none"]]
\* A record, so that TLC can compare it with any pass.
NoPass == [running |-> FALSE]

\* What Reconcile keeps in memory: the workbench as the API server knows it,
\* the status as edited since, the deployment and job it read or created, the
\* app at hand, the apps to visit, foundJobNames, and the extra jobs.  The last
\* field is history and no memory of the code's: a read on which the pass went on
\* as if there were no such job or deployment has missed one that was there.
Pass == [wb : Workbench, status : Status, dep : Deployment, job : Job,
         app : Uids \cup {"none"}, todo : SUBSET Uids,
         found : SUBSET JobNames, doomed : SUBSET JobNames, missed : BOOLEAN]

Children == {n \in JobNames : jobs[n] # NoJob}
HasChildren == dep # NoDeployment \/ svc \/ Children # {}

-----------------------------------------------------------------------------
(* Calls to the API server. *)

CreateSteps == {"createDeployment", "createService", "createJob"}
LiveSteps == CreateSteps \cup
             {"getDeployment", "listPods", "writeServerStatus",
              "updateDeployment", "getService", "apps", "writeAppStatus",
              "updateJob", "deleteJob"}
TeardownSteps == {"listJobs", "deleteJobs", "listDeployments",
                  "deleteDeployments", "removeFinalizer"}
Steps == {"idle", "addFinalizer"} \cup LiveSteps \cup TeardownSteps

\* What the client reads.
Seen == IF CachedReads THEN cache ELSE Now

\* A change of an object is an event for those that watch it.
Notify == news' = news \cup {k \in Kinds : Now'[k] # Now[k]}

Fails(site) ==
    /\ site \in Faulty
    /\ faults < MaxFaults
    /\ faults' = faults + 1

\* A read answers, or fails.
Reads(site, ok) ==
    IF ok THEN UNCHANGED faults ELSE Fails(site)

\* A write the API server accepts is applied, unless the call fails: then it
\* may have been applied or not.  One it refuses changes nothing.
Writes(site, accepted, ok, applied) ==
    \/ /\ ok = accepted
       /\ applied = accepted
       /\ UNCHANGED faults
    \/ /\ accepted
       /\ ~ok
       /\ Fails(site)

\* Continue the pass at a step, or end it.  The app and the job at hand are
\* locals of the body of the loop over the apps.
Goto(step, p) ==
    /\ pc' = step
    /\ pass' = IF step = "apps" THEN [p EXCEPT !.app = "none", !.job = NoJob] ELSE p
    /\ UNCHANGED queued

Return(requeue) ==
    /\ pc' = "idle"
    /\ pass' = NoPass
    /\ queued' = (queued \/ requeue)

InPass == Notify /\ UNCHANGED <<cache, edits, disruptions>>

-----------------------------------------------------------------------------
(* Reconcile: the workbench and its finalizer. *)

NewPass(w) ==
    [wb |-> w, status |-> w.status, dep |-> NoDeployment, job |-> NoJob,
     app |-> "none", todo |-> {}, found |-> {}, doomed |-> {}, missed |-> FALSE]

\* The read just made missed an object that exists, if one is left.
Missing(p, left) == [p EXCEPT !.missed = @ \/ left]

\* Mutant: the finalizer is never added.
FinalizerForgotten(w) ==
    CASE w.phase = "live"                        -> "getDeployment"
      [] w.phase = "terminating" /\ w.finalizer  -> "listJobs"
      [] OTHER                                   -> "idle"

\* Mutant: the finalizer is removed before the sub-resources.
FinalizerRemovedFirst(w) ==
    CASE w.phase = "live" /\ w.finalizer         -> "getDeployment"
      [] w.phase = "live" /\ ~w.finalizer        -> "addFinalizer"
      [] w.phase = "terminating" /\ w.finalizer  -> "removeFinalizer"
      [] OTHER                                   -> "idle"

\* Mutant: the server is torn down, the applications are not.
AppsForgotten(w) ==
    CASE w.phase = "live" /\ w.finalizer         -> "getDeployment"
      [] w.phase = "live" /\ ~w.finalizer        -> "addFinalizer"
      [] w.phase = "terminating" /\ w.finalizer  -> "listDeployments"
      [] OTHER                                   -> "idle"

\* Where a pass starts, given the workbench it read.
FirstStep(w) ==
    CASE w.phase = "live" /\ w.finalizer         -> "getDeployment"
      [] w.phase = "live" /\ ~w.finalizer        -> "addFinalizer"
      [] w.phase = "terminating" /\ w.finalizer  -> "listJobs"
      [] OTHER                                   -> "idle"

BeginPass ==
    /\ pc = "idle" /\ queued
    /\ \E ok \in BOOLEAN :
         LET first == IF ok THEN FirstStep(Seen.wb) ELSE "idle"
         IN /\ Reads("getWorkbench", ok)
            /\ pc' = first
            /\ pass' = IF first = "idle" THEN NoPass ELSE NewPass(Seen.wb)
            /\ queued' = ~ok
    /\ UNCHANGED api /\ InPass

\* Mutant: the object read is written over whatever is there (no resource version).
AddFinalizerBlindly ==
    /\ pc = "addFinalizer"
    /\ \E ok, applied \in BOOLEAN :
         /\ Writes("addFinalizer", wb.phase # "gone", ok, applied)
         /\ wb' = IF applied THEN [pass.wb EXCEPT !.finalizer = TRUE] ELSE wb
         /\ IF ok THEN Goto("getDeployment", [pass EXCEPT !.wb.finalizer = TRUE])
                  ELSE Return(TRUE)
    /\ UNCHANGED <<dep, pod, svc, jobs>> /\ InPass

AddFinalizer ==
    /\ pc = "addFinalizer"
    /\ \E ok, applied \in BOOLEAN :
         /\ Writes("addFinalizer", wb = pass.wb, ok, applied)
         /\ wb' = IF applied THEN [pass.wb EXCEPT !.finalizer = TRUE] ELSE wb
         /\ IF ok THEN Goto("getDeployment", [pass EXCEPT !.wb.finalizer = TRUE])
                  ELSE Return(TRUE)
    /\ UNCHANGED <<dep, pod, svc, jobs>> /\ InPass

-----------------------------------------------------------------------------
(* Reconcile: the server. *)

\* A failed read or creation of the deployment is logged, and the pass goes on
\* to the service without a deployment.
GetDeployment ==
    /\ pc = "getDeployment"
    /\ \E ok \in BOOLEAN :
         /\ Reads("getDeployment", ok)
         /\ CASE ~ok -> Goto("getService", pass)
              [] ok /\ Seen.dep = NoDeployment -> Goto("createDeployment", pass)
              [] OTHER -> Goto("listPods", [pass EXCEPT !.dep = Seen.dep])
    /\ UNCHANGED api /\ InPass

CreateDeployment ==
    /\ pc = "createDeployment"
    /\ LET new == [image |-> pass.wb.version, available |-> FALSE]
       IN \E ok, applied \in BOOLEAN :
            /\ Writes("createDeployment", dep = NoDeployment, ok, applied)
            /\ dep' = IF applied THEN new ELSE dep
            /\ IF ok THEN Goto("listPods", [pass EXCEPT !.dep = new])
                     ELSE Goto("getService", pass)
    /\ UNCHANGED <<wb, pod, svc, jobs>> /\ InPass

\* Mutant: the images are not compared.
ImageKept(p) == "getService"

\* updateDeployment compares the images.
AfterStatus(p) ==
    IF p.dep.image # p.wb.version THEN "updateDeployment" ELSE "getService"

\* updateServerPodHealth; a failed listing counts as a pod that is not ready.
ListPods ==
    /\ pc = "listPods"
    /\ \E ok \in BOOLEAN :
         LET ready == ok /\ Seen.pod
         IN /\ Reads("listPods", ok)
            /\ Goto(IF ready # pass.status.ready
                    THEN "writeServerStatus" ELSE AfterStatus(pass),
                    [pass EXCEPT !.status.ready = ready])
    /\ UNCHANGED api /\ InPass

\* A failed status update is logged only; the edited status stays in memory.
WriteStatus(site, next) ==
    /\ pc = site
    /\ \E ok, applied \in BOOLEAN :
         /\ Writes(site, wb = pass.wb, ok, applied)
         /\ wb' = IF applied THEN [wb EXCEPT !.status = pass.status] ELSE wb
         /\ Goto(next,
                 IF ok THEN [pass EXCEPT !.wb.status = pass.status] ELSE pass)
    /\ UNCHANGED <<dep, pod, svc, jobs>> /\ InPass

WriteServerStatus == WriteStatus("writeServerStatus", AfterStatus(pass))

UpdateDeployment ==
    /\ pc = "updateDeployment"
    /\ \E ok, applied \in BOOLEAN :
         /\ Writes("updateDeployment", dep = pass.dep, ok, applied)
         /\ dep' = IF applied THEN [pass.dep EXCEPT !.image = pass.wb.version] ELSE dep
         /\ IF ok THEN Goto("getService", pass) ELSE Return(TRUE)
    /\ UNCHANGED <<wb, pod, svc, jobs>> /\ InPass

-----------------------------------------------------------------------------
(* Reconcile: the service, and the gate before the apps. *)

\* Mutant: a pass that finds the server not ready is not queued again.
GateWithoutRequeue ==
    IF pass.status.ready
    THEN Goto("apps",
              [pass EXCEPT !.todo = {u \in Uids : pass.wb.apps[u].state # "none"}])
    ELSE Return(FALSE)

\* The gate reads the status in memory.
Gate ==
    IF pass.status.ready
    THEN Goto("apps",
              [pass EXCEPT !.todo = {u \in Uids : pass.wb.apps[u].state # "none"}])
    ELSE Return(TRUE)

GetService ==
    /\ pc = "getService"
    /\ \E ok \in BOOLEAN :
         /\ Reads("getService", ok)
         /\ CASE ~ok -> Return(TRUE)
              [] ok /\ Seen.svc -> Gate
              [] OTHER -> Goto("createService", pass)
    /\ UNCHANGED api /\ InPass

CreateService ==
    /\ pc = "createService"
    /\ \E ok, applied \in BOOLEAN :
         /\ Writes("createService", ~svc, ok, applied)
         /\ svc' = (svc \/ applied)
         /\ IF ok THEN Gate ELSE Return(TRUE)
    /\ UNCHANGED <<wb, dep, pod, jobs>> /\ InPass

-----------------------------------------------------------------------------
(* Reconcile: the apps. *)

NameOf(w, u) == JobName[<<u, w.apps[u].name>>]
Suspended(w, u) == w.apps[u].state # "Running"

\* Mutant: a status the API does not know.
JobStatusRaw(job) == job.phase

\* UpdateStatusFromJob.
JobStatus(job) ==
    CASE job.phase = "active" -> "Running"
      [] job.phase = "done"   -> "Complete"
      [] OTHER                -> "Failed"

\* Mutant: a job is only ever suspended, not started again.
SuspendOnly(p) ==
    IF p.job # NoJob /\ ~p.job.suspend /\ Suspended(p.wb, p.app)
    THEN "updateJob" ELSE "apps"

\* updateJob changes the suspension and nothing else.
AfterAppStatus(p) ==
    IF p.job # NoJob /\ p.job.suspend # Suspended(p.wb, p.app)
    THEN "updateJob" ELSE "apps"

\* Write the status of the app at hand if it is not what the pass remembers.
SetAppStatus(p, status) ==
    Goto(IF p.status.apps[p.app] # status THEN "writeAppStatus" ELSE AfterAppStatus(p),
         [p EXCEPT !.status.apps[p.app] = status])

\* The app at hand; the map of apps is visited in no particular order.
Visit(u) == [pass EXCEPT !.app = u, !.todo = @ \ {u}]

\* Mutant: the jobs just created are left out.
CountedIfFound(p) ==
    IF p.job = NoJob THEN p ELSE [p EXCEPT !.found = @ \cup {NameOf(p.wb, p.app)}]

\* Mutant: the jobs of stopped apps are left out.
CountedIfRunning(p) ==
    IF Suspended(p.wb, p.app) THEN p ELSE [p EXCEPT !.found = @ \cup {NameOf(p.wb, p.app)}]

\* foundJobNames grows by the job of the app at hand.
Counted(p) == [p EXCEPT !.found = @ \cup {NameOf(p.wb, p.app)}]

\* initJob refuses the app.
InvalidApp ==
    /\ pc = "apps"
    /\ \E u \in pass.todo :
         /\ pass.wb.apps[u].state = "Invalid"
         /\ SetAppStatus(Visit(u), "Failed")
    /\ UNCHANGED <<api, faults>> /\ InPass

\* A job that does not exist is created unless the app is stopped.
GetJob ==
    /\ pc = "apps"
    /\ \E u \in pass.todo, ok \in BOOLEAN :
         LET name == NameOf(pass.wb, u)
             job == Seen.jobs[name]
         IN /\ pass.wb.apps[u].state \in {"Running", "Stopped"}
            /\ Reads("getJob", ok)
            /\ CASE ~ok -> Return(TRUE)
                 [] ok /\ job = NoJob /\ Suspended(pass.wb, u) ->
                      Goto("apps", Missing(Visit(u), jobs[name] # NoJob))
                 [] ok /\ job = NoJob /\ ~Suspended(pass.wb, u) -> Goto("createJob", Visit(u))
                 [] OTHER -> SetAppStatus(Counted([Visit(u) EXCEPT !.job = job]), JobStatus(job))
    /\ UNCHANGED api /\ InPass

CreateJob ==
    /\ pc = "createJob"
    /\ LET name == NameOf(pass.wb, pass.app)
       IN \E ok, applied \in BOOLEAN :
            /\ Writes("createJob", jobs[name] = NoJob, ok, applied)
            /\ jobs' = IF applied THEN [jobs EXCEPT ![name] = FreshJob] ELSE jobs
            /\ IF ok THEN Goto("apps", Counted(pass))
                     ELSE Return(TRUE)
    /\ UNCHANGED <<wb, dep, pod, svc>> /\ InPass

WriteAppStatus == WriteStatus("writeAppStatus", AfterAppStatus(pass))

UpdateJob ==
    /\ pc = "updateJob"
    /\ LET name == NameOf(pass.wb, pass.app)
       IN \E ok, applied \in BOOLEAN :
            /\ Writes("updateJob", jobs[name] = pass.job, ok, applied)
            /\ jobs' = IF applied
                       THEN [jobs EXCEPT ![name] =
                               [pass.job EXCEPT !.suspend = Suspended(pass.wb, pass.app)]]
                       ELSE jobs
            /\ IF ok THEN Goto("apps", pass) ELSE Return(TRUE)
    /\ UNCHANGED <<wb, dep, pod, svc>> /\ InPass

\* The sweep: jobs listed under the workbench's label that no app accounts for.
ListExtraJobs ==
    /\ pc = "apps" /\ pass.todo = {}
    /\ \E ok \in BOOLEAN :
         LET extra == {n \in JobNames : Seen.jobs[n] # NoJob} \ pass.found
         IN /\ Reads("listJobs", ok)
            /\ IF ok /\ extra # {}
               THEN Goto("deleteJob", [pass EXCEPT !.doomed = extra])
               ELSE Return(~ok)
    /\ UNCHANGED api /\ InPass

DeleteExtraJob ==
    /\ pc = "deleteJob"
    /\ \E n \in pass.doomed, ok, applied \in BOOLEAN :
         /\ Writes("deleteJob", jobs[n] # NoJob, ok, applied)
         /\ jobs' = IF applied THEN [jobs EXCEPT ![n] = NoJob] ELSE jobs
         /\ IF ok /\ pass.doomed # {n}
            THEN Goto("deleteJob", [pass EXCEPT !.doomed = @ \ {n}])
            ELSE Return(~ok)
    /\ UNCHANGED <<wb, dep, pod, svc>> /\ InPass

-----------------------------------------------------------------------------
(* Reconcile: the deletion of the workbench. *)

ListJobs ==
    /\ pc = "listJobs"
    /\ \E ok \in BOOLEAN :
         /\ Reads("listJobs", ok)
         /\ CASE ~ok -> Return(TRUE)
              [] ok /\ \E n \in JobNames : Seen.jobs[n] # NoJob -> Goto("deleteJobs", pass)
              [] OTHER -> Goto("listDeployments", Missing(pass, Children # {}))
    /\ UNCHANGED api /\ InPass

\* DeleteAllOf acts on what exists, not on what was listed; a call that fails
\* may have deleted some of the jobs.  The pass ends and is queued again.
DeleteJobs ==
    /\ pc = "deleteJobs"
    /\ \E ok, applied \in BOOLEAN, kept \in SUBSET Children :
         /\ Writes("deleteJobs", TRUE, ok, applied)
         /\ ok => kept = {}
         /\ jobs' = [n \in JobNames |->
                       IF applied /\ n \notin kept THEN NoJob ELSE jobs[n]]
         /\ Return(TRUE)
    /\ UNCHANGED <<wb, dep, pod, svc>> /\ InPass

ListDeployments ==
    /\ pc = "listDeployments"
    /\ \E ok \in BOOLEAN :
         /\ Reads("listDeployments", ok)
         /\ CASE ~ok -> Return(TRUE)
              [] ok /\ Seen.dep # NoDeployment -> Goto("deleteDeployments", pass)
              [] OTHER -> Goto("removeFinalizer", Missing(pass, dep # NoDeployment))
    /\ UNCHANGED api /\ InPass

DeleteDeployments ==
    /\ pc = "deleteDeployments"
    /\ \E ok, applied \in BOOLEAN :
         /\ Writes("deleteDeployments", TRUE, ok, applied)
         /\ dep' = IF applied THEN NoDeployment ELSE dep
         /\ Return(TRUE)
    /\ UNCHANGED <<wb, pod, svc, jobs>> /\ InPass

\* Mutant: a failure to remove the finalizer is only logged.
RemoveFinalizerOnce ==
    /\ pc = "removeFinalizer"
    /\ \E ok, applied \in BOOLEAN :
         /\ Writes("removeFinalizer", wb = pass.wb, ok, applied)
         /\ wb' = IF applied THEN [pass.wb EXCEPT !.finalizer = FALSE, !.phase = "gone"] ELSE wb
         /\ Return(FALSE)
    /\ UNCHANGED <<dep, pod, svc, jobs>> /\ InPass

RemoveFinalizer ==
    /\ pc = "removeFinalizer"
    /\ \E ok, applied \in BOOLEAN :
         /\ Writes("removeFinalizer", wb = pass.wb, ok, applied)
         /\ wb' = IF applied THEN [pass.wb EXCEPT !.finalizer = FALSE, !.phase = "gone"] ELSE wb
         /\ Return(~ok)
    /\ UNCHANGED <<dep, pod, svc, jobs>> /\ InPass

\* The operator's process dies and another takes over: its informers list the
\* objects afresh, and whatever they find puts the workbench in the workqueue.
Crash ==
    /\ Fails("crash")
    /\ pc' = "idle" /\ pass' = NoPass
    /\ queued' = (wb.phase # "gone" \/ HasChildren)
    /\ cache' = Now /\ news' = {}
    /\ UNCHANGED <<api, edits, disruptions>>

Reconcile ==
    \/ BeginPass \/ AddFinalizer
    \/ GetDeployment \/ CreateDeployment \/ ListPods \/ WriteServerStatus
    \/ UpdateDeployment \/ GetService \/ CreateService
    \/ InvalidApp \/ GetJob \/ CreateJob \/ WriteAppStatus \/ UpdateJob
    \/ ListExtraJobs \/ DeleteExtraJob
    \/ ListJobs \/ DeleteJobs \/ ListDeployments \/ DeleteDeployments
    \/ RemoveFinalizer

-----------------------------------------------------------------------------
(* The informers.  SetupWithManager watches the workbench and the objects it *)
(* owns, not the pods: the pods' informer only fills the cache.              *)

\* Without CachedReads nothing reads the cache, which is then left as it was.
Deliver(kind, current) ==
    /\ kind \in news
    /\ news' = news \ {kind}
    /\ cache' = IF CachedReads THEN current ELSE cache
    /\ UNCHANGED <<api, pc, pass, budgets>>

\* Mutant: the jobs are not among the objects watched (no Owns(&batchv1.Job{})).
DeliverJobsUnwatched == Deliver("jobs", [cache EXCEPT !.jobs = jobs]) /\ UNCHANGED queued

DeliverWorkbench  == Deliver("wb", [cache EXCEPT !.wb = wb])       /\ queued' = TRUE
DeliverDeployment == Deliver("dep", [cache EXCEPT !.dep = dep])    /\ queued' = TRUE
DeliverService    == Deliver("svc", [cache EXCEPT !.svc = svc])    /\ queued' = TRUE
DeliverJobs       == Deliver("jobs", [cache EXCEPT !.jobs = jobs]) /\ queued' = TRUE
DeliverPods       == Deliver("pod", [cache EXCEPT !.pod = pod])    /\ UNCHANGED queued

\* Every ten hours (the default of controller-runtime) all that is cached counts
\* as updated.  Nothing below waits for it.
Resync ==
    /\ wb.phase # "gone" \/ HasChildren
    /\ queued' = TRUE
    /\ UNCHANGED <<api, cache, news, pc, pass, budgets>>

-----------------------------------------------------------------------------
(* The user. *)

Edits(w) ==
    /\ edits < MaxEdits
    /\ edits' = edits + 1
    /\ wb.phase # "gone"
    /\ wb' = w
    /\ w # wb
    /\ UNCHANGED <<dep, pod, svc, jobs, cache, worker, faults, disruptions>>
    /\ Notify

EditApp ==
    \E u \in Uids, a \in App : Edits([wb EXCEPT !.apps[u] = a])

EditVersion ==
    \E v \in Versions : Edits([wb EXCEPT !.version = v])

\* An object with a finalizer is marked; one without disappears.
DeleteWorkbench ==
    /\ wb.phase = "live"
    /\ wb' = [wb EXCEPT !.phase = IF wb.finalizer THEN "terminating" ELSE "gone"]
    /\ UNCHANGED <<dep, pod, svc, jobs, cache, worker, budgets>>
    /\ Notify

-----------------------------------------------------------------------------
(* The cluster's controllers. *)

ByCluster == Notify /\ UNCHANGED <<cache, worker, edits, faults>>

Disrupts ==
    /\ disruptions < MaxDisruptions
    /\ disruptions' = disruptions + 1

SyncDeployment ==
    /\ dep # NoDeployment
    /\ dep' = [dep EXCEPT !.available = pod]
    /\ dep' # dep
    /\ UNCHANGED <<wb, pod, svc, jobs, disruptions>> /\ ByCluster

PodBecomesReady ==
    /\ dep # NoDeployment /\ ~pod
    /\ pod' = TRUE
    /\ UNCHANGED <<wb, dep, svc, jobs, disruptions>> /\ ByCluster

\* The pod of a deleted deployment goes after it.
CollectPod ==
    /\ dep = NoDeployment /\ pod
    /\ pod' = FALSE
    /\ UNCHANGED <<wb, dep, svc, jobs, disruptions>> /\ ByCluster

PodFails ==
    /\ pod /\ Disrupts
    /\ pod' = FALSE
    /\ UNCHANGED <<wb, dep, svc, jobs>> /\ ByCluster

LoseDeployment ==
    /\ dep # NoDeployment /\ Disrupts
    /\ dep' = NoDeployment
    /\ UNCHANGED <<wb, pod, svc, jobs>> /\ ByCluster

JobMoves(n, job) ==
    /\ jobs' = [jobs EXCEPT ![n] = job]
    /\ UNCHANGED <<wb, dep, pod, svc>> /\ ByCluster

\* The job controller follows the suspension, and the pod its containers.
JobStarts(n) ==
    /\ jobs[n].phase = "idle" /\ ~jobs[n].suspend
    /\ JobMoves(n, [jobs[n] EXCEPT !.phase = "active"])
    /\ UNCHANGED disruptions

JobHalts(n) ==
    /\ jobs[n].phase = "active" /\ jobs[n].suspend
    /\ JobMoves(n, [jobs[n] EXCEPT !.phase = "idle"])
    /\ UNCHANGED disruptions

\* The user quits the application.
JobEnds(n) ==
    /\ jobs[n].phase = "active" /\ Disrupts
    /\ JobMoves(n, [jobs[n] EXCEPT !.phase = "done"])

\* TTLSecondsAfterFinished has passed.
JobExpires(n) ==
    /\ jobs[n].phase = "done" /\ Disrupts
    /\ JobMoves(n, NoJob)

\* What a gone workbench owned is collected, one object at a time.
CollectGarbage ==
    /\ wb.phase = "gone"
    /\ \/ dep # NoDeployment /\ dep' = NoDeployment /\ UNCHANGED <<svc, jobs>>
       \/ svc /\ svc' = FALSE /\ UNCHANGED <<dep, jobs>>
       \/ \E n \in Children : jobs' = [jobs EXCEPT ![n] = NoJob] /\ UNCHANGED <<dep, svc>>
    /\ UNCHANGED <<wb, pod, disruptions>> /\ ByCluster

-----------------------------------------------------------------------------
\* A workbench has just been created, and the operator has been told.
Init ==
    /\ \E v \in Versions, a \in [Uids -> App] :
         wb = [phase |-> "live", finalizer |-> FALSE, version |-> v,
               apps |-> a, status |-> NoStatus]
    /\ dep = NoDeployment /\ pod = FALSE /\ svc = FALSE
    /\ jobs = [n \in JobNames |-> NoJob]
    /\ cache = Now /\ news = {}
    /\ queued = TRUE /\ pc = "idle" /\ pass = NoPass
    /\ edits = 0 /\ faults = 0 /\ disruptions = 0

Informers ==
    \/ DeliverWorkbench \/ DeliverDeployment \/ DeliverService
    \/ DeliverJobs \/ DeliverPods \/ Resync

User == EditApp \/ EditVersion \/ DeleteWorkbench

Cluster ==
    \/ SyncDeployment \/ PodBecomesReady \/ CollectPod \/ PodFails
    \/ LoseDeployment \/ CollectGarbage
    \/ \E n \in JobNames :
         JobStarts(n) \/ JobHalts(n) \/ JobEnds(n) \/ JobExpires(n)

Next == Reconcile \/ Crash \/ Informers \/ User \/ Cluster

Spec == Init /\ [][Next]_vars

\* The worker takes what is queued and its calls return; informers deliver;
\* the cluster's controllers act on what they see.  Users, crashes, disruptions
\* and the end of a job owe nothing.
Fairness ==
    /\ WF_vars(Reconcile)
    /\ WF_vars(DeliverWorkbench) /\ WF_vars(DeliverDeployment)
    /\ WF_vars(DeliverService) /\ WF_vars(DeliverJobs) /\ WF_vars(DeliverPods)
    /\ WF_vars(SyncDeployment) /\ WF_vars(CollectPod) /\ WF_vars(CollectGarbage)
    /\ \A n \in JobNames : WF_vars(JobStarts(n) \/ JobHalts(n))

\* The server's pod becomes ready again whenever it is not.
FairSpec == Spec /\ Fairness /\ WF_vars(PodBecomesReady)

-----------------------------------------------------------------------------
(* Safety. *)

\* A running pass has its memory and an idle worker none; a step of the body of
\* the loop has its app.
WorkerTypeOK ==
    /\ queued \in BOOLEAN
    /\ pc \in Steps
    /\ IF pc = "idle" THEN pass = NoPass ELSE pass \in Pass
    /\ pc \in {"createJob", "writeAppStatus", "updateJob"} => pass.app \in Uids

\* Every variable has the shape it is declared with.
TypeOK ==
    /\ Now \in Objects
    /\ cache \in Objects
    /\ news \subseteq Kinds
    /\ WorkerTypeOK
    /\ edits \in 0 .. MaxEdits
    /\ faults \in 0 .. MaxFaults
    /\ disruptions \in 0 .. MaxDisruptions

\* As long as the workbench exists, its deployment, service and jobs exist only
\* under its finalizer: Reconcile stores the finalizer before it creates the
\* first of them, and removes it last, so that a deletion always passes through
\* deleteExternalResources.
FinalizerFirst == wb.phase # "gone" /\ HasChildren => wb.finalizer

\* A step of the running pass.
PassMoves == <<pc, pass>> # <<pc', pass'>>

\* A child appears.
Creates == \/ dep = NoDeployment /\ dep' # NoDeployment
           \/ ~svc /\ svc'
           \/ \E n \in JobNames : jobs[n] = NoJob /\ jobs'[n] # NoJob

\* Once the workbench is gone nothing is created on its behalf, however stale
\* the cache a pass reads and whatever calls failed before.
NoResurrection == [][wb.phase = "gone" => ~Creates]_vars

\* The lists of the teardown come from the cache (findJobs, deleteDeployments), and
\* the finalizer goes on their word.
TeardownMissed ==
    pc \in {"listDeployments", "deleteDeployments", "removeFinalizer"} /\ pass.missed

\* When a workbench goes it leaves a job or a deployment to the garbage collector
\* only if a list of that very pass missed it: no failed deletion, no crash, no
\* edit and no pass that still ran on the live workbench leaves one.
NothingLeftBehind ==
    [][wb.phase # "gone" /\ wb'.phase = "gone" /\ ~TeardownMissed =>
          dep = NoDeployment /\ Children = {}]_vars

\* The deletion of a workbench removes the applications first, then the server
\* (deleteExternalResources): its deployment is deleted once no job is left, or
\* none that the list of the jobs did not miss.
AppsBeforeServer ==
    [][PassMoves /\ pc = "deleteDeployments" /\ dep # dep' /\ ~TeardownMissed =>
          Children = {}]_vars

\* The sweep at the end of a pass spares the job of every app the pass wants
\* running, those it has just created included (foundJobNames).
SweepSparesRunningApps ==
    [][\A n \in Children : PassMoves /\ pc = "deleteJob" /\ jobs'[n] = NoJob =>
          \A u \in Uids : pass.wb.apps[u].state = "Running" => NameOf(pass.wb, u) # n]_vars

\* A job whose app is stopped, not withdrawn, is suspended by the pass and not
\* deleted by its sweep, so that the app can be started again where it was, unless
\* createJob missed a job in the cache that findJobs then found there.
StopSuspends ==
    [][\A n \in Children : PassMoves /\ pc = "deleteJob" /\ jobs'[n] = NoJob /\ ~pass.missed =>
          \A u \in Uids : pass.wb.apps[u].state = "Stopped" => NameOf(pass.wb, u) # n]_vars

\* What the operator writes to the workbench leaves the spec as the user wrote
\* it last, although it writes whole objects read earlier, maybe from a stale
\* cache.
SpecIsTheUsers ==
    [][PassMoves => wb'.version = wb.version /\ wb'.apps = wb.apps]_vars

-----------------------------------------------------------------------------
(* What is so when nothing is left to do. *)

\* No pass runs or is due, and no event is on its way: all stays as it is until
\* the cluster or the user does something, or the next Resync.
Quiet == pc = "idle" /\ ~queued /\ news = {}

\* The cluster is what the spec asks for.
JobAsWanted(u) ==
    LET job == jobs[NameOf(wb, u)]
    IN CASE wb.apps[u].state = "Running" -> job # NoJob /\ ~job.suspend
         [] wb.apps[u].state = "Stopped" -> job = NoJob \/ job.suspend
         [] OTHER -> TRUE

Accounted == {NameOf(wb, u) : u \in {v \in Uids : wb.apps[v].state \in {"Running", "Stopped"}}}

Converged ==
    /\ dep.image = wb.version
    /\ svc
    /\ \A u \in Uids : JobAsWanted(u)
    /\ Children \subseteq Accounted

\* The status of an app agrees with its job, and a refused app's status with its
\* refusal.
AppStatusAccurate(u) ==
    CASE wb.apps[u].state = "Invalid" -> wb.status.apps[u] = "Failed"
      [] wb.apps[u].state = "Running" -> wb.status.apps[u] = JobStatus(jobs[NameOf(wb, u)])
      [] OTHER -> TRUE

\* No wakeup is lost: whatever calls conflicted, failed or read a stale cache, it
\* comes to rest only with the cluster as the spec asks, or with a deleted
\* workbench gone (what is left of it is garbage, collected as such).  Reconcile
\* logs and forgets a failed read or creation of the deployment: the runs that
\* pass leave out the read, and the loss of a deployment before a creation.
RestsConverged == Quiet => (wb.phase = "live" /\ Converged) \/ wb.phase = "gone"

\* A workbench whose server is not ready is looked at again: it rests only after a
\* pass that found the server ready has said so in the status.
RestsOpen == Quiet /\ wb.phase = "live" => wb.status.ready

\* "Status informs about the real state of the app": it rests only with the
\* status of every app up to date.
RestsAccurate == Quiet /\ wb.phase = "live" => \A u \in Uids : AppStatusAccurate(u)

-----------------------------------------------------------------------------
(* Liveness. *)

\* Once the user and the disruptions stop, a workbench that is not deleted
\* comes to what its spec asks for and stays there, through conflicts, stale
\* reads, failed calls and restarts.
Convergence == <>[](wb.phase = "live" => Converged)

\* The status of every app comes to agree with its job.
StatusConvergence ==
    <>[](wb.phase = "live" => \A u \in Uids : AppStatusAccurate(u))

\* The status comes to agree with the pod.  The pods are not watched, and only a
\* pass that finds the server not ready is queued again to look.
ReadyAccurate == <>[](wb.phase = "live" => wb.status.ready = pod)

\* A deleted workbench goes, and everything it owned with it.
DeletionCompletes == <>[](wb.phase # "live" => wb.phase = "gone" /\ ~HasChildren)

-----------------------------------------------------------------------------
(* The life of the workbench. *)

Lifecycle == INSTANCE WorkbenchLifecycle WITH
    Apps <- JobNames, informed <- ~TeardownMissed,
    phase <- wb.phase, guarded <- wb.finalizer,
    server <- (dep # NoDeployment), service <- svc, running <- Children

\* Reconcile, and whatever happens around it, keeps the promises made of the life
\* of a workbench: children appear only under its finalizer, a deletion is never
\* undone, and the finalizer goes after the last job and deployment, or after the
\* last that the lists of that pass did not miss.
KeepsItsPromises == Lifecycle!Spec

-----------------------------------------------------------------------------
(* The inductive invariant. *)

\* A workbench read as live and finalized still exists under its finalizer: only
\* a pass that read it as terminating removes the finalizer.
SeenFinalizer ==
    Seen.wb.phase = "live" /\ Seen.wb.finalizer => wb.phase # "gone" /\ wb.finalizer

\* A workbench is never read as deleted before it is.
SeenDeletion == Seen.wb.phase # "live" => wb.phase # "live"

\* A pass past its finalizer runs on a workbench that has it; a pass that tears
\* down has seen the deletion, and the finalizer it is to remove.
PassOfLive == pc \in LiveSteps => wb.phase # "gone" /\ wb.finalizer
PassToFinalize == pc = "addFinalizer" => pass.wb.phase = "live"
PassOfDeleted ==
    pc \in TeardownSteps =>
        /\ Seen.wb.phase # "live"
        /\ pass.wb.phase = "terminating" /\ pass.wb.finalizer

IInv ==
    /\ TypeOK
    /\ SeenFinalizer /\ SeenDeletion
    /\ PassOfLive /\ PassToFinalize /\ PassOfDeleted
    /\ FinalizerFirst

\* What a teardown pass found gone, and did not miss, is gone and stays gone.
TeardownOrder ==
    ~TeardownMissed =>
        /\ pc \in {"listDeployments", "deleteDeployments", "removeFinalizer"} => Children = {}
        /\ pc = "removeFinalizer" => dep = NoDeployment

TeardownInv == IInv /\ TeardownOrder

\* An app to run is still to visit, at hand and about to have its job created, or
\* accounted for; no job of one is among the extra jobs.
Wanted(u) == pass.wb.apps[u].state = "Running"
LoopInv ==
    /\ pc \in {"apps", "createJob", "writeAppStatus", "updateJob"} =>
         \A u \in Uids : Wanted(u) =>
            \/ u \in pass.todo
            \/ pc = "createJob" /\ pass.app = u
            \/ NameOf(pass.wb, u) \in pass.found
    /\ pc = "deleteJob" =>
         \A u \in Uids : Wanted(u) => NameOf(pass.wb, u) \notin pass.doomed
-----------------------------------------------------------------------------
(* Why it rests only where it should: the inductive invariant. *)

\* Nothing is to wake the worker: no event of a kind whose delivery queues the
\* workbench.  Every change of these kinds ends that, so that a pass that runs
\* asleep to its end has read the current objects and written nothing.
Asleep == ~queued /\ news \cap (Kinds \ {"pod"}) = {}

\* What has no event on its way is read as it is.
ReadsCurrent == \A k \in Kinds \ news : Seen[k] = Now[k]

\* A deleted workbench that is still there waits for its finalizer.
DeletionWaits == wb.phase = "terminating" => wb.finalizer

PassOnLive == pc \in LiveSteps => pass.wb.phase = "live"
PassOnCurrent == Asleep /\ pc # "idle" => pass.wb = wb

LoopSteps == {"apps", "createJob", "writeAppStatus", "updateJob"}
PastGate == LoopSteps \cup {"deleteJob"}

\* The app is behind the loop, if it is not the one at hand.
Visited(u) == u \notin pass.todo /\ (pc # "apps" => u # pass.app)

\* The jobs of the visited apps are as wanted, what was found is accounted for,
\* and the job at hand is the one read.
AppsSettled ==
    Asleep =>
        /\ pc # "idle" => pass.found \subseteq Accounted
        /\ pc = "apps" => pass.job = NoJob
        /\ pc \in PastGate => svc
        /\ pc \in LoopSteps => \A u \in Uids : Visited(u) => JobAsWanted(u)
        /\ pc \in {"writeAppStatus", "updateJob"} =>
             IF wb.apps[pass.app].state = "Invalid" THEN pass.job = NoJob
             ELSE pass.job # NoJob /\ pass.job = jobs[NameOf(wb, pass.app)]
        /\ pc = "idle" /\ wb.phase # "gone" =>
             /\ wb.phase = "live" /\ svc
             /\ \A u \in Uids : JobAsWanted(u)
             /\ Children \subseteq Accounted

\* The failures of the server's calls are not forgotten, or only that of a
\* creation that was the first.
DeploymentErrorsKept ==
    "getDeployment" \notin Faulty /\ ("createDeployment" \notin Faulty \/ MaxDisruptions = 0)

\* A deployment runs the image of some version.
RunsAnImage == dep.image = Absent => dep = NoDeployment

\* A live workbench that never lost a deployment and has none was never ready.
NeverReady ==
    MaxDisruptions = 0 /\ wb.phase = "live" /\ dep = NoDeployment =>
        /\ ~pod /\ ~Seen.pod /\ ~wb.status.ready /\ ~Seen.wb.status.ready
        /\ pc # "idle" => ~pass.status.ready

\* The deployment is the one read, or it is as wanted, or there is none yet and
\* the gate is closed.
ServerSettled ==
    DeploymentErrorsKept /\ Asleep =>
        /\ pc = "createDeployment" => dep = NoDeployment
        /\ pc \in {"listPods", "writeServerStatus", "updateDeployment"} => dep = pass.dep
        /\ pc \in {"getService", "createService"} =>
             dep.image = wb.version \/ (MaxDisruptions = 0 /\ dep = NoDeployment)
        /\ pc \in PastGate => dep.image = wb.version
        /\ pc = "idle" /\ wb.phase # "gone" => dep.image = wb.version

\* The readiness in memory is the one stored, and it opened the gate.
ReadySettled ==
    "writeServerStatus" \notin Faulty /\ Asleep =>
        /\ pc \notin {"idle", "writeServerStatus"} => pass.status.ready = wb.status.ready
        /\ pc \in PastGate => wb.status.ready
        /\ pc = "idle" /\ wb.phase # "gone" => wb.status.ready

\* The statuses in memory are those stored, and those of the visited apps agree
\* with their jobs.
StatusSettled ==
    "writeAppStatus" \notin Faulty /\ Asleep =>
        /\ pc \notin {"idle", "writeAppStatus"} => pass.status.apps = wb.status.apps
        /\ pc \in LoopSteps => \A u \in Uids : Visited(u) => AppStatusAccurate(u)
        /\ pc = "writeAppStatus" =>
             pass.status.apps[pass.app] = IF wb.apps[pass.app].state = "Invalid"
                                          THEN "Failed" ELSE JobStatus(pass.job)
        /\ pc = "updateJob" => AppStatusAccurate(pass.app)
        /\ pc = "idle" /\ wb.phase # "gone" => \A u \in Uids : AppStatusAccurate(u)

RestInv ==
    /\ ReadsCurrent /\ DeletionWaits /\ PassOnLive /\ PassOnCurrent
    /\ AppsSettled
    /\ RunsAnImage /\ NeverReady /\ ServerSettled
    /\ ReadySettled /\ StatusSettled
=============================================================================
