------------------------- MODULE WorkbenchRestProofs -------------------------
(***************************************************************************)
(* Theorems of WorkbenchReconciler about where it comes to rest: RestInv   *)
(* is inductive, for every value of the constants.                         *)
(*                                                                         *)
(* The argument: while nothing is to wake the worker (Asleep), a pass has  *)
(* begun on the current workbench and has changed nothing, for any change  *)
(* of what is watched is an event that is still to be delivered.  So what  *)
(* the pass has read is so still, and each call that does not end awake    *)
(* adds what it has found to what is settled.                              *)
(***************************************************************************)
EXTENDS WorkbenchReconcilerProofs

-----------------------------------------------------------------------------
(* Changes, events and reads. *)

\* What is settled while the worker is asleep.
Settled == PassOnCurrent /\ AppsSettled /\ ServerSettled /\ ReadySettled /\ StatusSettled

\* A change of what is watched is an event, and wakes the worker.
LEMMA StillAsleep ==
    ASSUME TypeOK, Notify, queued => queued', Asleep'
    PROVE  Asleep /\ UNCHANGED <<wb, dep, svc, jobs>>
<1>1. news \subseteq news' /\ \A k \in Kinds : Now'[k] # Now[k] => k \in news'
  BY DEF Notify
<1>2. {"wb", "dep", "svc", "jobs"} \subseteq Kinds \ {"pod"}
  BY DEF Kinds
<1>3. \A k \in {"wb", "dep", "svc", "jobs"} : k \notin news'
  BY <1>2 DEF Asleep
<1> QED
  BY <1>1, <1>2, <1>3 DEF Asleep, Now

\* A worker that is awake owes nothing.
LEMMA AwakeSettles == ~Asleep' => Settled'
BY DEF Settled, PassOnCurrent, AppsSettled, ServerSettled, ReadySettled, StatusSettled

\* What the worker, once asleep, reads of the watched objects is current.
LEMMA AsleepReads ==
    ASSUME ReadsCurrent, Asleep
    PROVE  Seen.wb = wb /\ Seen.dep = dep /\ Seen.svc = svc /\ Seen.jobs = jobs
<1>1. {"wb", "dep", "svc", "jobs"} \subseteq Kinds \ news
  BY DEF Kinds, Asleep
<1> QED
  BY <1>1 DEF ReadsCurrent, Now

\* What is said of the apps depends on the workbench and its jobs.
LEMMA AppsFrame ==
    ASSUME UNCHANGED <<wb, jobs>>
    PROVE  /\ Accounted' = Accounted /\ Children' = Children
           /\ \A u : NameOf(wb, u)' = NameOf(wb, u)
           /\ \A u : JobAsWanted(u)' <=> JobAsWanted(u)
           /\ \A u : AppStatusAccurate(u)' <=> AppStatusAccurate(u)
BY DEF Accounted, Children, JobAsWanted, AppStatusAccurate, NameOf

\* A step that leaves the worker and what is watched alone leaves what is settled.
LEMMA SettledFrame ==
    ASSUME Settled, Asleep' => Asleep, UNCHANGED <<wb, dep, svc, jobs, pc, pass>>
    PROVE  Settled'
<1>1. \A u \in Uids : Visited(u)' <=> Visited(u)
  BY DEF Visited
<1> SUFFICES ASSUME Asleep' PROVE Settled'
  BY AwakeSettles
<1>2. PassOnCurrent' /\ ServerSettled' /\ ReadySettled'
  BY DEF Settled, PassOnCurrent, ServerSettled, ReadySettled
<1>3. AppsSettled'
  BY <1>1, AppsFrame DEF Settled, AppsSettled
<1>4. StatusSettled'
  BY <1>1, AppsFrame DEF Settled, StatusSettled
<1> QED
  BY <1>2, <1>3, <1>4 DEF Settled
-----------------------------------------------------------------------------
(* The parts that do not depend on the worker's being asleep. *)

\* Whatever changes an object is followed by its event: only the informers and a
\* restart change the cache.
LEMMA ChangesAreEvents ==
    ASSUME [Next]_vars, ~Informers, ~Crash
    PROVE  (Notify \/ UNCHANGED <<api, news>>) /\ cache' = cache
<1> USE DEF InPass
<1>1. CASE Reconcile
  <2>1. CASE \/ BeginPass \/ AddFinalizer \/ GetDeployment \/ CreateDeployment \/ ListPods
             \/ WriteServerStatus \/ UpdateDeployment \/ GetService \/ CreateService
    BY <2>1 DEF BeginPass, AddFinalizer, GetDeployment, CreateDeployment, ListPods,
       WriteServerStatus, WriteStatus, UpdateDeployment, GetService, CreateService
  <2>2. CASE \/ InvalidApp \/ GetJob \/ CreateJob \/ WriteAppStatus \/ UpdateJob
             \/ ListExtraJobs \/ DeleteExtraJob
    BY <2>2 DEF InvalidApp, GetJob, CreateJob, WriteAppStatus, WriteStatus, UpdateJob,
       ListExtraJobs, DeleteExtraJob
  <2>3. CASE \/ ListJobs \/ DeleteJobs \/ ListDeployments \/ DeleteDeployments \/ RemoveFinalizer
    BY <2>3 DEF ListJobs, DeleteJobs, ListDeployments, DeleteDeployments, RemoveFinalizer
  <2> QED
    BY <1>1, <2>1, <2>2, <2>3 DEF Reconcile
<1>2. CASE User
  BY <1>2 DEF User, EditApp, EditVersion, Edits, DeleteWorkbench
<1>3. CASE Cluster
  BY <1>3 DEF Cluster, ByCluster, SyncDeployment, PodBecomesReady, CollectPod, PodFails,
     LoseDeployment, CollectGarbage, JobStarts, JobHalts, JobEnds, JobExpires, JobMoves
<1>4. CASE UNCHANGED vars
  BY <1>4 DEF vars
<1> QED
  BY <1>1, <1>2, <1>3, <1>4 DEF Next

\* A delivered object is read as it is.
LEMMA DeliverReads ==
    ASSUME TypeOK, ReadsCurrent, Informers
    PROVE  ReadsCurrent'
<1>1. cache \in Objects /\ Now' = Now
  BY DEF TypeOK, Informers, DeliverWorkbench, DeliverDeployment, DeliverService, DeliverJobs,
     DeliverPods, Deliver, Resync, Now, api
<1>2. CASE Resync
  BY <1>1, <1>2 DEF Resync, ReadsCurrent, Seen
<1>3. ASSUME NEW kind \in Kinds, news' = news \ {kind},
             cache' = IF CachedReads THEN [cache EXCEPT ![kind] = Now[kind]] ELSE cache
      PROVE  ReadsCurrent'
  BY <1>1, <1>3 DEF ReadsCurrent, Seen, Objects, Kinds
<1>4. /\ [cache EXCEPT !.wb = wb] = [cache EXCEPT !["wb"] = Now["wb"]]
      /\ [cache EXCEPT !.dep = dep] = [cache EXCEPT !["dep"] = Now["dep"]]
      /\ [cache EXCEPT !.svc = svc] = [cache EXCEPT !["svc"] = Now["svc"]]
      /\ [cache EXCEPT !.jobs = jobs] = [cache EXCEPT !["jobs"] = Now["jobs"]]
      /\ [cache EXCEPT !.pod = pod] = [cache EXCEPT !["pod"] = Now["pod"]]
  BY DEF Now
<1>5. CASE DeliverWorkbench
  BY <1>3, <1>4, <1>5 DEF DeliverWorkbench, Deliver, Kinds
<1>6. CASE DeliverDeployment
  BY <1>3, <1>4, <1>6 DEF DeliverDeployment, Deliver, Kinds
<1>7. CASE DeliverService
  BY <1>3, <1>4, <1>7 DEF DeliverService, Deliver, Kinds
<1>8. CASE DeliverJobs
  BY <1>3, <1>4, <1>8 DEF DeliverJobs, Deliver, Kinds
<1>9. CASE DeliverPods
  BY <1>3, <1>4, <1>9 DEF DeliverPods, Deliver, Kinds
<1> QED
  BY <1>2, <1>5, <1>6, <1>7, <1>8, <1>9 DEF Informers

\* What has no event on its way is read as it is, after every step.
LEMMA ReadsCurrentStep == TypeOK /\ ReadsCurrent /\ [Next]_vars => ReadsCurrent'
<1> SUFFICES ASSUME TypeOK, ReadsCurrent, [Next]_vars PROVE ReadsCurrent'
  OBVIOUS
<1>1. CASE Informers
  BY <1>1, DeliverReads
<1>2. CASE Crash
  BY <1>2 DEF Crash, ReadsCurrent, Seen, Now, api
<1>3. CASE ~Informers /\ ~Crash
  <2>1. cache' = cache /\ \A k \in Kinds \ news' : k \notin news /\ Now'[k] = Now[k]
    BY <1>3, ChangesAreEvents DEF Notify, Now, api
  <2> QED
    BY <2>1 DEF ReadsCurrent, Seen
<1> QED
  BY <1>1, <1>2, <1>3

-----------------------------------------------------------------------------
(* What the calls in the loop over the apps leave in memory. *)

\* Noting the status of the app at hand: the memory of the pass, and the next call.
LEMMA SetAppStatusOutcome ==
    ASSUME NEW p \in Pass, p.app \in Uids, NEW status, SetAppStatus(p, status)
    PROVE  /\ pass'.wb = p.wb /\ pass'.todo = p.todo /\ pass'.found = p.found
           /\ pass'.status.ready = p.status.ready
           /\ pass'.status.apps = [p.status.apps EXCEPT ![p.app] = status]
           /\ UNCHANGED queued
           /\ pc' \in {"apps", "writeAppStatus", "updateJob"}
           /\ pc' # "apps" => pass'.app = p.app /\ pass'.job = p.job
           /\ pc' # "writeAppStatus" => p.status.apps[p.app] = status
           /\ pc' = "apps" => p.job = NoJob \/ p.job.suspend = Suspended(p.wb, p.app)
<1> DEFINE q == [p EXCEPT !.status.apps[p.app] = status]
<1>1. /\ q.wb = p.wb /\ q.todo = p.todo /\ q.found = p.found /\ q.app = p.app /\ q.job = p.job
      /\ q.status.ready = p.status.ready
      /\ q.status.apps = [p.status.apps EXCEPT ![p.app] = status]
  BY DEF Pass, Status
<1>2. LET r == [q EXCEPT !.app = "none", !.job = NoJob]
      IN r.wb = q.wb /\ r.todo = q.todo /\ r.found = q.found /\ r.status = q.status
  BY DEF Pass
<1> HIDE DEF q
<1>3. Goto(IF p.status.apps[p.app] # status THEN "writeAppStatus" ELSE AfterAppStatus(p), q)
  BY DEF SetAppStatus, q
<1>4. AfterAppStatus(p) = IF p.job # NoJob /\ p.job.suspend # Suspended(p.wb, p.app)
                          THEN "updateJob" ELSE "apps"
  BY DEF AfterAppStatus
<1> QED
  BY <1>1, <1>2, <1>3, <1>4 DEF Goto

\* A refused app.
LEMMA InvalidAppOutcome ==
    ASSUME TypeOK, InvalidApp
    PROVE  \E u \in pass.todo :
             /\ u \in Uids /\ pass.wb.apps[u].state = "Invalid"
             /\ Visit(u) \in Pass /\ Visit(u).app = u
             /\ Visit(u).wb = pass.wb /\ Visit(u).todo = pass.todo \ {u}
             /\ Visit(u).found = pass.found /\ Visit(u).status = pass.status
             /\ Visit(u).job = pass.job
             /\ SetAppStatus(Visit(u), "Failed")
<1>1. pass \in Pass
  BY DEF InvalidApp, TypeOK, WorkerTypeOK
<1>2. PICK u \in pass.todo : pass.wb.apps[u].state = "Invalid" /\ SetAppStatus(Visit(u), "Failed")
  BY DEF InvalidApp
<1>3. u \in Uids /\ Visit(u) \in Pass /\ Visit(u).app = u
  BY <1>1, VisitType
<1>4. /\ Visit(u).wb = pass.wb /\ Visit(u).todo = pass.todo \ {u}
      /\ Visit(u).found = pass.found /\ Visit(u).status = pass.status
      /\ Visit(u).job = pass.job
  BY <1>1 DEF Visit, Pass
<1> QED
  BY <1>2, <1>3, <1>4

\* The app whose job is read, and where the pass goes from there.
LEMMA GetJobOutcome ==
    ASSUME TypeOK, GetJob
    PROVE  \E u \in pass.todo : \E p \in Pass :
             LET name == NameOf(pass.wb, u)
                 job == Seen.jobs[name]
             IN /\ u \in Uids /\ name \in JobNames /\ pass.wb.apps[u].state \in {"Running", "Stopped"}
                /\ p.wb = pass.wb /\ p.app = u /\ p.todo = pass.todo \ {u} /\ p.status = pass.status
                /\ \/ Return(TRUE)
                   \/ /\ job = NoJob /\ pass.wb.apps[u].state = "Stopped"
                      /\ p.found = pass.found /\ Goto("apps", p)
                   \/ p.found = pass.found /\ Goto("createJob", p)
                   \/ /\ job # NoJob /\ p.job = job /\ p.found = pass.found \cup {name}
                      /\ SetAppStatus(p, JobStatus(job))
<1>1. pass \in Pass
  BY DEF GetJob, TypeOK, WorkerTypeOK
<1> DEFINE name(u) == NameOf(pass.wb, u)
           job(u) == Seen.jobs[name(u)]
           found(u) == Counted([Visit(u) EXCEPT !.job = job(u)])
           missing(u) == Missing(Visit(u), jobs[name(u)] # NoJob)
<1>2. PICK u \in pass.todo :
        /\ pass.wb.apps[u].state \in {"Running", "Stopped"}
        /\ \/ Return(TRUE)
           \/ job(u) = NoJob /\ Suspended(pass.wb, u) /\ Goto("apps", missing(u))
           \/ Goto("createJob", Visit(u))
           \/ job(u) # NoJob /\ SetAppStatus(found(u), JobStatus(job(u)))
  BY DEF GetJob
<1>3. u \in Uids /\ Visit(u) \in Pass /\ Visit(u).app = u
  BY <1>1, VisitType
<1>4. name(u) \in JobNames /\ job(u) \in Job
  BY <1>1, <1>3, SeenShape, JobNameType DEF Pass
<1>5. /\ Visit(u).wb = pass.wb /\ Visit(u).todo = pass.todo \ {u}
      /\ Visit(u).found = pass.found /\ Visit(u).status = pass.status
  BY <1>1 DEF Visit, Pass
<1>6. /\ found(u) \in Pass /\ found(u).wb = pass.wb /\ found(u).app = u
      /\ found(u).todo = pass.todo \ {u} /\ found(u).status = pass.status
      /\ found(u).job = job(u) /\ found(u).found = pass.found \cup {name(u)}
  <2> DEFINE v == [Visit(u) EXCEPT !.job = job(u)]
  <2>1. /\ v \in Pass /\ v.wb = pass.wb /\ v.app = u /\ v.todo = pass.todo \ {u}
        /\ v.status = pass.status /\ v.job = job(u) /\ v.found = pass.found
    BY <1>3, <1>4, <1>5 DEF Pass
  <2> HIDE DEF v
  <2>2. Counted(v) = [v EXCEPT !.found = pass.found \cup {name(u)}]
    BY <2>1 DEF Counted
  <2>3. found(u) = Counted(v)
    BY DEF v
  <2> QED
    BY <1>4, <2>1, <2>2, <2>3 DEF Pass
<1>a. /\ missing(u) \in Pass /\ missing(u).wb = pass.wb /\ missing(u).app = u
      /\ missing(u).todo = pass.todo \ {u} /\ missing(u).status = pass.status
      /\ missing(u).found = pass.found
  BY <1>3, <1>5, MissingType
<1> HIDE DEF name, job, found, missing
<1>7. CASE job(u) # NoJob /\ SetAppStatus(found(u), JobStatus(job(u)))
  BY <1>2, <1>3, <1>4, <1>6, <1>7 DEF name, job
<1>8. CASE \/ Return(TRUE)
           \/ job(u) = NoJob /\ Suspended(pass.wb, u) /\ Goto("apps", missing(u))
           \/ Goto("createJob", Visit(u))
  BY <1>2, <1>3, <1>4, <1>5, <1>8, <1>a DEF name, job, Suspended
<1> QED
  BY <1>2, <1>7, <1>8

\* The calls of a live pass keep what it has read of the workbench, but for the
\* status they write, and only the listing of the pods changes the readiness.
LEMMA LiveStepsKeepPass ==
    ASSUME TypeOK, pc' # "idle",
           \/ GetDeployment \/ CreateDeployment \/ ListPods \/ WriteServerStatus
           \/ UpdateDeployment \/ GetService \/ CreateService
           \/ InvalidApp \/ GetJob \/ CreateJob \/ WriteAppStatus \/ UpdateJob
           \/ ListExtraJobs \/ DeleteExtraJob
    PROVE  /\ pass'.wb.phase = pass.wb.phase
           /\ ListPods \/ pass'.status.ready = pass.status.ready
<1> USE DEF Goto, Return
<1>0. ASSUME pc # "idle"
      PROVE  pass \in Pass /\ pass.wb \in Workbench
  BY <1>0 DEF TypeOK, WorkerTypeOK, Pass
<1>1. CASE GetDeployment
  BY <1>0, <1>1 DEF GetDeployment, Pass
<1>2. CASE CreateDeployment
  BY <1>0, <1>2 DEF CreateDeployment, Pass
<1>3. CASE ListPods
  BY <1>0, <1>3 DEF ListPods, AfterStatus, Pass
<1>4. ASSUME pc # "idle", NEW site, NEW next, WriteStatus(site, next)
      PROVE  pass'.wb.phase = pass.wb.phase /\ pass'.status.ready = pass.status.ready
  BY <1>0, <1>4 DEF WriteStatus, Pass, Workbench
<1>5. CASE WriteServerStatus \/ WriteAppStatus
  BY <1>4, <1>5 DEF WriteServerStatus, WriteAppStatus, WriteStatus
<1>6. CASE UpdateDeployment
  BY <1>0, <1>6 DEF UpdateDeployment
<1>7. CASE GetService
  BY <1>0, <1>7 DEF GetService, Gate, Pass
<1>8. CASE CreateService
  <2>1. pass \in Pass /\ (Gate \/ Return(TRUE))
    BY <1>0, <1>8 DEF CreateService
  <2>2. CASE Gate
    BY <2>1, <2>2 DEF Gate, Pass
  <2>3. CASE Return(TRUE)
    BY <2>3
  <2> QED
    BY <2>1, <2>2, <2>3
<1>9. CASE InvalidApp
  BY <1>9, InvalidAppOutcome, SetAppStatusOutcome
<1>10. CASE GetJob
  <2>1. PICK p \in Pass :
          /\ p.wb = pass.wb /\ p.app \in Uids /\ p.status = pass.status
          /\ \/ Return(TRUE) \/ Goto("apps", p) \/ Goto("createJob", p)
             \/ \E status : SetAppStatus(p, status)
    BY <1>10, GetJobOutcome
  <2>2. CASE Return(TRUE)
    BY <2>2
  <2>3. CASE Goto("apps", p) \/ Goto("createJob", p)
    BY <2>1, <2>3 DEF Pass
  <2>4. CASE \E status : SetAppStatus(p, status)
    BY <2>1, <2>4, SetAppStatusOutcome
  <2> QED
    BY <2>1, <2>2, <2>3, <2>4
<1>11. CASE CreateJob
  BY <1>0, <1>11 DEF CreateJob, Counted, Pass
<1>12. CASE UpdateJob
  BY <1>0, <1>12 DEF UpdateJob, Pass
<1>13. CASE ListExtraJobs
  BY <1>0, <1>13 DEF ListExtraJobs, Pass
<1>14. CASE DeleteExtraJob
  BY <1>0, <1>14 DEF DeleteExtraJob, Pass
<1> QED
  BY <1>1, <1>2, <1>3, <1>5, <1>6, <1>7, <1>8, <1>9, <1>10, <1>11, <1>12, <1>13, <1>14

\* The workbench's phase and finalizer, and the memory of a pass, in the steps of
\* everybody else.
LEMMA OutsideMoves ==
    ASSUME TypeOK, Informers \/ User \/ Cluster \/ UNCHANGED vars
    PROVE  /\ UNCHANGED <<pc, pass>>
           /\ queued => queued'
           /\ ~User => wb' = wb
           /\ ~DeleteWorkbench => wb'.phase = wb.phase /\ wb'.finalizer = wb.finalizer
<1>0. wb \in Workbench
  BY ObjectsType
<1>1. CASE Informers
  BY <1>1 DEF Informers, DeliverWorkbench, DeliverDeployment, DeliverService, DeliverJobs,
     DeliverPods, Deliver, Resync, api
<1>2. CASE User
  BY <1>0, <1>2 DEF User, EditApp, EditVersion, Edits, DeleteWorkbench, worker, Workbench
<1>3. CASE Cluster
  BY <1>3 DEF Cluster, ByCluster, SyncDeployment, PodBecomesReady, CollectPod, PodFails,
     LoseDeployment, CollectGarbage, JobStarts, JobHalts, JobEnds, JobExpires, JobMoves, worker
<1>4. CASE UNCHANGED vars
  BY <1>4 DEF vars, api, worker
<1> QED
  BY <1>1, <1>2, <1>3, <1>4

\* A workbench that is deleted and there has its finalizer: only a deletion changes
\* the phase without the finalizer, and it spares those that have one.
LEMMA DeletionWaitsStep == IInv /\ DeletionWaits /\ [Next]_vars => DeletionWaits'
<1> SUFFICES ASSUME IInv, DeletionWaits, [Next]_vars PROVE DeletionWaits'
  OBVIOUS
<1>0. TypeOK /\ wb \in Workbench
  BY ObjectsType DEF IInv
<1>1. CASE wb'.phase = wb.phase /\ wb'.finalizer = wb.finalizer
  BY <1>1 DEF DeletionWaits
<1>2. CASE BeginPass \/ Crash
  BY <1>1, <1>2 DEF BeginPass, Crash, api
<1>3. CASE AddFinalizer \/ RemoveFinalizer
  BY <1>0, <1>1, <1>3 DEF AddFinalizer, RemoveFinalizer, Writes, DeletionWaits, Workbench
<1>4. CASE \/ GetDeployment \/ CreateDeployment \/ ListPods \/ WriteServerStatus
           \/ UpdateDeployment \/ GetService \/ CreateService
           \/ InvalidApp \/ GetJob \/ CreateJob \/ WriteAppStatus \/ UpdateJob
           \/ ListExtraJobs \/ DeleteExtraJob
  BY <1>0, <1>1, <1>4, LiveStepsMove
<1>5. CASE ListJobs \/ DeleteJobs \/ ListDeployments \/ DeleteDeployments
  BY <1>0, <1>1, <1>5, TeardownStepsMove
<1>6. CASE Informers \/ User \/ Cluster \/ UNCHANGED vars
  <2>1. CASE DeleteWorkbench
    BY <1>0, <2>1 DEF DeleteWorkbench, DeletionWaits, Workbench
  <2> QED
    BY <1>0, <1>1, <1>6, <2>1, OutsideMoves
<1> QED
  BY <1>2, <1>3, <1>4, <1>5, <1>6 DEF Next, Reconcile

\* A pass past its finalizer has read a workbench that was live.
LEMMA PassOnLiveStep == IInv /\ PassOnLive /\ [Next]_vars => PassOnLive'
<1> SUFFICES ASSUME IInv, PassOnLive, [Next]_vars, pc' \in LiveSteps
             PROVE  pass'.wb.phase = "live"
  BY DEF PassOnLive
<1>0. TypeOK /\ pc' # "idle" /\ (pc # "idle" => pass \in Pass)
  BY DEF IInv, TypeOK, WorkerTypeOK, LiveSteps, CreateSteps
<1>1. CASE BeginPass
  BY <1>0, <1>1 DEF BeginPass, FirstStep, NewPass, LiveSteps, CreateSteps
<1>2. CASE AddFinalizer
  BY <1>0, <1>2 DEF AddFinalizer, Goto, Return, IInv, PassToFinalize, Pass, Workbench
<1>3. CASE \/ GetDeployment \/ CreateDeployment \/ ListPods \/ WriteServerStatus
           \/ UpdateDeployment \/ GetService \/ CreateService
           \/ InvalidApp \/ GetJob \/ CreateJob \/ WriteAppStatus \/ UpdateJob
           \/ ListExtraJobs \/ DeleteExtraJob
  BY <1>0, <1>3, LiveStepsMove, LiveStepsKeepPass DEF PassOnLive
<1>4. CASE ListJobs \/ DeleteJobs \/ ListDeployments \/ DeleteDeployments
  BY <1>0, <1>4, TeardownStepsMove DEF TeardownSteps, LiveSteps, CreateSteps
<1>5. CASE RemoveFinalizer \/ Crash
  BY <1>0, <1>5 DEF RemoveFinalizer, Crash, Return
<1>6. CASE Informers \/ User \/ Cluster \/ UNCHANGED vars
  BY <1>0, <1>6, OutsideMoves DEF PassOnLive
<1> QED
  BY <1>1, <1>2, <1>3, <1>4, <1>5, <1>6 DEF Next, Reconcile

\* Who changes the deployment.
LEMMA DeploymentMoves ==
    ASSUME [Next]_vars, dep' # dep
    PROVE  \/ CreateDeployment \/ UpdateDeployment \/ DeleteDeployments
           \/ SyncDeployment \/ LoseDeployment \/ CollectGarbage
BY DEF Next, Reconcile, BeginPass, AddFinalizer, GetDeployment,
   ListPods, WriteServerStatus, GetService, CreateService, InvalidApp,
   GetJob, CreateJob, WriteAppStatus, WriteStatus, UpdateJob, ListExtraJobs, DeleteExtraJob,
   ListJobs, DeleteJobs, ListDeployments, RemoveFinalizer, Crash,
   Informers, DeliverWorkbench, DeliverDeployment, DeliverService, DeliverJobs,
   DeliverPods, Deliver, Resync, User, EditApp, EditVersion, Edits, DeleteWorkbench,
   Cluster, PodBecomesReady, CollectPod, PodFails,
   JobStarts, JobHalts, JobEnds, JobExpires, JobMoves, api, vars

\* Who gives the server a pod that is ready.
LEMMA PodMoves == ASSUME [Next]_vars, ~PodBecomesReady, ~pod PROVE ~pod'
BY DEF Next, Reconcile, BeginPass, AddFinalizer, GetDeployment, CreateDeployment,
   ListPods, WriteServerStatus, UpdateDeployment, GetService, CreateService, InvalidApp,
   GetJob, CreateJob, WriteAppStatus, WriteStatus, UpdateJob, ListExtraJobs, DeleteExtraJob,
   ListJobs, DeleteJobs, ListDeployments, DeleteDeployments, RemoveFinalizer, Crash,
   Informers, DeliverWorkbench, DeliverDeployment, DeliverService, DeliverJobs,
   DeliverPods, Deliver, Resync, User, EditApp, EditVersion, Edits, DeleteWorkbench,
   Cluster, SyncDeployment, CollectPod, PodFails, LoseDeployment,
   CollectGarbage, JobStarts, JobHalts, JobEnds, JobExpires, JobMoves, api, vars

\* Deployments are made and updated with the image of a version.
LEMMA RunsAnImageStep == TypeOK /\ RunsAnImage /\ [Next]_vars => RunsAnImage'
<1> SUFFICES ASSUME TypeOK, RunsAnImage, [Next]_vars, dep' # dep PROVE RunsAnImage'
  BY DEF RunsAnImage
<1> USE ConstantsAssumption
<1>0. dep \in Deployment /\ (pc # "idle" => pass \in Pass)
  BY ObjectsType DEF TypeOK, WorkerTypeOK
<1>1. CASE CreateDeployment
  BY <1>0, <1>1 DEF CreateDeployment, RunsAnImage, Pass, Workbench
<1>2. CASE UpdateDeployment
  BY <1>0, <1>2 DEF UpdateDeployment, RunsAnImage, Pass, Workbench, Deployment
<1>3. CASE DeleteDeployments
  BY <1>3 DEF DeleteDeployments, RunsAnImage
<1>4. CASE SyncDeployment
  BY <1>0, <1>4 DEF SyncDeployment, RunsAnImage, Deployment
<1>5. CASE LoseDeployment \/ CollectGarbage
  BY <1>5 DEF LoseDeployment, CollectGarbage, RunsAnImage
<1> QED
  BY <1>1, <1>2, <1>3, <1>4, <1>5, DeploymentMoves

\* What the cache shows of the workbench and the pod was so before, or is so now.
LEMMA CacheMoves ==
    ASSUME TypeOK, [Next]_vars
    PROVE  /\ Seen'.wb = Seen.wb \/ Seen'.wb = wb \/ Seen'.wb = wb'
           /\ Seen'.pod = Seen.pod \/ Seen'.pod = pod \/ Seen'.pod = pod'
<1>1. cache \in Objects
  BY DEF TypeOK
<1>2. CASE Informers
  BY <1>1, <1>2 DEF Informers, DeliverWorkbench, DeliverDeployment, DeliverService, DeliverJobs,
     DeliverPods, Deliver, Resync, Seen, Now, Objects
<1>3. CASE Crash
  BY <1>3 DEF Crash, Seen, Now
<1>4. CASE ~Informers /\ ~Crash
  BY <1>4, ChangesAreEvents DEF Seen, Now
<1> QED
  BY <1>2, <1>3, <1>4

\* Only a pass past its finalizer, or the user, writes the workbench while it lives.
LEMMA LiveBefore ==
    ASSUME TypeOK, [Next]_vars, wb'.phase = "live"
    PROVE  wb.phase = "live"
<1>0. wb \in Workbench
  BY ObjectsType
<1>1. CASE wb'.phase = wb.phase
  BY <1>1
<1>2. CASE BeginPass \/ Crash
  BY <1>1, <1>2 DEF BeginPass, Crash, api
<1>3. CASE AddFinalizer \/ RemoveFinalizer
  BY <1>0, <1>1, <1>3 DEF AddFinalizer, RemoveFinalizer, Writes, Workbench
<1>4. CASE \/ GetDeployment \/ CreateDeployment \/ ListPods \/ WriteServerStatus
           \/ UpdateDeployment \/ GetService \/ CreateService
           \/ InvalidApp \/ GetJob \/ CreateJob \/ WriteAppStatus \/ UpdateJob
           \/ ListExtraJobs \/ DeleteExtraJob
  BY <1>1, <1>4, LiveStepsMove
<1>5. CASE ListJobs \/ DeleteJobs \/ ListDeployments \/ DeleteDeployments
  BY <1>1, <1>5, TeardownStepsMove
<1>6. CASE Informers \/ User \/ Cluster \/ UNCHANGED vars
  BY <1>1, <1>6, OutsideMoves DEF DeleteWorkbench
<1> QED
  BY <1>2, <1>3, <1>4, <1>5, <1>6 DEF Next, Reconcile

\* A live workbench without a deployment had none before, if none is ever lost.
LEMMA NoneBefore ==
    ASSUME IInv, RunsAnImage, [Next]_vars, MaxDisruptions = 0, wb'.phase = "live", dep' = NoDeployment
    PROVE  dep = NoDeployment
<1>0. TypeOK /\ wb.phase = "live"
  BY LiveBefore DEF IInv
<1> USE ConstantsAssumption
<1>1. dep \in Deployment /\ (pc # "idle" => pass \in Pass)
  BY <1>0, ObjectsType DEF TypeOK, WorkerTypeOK
<1> SUFFICES ASSUME dep' # dep PROVE dep = NoDeployment
  OBVIOUS
<1>2. CASE CreateDeployment
  BY <1>1, <1>2 DEF CreateDeployment, Pass, Workbench, NoDeployment
<1>3. CASE UpdateDeployment
  BY <1>1, <1>3 DEF UpdateDeployment, Pass, Workbench, Deployment, NoDeployment
<1>4. CASE DeleteDeployments
  <2>1. Seen.wb.phase # "live"
    BY <1>4 DEF DeleteDeployments, IInv, PassOfDeleted, TeardownSteps
  <2> QED
    BY <1>0, <2>1 DEF IInv, SeenDeletion
<1>5. CASE SyncDeployment
  BY <1>1, <1>5 DEF SyncDeployment, RunsAnImage, Deployment, NoDeployment
<1>6. CASE LoseDeployment \/ CollectGarbage
  BY <1>0, <1>6 DEF LoseDeployment, CollectGarbage, Disrupts, TypeOK
<1> QED
  BY <1>0, <1>2, <1>3, <1>4, <1>5, <1>6, DeploymentMoves

\* Where readiness could come from: a pod of the deployment, a status written from
\* memory, a workbench or a pod read earlier.
LEMMA NeverReadyStep == IInv /\ RunsAnImage /\ NeverReady /\ [Next]_vars => NeverReady'
<1> SUFFICES ASSUME IInv, RunsAnImage, NeverReady, [Next]_vars,
                    MaxDisruptions = 0, wb'.phase = "live", dep' = NoDeployment
             PROVE  /\ ~pod' /\ ~Seen'.pod /\ ~wb'.status.ready /\ ~Seen'.wb.status.ready
                    /\ pc' # "idle" => ~pass'.status.ready
  BY DEF NeverReady
<1>0. TypeOK /\ wb \in Workbench /\ (pc # "idle" => pass \in Pass)
  BY ObjectsType DEF IInv, TypeOK, WorkerTypeOK
<1>1. wb.phase = "live" /\ dep = NoDeployment
  BY <1>0, LiveBefore, NoneBefore
<1>2. /\ ~pod /\ ~Seen.pod /\ ~wb.status.ready /\ ~Seen.wb.status.ready
      /\ pc # "idle" => ~pass.status.ready
  BY <1>1 DEF NeverReady
<1>3. ~pod'
  BY <1>1, <1>2, PodMoves DEF PodBecomesReady
<1>4. ~wb'.status.ready /\ (pc' # "idle" => ~pass'.status.ready)
  <2>1. CASE BeginPass
    BY <1>2, <2>1 DEF BeginPass, NewPass, api
  <2>2. CASE AddFinalizer
    BY <1>0, <1>2, <2>2 DEF AddFinalizer, Writes, Goto, Return, Pass, Workbench
  <2>3. CASE ListPods
    BY <1>0, <1>2, <2>3 DEF ListPods, Goto, AfterStatus, Pass, Status, api
  <2>4. CASE WriteServerStatus \/ WriteAppStatus
    <3>1. pc # "idle" /\ ~wb'.status.ready
      BY <1>0, <1>2, <2>4 DEF WriteServerStatus, WriteAppStatus, WriteStatus, Workbench
    <3>2. ~ListPods
      BY <2>4 DEF WriteServerStatus, WriteAppStatus, WriteStatus, ListPods
    <3> QED
      BY <1>0, <1>2, <2>4, <3>1, <3>2, LiveStepsKeepPass
  <2>5. CASE \/ GetDeployment \/ CreateDeployment
             \/ UpdateDeployment \/ GetService \/ CreateService
             \/ InvalidApp \/ GetJob \/ CreateJob \/ UpdateJob
             \/ ListExtraJobs \/ DeleteExtraJob
    <3>1. wb' = wb /\ pc # "idle" /\ ~ListPods
      BY <2>5 DEF GetDeployment, CreateDeployment, UpdateDeployment, GetService, CreateService,
         InvalidApp, GetJob, CreateJob, UpdateJob, ListExtraJobs, DeleteExtraJob, ListPods, api
    <3> QED
      BY <1>0, <1>2, <2>5, <3>1, LiveStepsKeepPass
  <2>6. CASE \/ ListJobs \/ DeleteJobs \/ ListDeployments \/ DeleteDeployments
    BY <1>0, <1>2, <2>6, TeardownStepsMove DEF TeardownSteps
  <2>7. CASE RemoveFinalizer \/ Crash
    BY <1>0, <1>2, <2>7 DEF RemoveFinalizer, Crash, Writes, Return, Workbench, api
  <2>8. CASE Informers \/ User \/ Cluster \/ UNCHANGED vars
    <3>1. User => wb'.status = wb.status
      BY <1>0 DEF User, EditApp, EditVersion, Edits, DeleteWorkbench, Workbench
    <3> QED
      BY <1>0, <1>2, <2>8, <3>1, OutsideMoves
  <2> QED
    BY <2>1, <2>2, <2>3, <2>4, <2>5, <2>6, <2>7, <2>8 DEF Next, Reconcile
<1> QED
  BY <1>0, <1>2, <1>3, <1>4, CacheMoves

-----------------------------------------------------------------------------
(* The calls of a pass that runs asleep. *)

\* The status in memory is the one stored, as far as the writes are not lost.
Remembered ==
    /\ "writeServerStatus" \notin Faulty => pass.status.ready = wb.status.ready
    /\ "writeAppStatus" \notin Faulty => pass.status.apps = wb.status.apps

\* What a pass that runs asleep knows.
LEMMA AsleepKnows ==
    ASSUME IInv, RestInv, Asleep, pc # "idle"
    PROVE  /\ TypeOK /\ Settled
           /\ pass \in Pass /\ wb \in Workbench /\ pass.wb = wb /\ pass.found \subseteq Accounted
           /\ Seen.wb = wb /\ Seen.dep = dep /\ Seen.svc = svc /\ Seen.jobs = jobs
           /\ dep \in Deployment /\ svc \in BOOLEAN /\ jobs \in [JobNames -> Job]
           /\ pc \notin {"writeServerStatus", "writeAppStatus"} => Remembered
<1>1. TypeOK
  BY DEF IInv
<1>2. Settled /\ ReadsCurrent
  BY DEF RestInv, Settled
<1>3. pass.wb = wb /\ pass.found \subseteq Accounted
  BY <1>2 DEF Settled, PassOnCurrent, AppsSettled
<1>4. pc \notin {"writeServerStatus", "writeAppStatus"} => Remembered
  BY <1>2 DEF Settled, ReadySettled, StatusSettled, Remembered
<1> QED
  BY <1>1, <1>2, <1>3, <1>4, AsleepReads, ObjectsType DEF TypeOK, WorkerTypeOK

\* A call that ends asleep began asleep and changed nothing: every change is an
\* event, and a pass that is queued stays so.
LEMMA CallsAsleep ==
    ASSUME TypeOK, Reconcile, ~BeginPass, Asleep'
    PROVE  Asleep /\ UNCHANGED <<wb, dep, svc, jobs>>
<1> USE DEF InPass, Goto, Return
<1>1. Notify /\ (queued => queued')
  <2>1. CASE \/ AddFinalizer \/ GetDeployment \/ CreateDeployment \/ ListPods
             \/ WriteServerStatus \/ UpdateDeployment \/ GetService \/ CreateService
    BY <2>1 DEF AddFinalizer, GetDeployment, CreateDeployment, ListPods,
       WriteServerStatus, WriteStatus, UpdateDeployment, GetService, CreateService, Gate
  <2>2. CASE InvalidApp \/ GetJob
    <3>1. Notify
      BY <2>2 DEF InvalidApp, GetJob
    <3>2. CASE InvalidApp
      BY <3>1, <3>2 DEF InvalidApp, SetAppStatus
    <3>3. CASE GetJob
      <4>1. PICK u \in pass.todo, ok \in BOOLEAN :
              \/ Return(TRUE)
              \/ \E step, p : Goto(step, p)
              \/ \E p, status : SetAppStatus(p, status)
        BY <3>3 DEF GetJob
      <4>2. ASSUME NEW p, NEW status, SetAppStatus(p, status)
            PROVE  queued => queued'
        BY <4>2 DEF SetAppStatus
      <4>3. CASE Return(TRUE)
        BY <3>1, <4>3
      <4>4. ASSUME NEW step, NEW p, Goto(step, p)
            PROVE  queued => queued'
        BY <4>4
      <4> QED
        BY <3>1, <4>1, <4>2, <4>3, <4>4
    <3> QED
      BY <2>2, <3>2, <3>3
  <2>3. CASE \/ CreateJob \/ WriteAppStatus \/ UpdateJob \/ ListExtraJobs \/ DeleteExtraJob
    BY <2>3 DEF CreateJob, WriteAppStatus, WriteStatus, UpdateJob, ListExtraJobs, DeleteExtraJob
  <2>4. CASE \/ ListJobs \/ DeleteJobs \/ ListDeployments \/ DeleteDeployments \/ RemoveFinalizer
    BY <2>4 DEF ListJobs, DeleteJobs, ListDeployments, DeleteDeployments, RemoveFinalizer
  <2> QED
    BY <2>1, <2>2, <2>3, <2>4 DEF Reconcile
<1> QED
  BY <1>1, StillAsleep

\* A pass that asks to be queued again ends awake.
LEMMA ReturnAsleep ==
    ASSUME NEW requeue \in BOOLEAN, Return(requeue), Asleep'
    PROVE  ~requeue
BY DEF Return, Asleep

\* A pass is settled at its first steps, and at those of a teardown.
LEMMA EarlySettles ==
    ASSUME pc' \in {"getDeployment", "addFinalizer"} \cup TeardownSteps,
           pass'.wb = wb', pass'.found \subseteq Accounted', Remembered'
    PROVE  Settled'
BY DEF Settled, PassOnCurrent, AppsSettled, ServerSettled, ReadySettled, StatusSettled, Remembered,
   TeardownSteps, PastGate, LoopSteps

\* A pass at the server is settled if the deployment and the readiness are.
LEMMA ServerSettles ==
    ASSUME pc' \in {"createDeployment", "listPods", "writeServerStatus", "updateDeployment",
                    "getService", "createService"},
           pass'.wb = wb', pass'.found \subseteq Accounted', ServerSettled', ReadySettled',
           "writeAppStatus" \notin Faulty => pass'.status.apps = wb'.status.apps
    PROVE  Settled'
BY DEF Settled, PassOnCurrent, AppsSettled, StatusSettled, PastGate, LoopSteps

\* The steps before the gate.
LEMMA ServerStepsSettle ==
    ASSUME IInv, RestInv, Asleep', AddFinalizer \/ GetDeployment \/ CreateDeployment \/ ListPods
    PROVE  Settled'
<1>0. pc # "idle" /\ Reconcile /\ ~BeginPass
  BY DEF AddFinalizer, GetDeployment, CreateDeployment, ListPods, Reconcile, BeginPass
<1>a. Asleep /\ UNCHANGED <<wb, dep, svc, jobs>>
  BY <1>0, CallsAsleep DEF IInv
<1>b. /\ TypeOK /\ Settled
      /\ pass \in Pass /\ wb \in Workbench /\ pass.wb = wb /\ pass.found \subseteq Accounted
      /\ Seen.dep = dep /\ dep \in Deployment
      /\ pc \notin {"writeServerStatus", "writeAppStatus"} => Remembered
  BY <1>0, <1>a, AsleepKnows
<1>c. Accounted' = Accounted
  BY <1>a, AppsFrame
<1> USE DEF Remembered
<1>1. CASE AddFinalizer
  <2>1. PICK ok \in BOOLEAN, applied \in BOOLEAN :
          /\ Writes("addFinalizer", wb = pass.wb, ok, applied)
          /\ wb' = IF applied THEN [pass.wb EXCEPT !.finalizer = TRUE] ELSE wb
          /\ IF ok THEN Goto("getDeployment", [pass EXCEPT !.wb.finalizer = TRUE])
                   ELSE Return(TRUE)
    BY <1>1 DEF AddFinalizer
  <2>2. ok /\ applied
    BY <2>1, ReturnAsleep DEF Writes
  <2>3. /\ pc' = "getDeployment" /\ pass'.wb = [pass.wb EXCEPT !.finalizer = TRUE]
        /\ pass'.found = pass.found /\ pass'.status = pass.status
    BY <1>b, <2>1, <2>2 DEF Goto, Pass
  <2>4. Remembered'
    BY <1>1, <1>a, <1>b, <2>3 DEF AddFinalizer
  <2> QED
    BY <1>b, <1>c, <2>1, <2>2, <2>3, <2>4, EarlySettles
<1>2. CASE GetDeployment
  <2>1. PICK ok \in BOOLEAN :
          /\ Reads("getDeployment", ok)
          /\ CASE ~ok -> Goto("getService", pass)
               [] ok /\ Seen.dep = NoDeployment -> Goto("createDeployment", pass)
               [] OTHER -> Goto("listPods", [pass EXCEPT !.dep = Seen.dep])
    BY <1>2 DEF GetDeployment
  <2>2. /\ pc' \in {"getService", "createDeployment", "listPods"}
        /\ pc' = "getService" => "getDeployment" \in Faulty
        /\ pc' = "createDeployment" => dep = NoDeployment
        /\ pc' = "listPods" => pass'.dep = dep
        /\ pass'.wb = pass.wb /\ pass'.found = pass.found /\ pass'.status = pass.status
    BY <1>b, <2>1 DEF Goto, Pass, Reads, Fails
  <2>3. Remembered
    BY <1>2, <1>b DEF GetDeployment
  <2>4. ServerSettled'
    BY <1>a, <2>2 DEF ServerSettled, DeploymentErrorsKept, PastGate, LoopSteps
  <2>5. ReadySettled'
    BY <1>a, <2>2, <2>3 DEF ReadySettled, PastGate, LoopSteps
  <2> QED
    BY <1>a, <1>b, <1>c, <2>2, <2>3, <2>4, <2>5, ServerSettles
<1>3. CASE CreateDeployment
  <2> DEFINE new == [image |-> pass.wb.version, available |-> FALSE]
  <2>1. PICK ok \in BOOLEAN, applied \in BOOLEAN :
          /\ Writes("createDeployment", dep = NoDeployment, ok, applied)
          /\ dep' = IF applied THEN new ELSE dep
          /\ IF ok THEN Goto("listPods", [pass EXCEPT !.dep = new])
                   ELSE Goto("getService", pass)
    BY <1>3 DEF CreateDeployment
  <2>2. /\ pc' \in {"getService", "listPods"}
        /\ pc' = "getService" => dep # NoDeployment \/ "createDeployment" \in Faulty
        /\ pc' = "listPods" => pass'.dep = dep'
        /\ pass'.wb = pass.wb /\ pass'.found = pass.found /\ pass'.status = pass.status
    BY <1>b, <2>1 DEF Goto, Pass, Writes, Fails
  <2>3. Remembered /\ (DeploymentErrorsKept => dep = NoDeployment)
    BY <1>3, <1>a, <1>b DEF CreateDeployment, Settled, ServerSettled
  <2>4. ServerSettled'
    BY <1>a, <2>2, <2>3 DEF ServerSettled, DeploymentErrorsKept, PastGate, LoopSteps
  <2>5. ReadySettled'
    BY <1>a, <2>2, <2>3 DEF ReadySettled, PastGate, LoopSteps
  <2> QED
    BY <1>a, <1>b, <1>c, <2>2, <2>3, <2>4, <2>5, ServerSettles
<1>4. CASE ListPods
  <2>1. PICK ready \in BOOLEAN :
          Goto(IF ready # pass.status.ready THEN "writeServerStatus" ELSE AfterStatus(pass),
               [pass EXCEPT !.status.ready = ready])
    BY <1>4, <1>b, SeenShape DEF ListPods
  <2>2. /\ pc' \in {"writeServerStatus", "updateDeployment", "getService"}
        /\ pc' = "getService" => pass.dep.image = pass.wb.version
        /\ pc' # "writeServerStatus" => pass'.status.ready = pass.status.ready
        /\ pass'.wb = pass.wb /\ pass'.found = pass.found /\ pass'.dep = pass.dep
        /\ pass'.status.apps = pass.status.apps
    BY <1>b, <2>1 DEF Goto, AfterStatus, Pass, Status
  <2>3. Remembered /\ (DeploymentErrorsKept => dep = pass.dep)
    BY <1>4, <1>a, <1>b DEF ListPods, Settled, ServerSettled
  <2>4. ServerSettled'
    BY <1>a, <1>b, <2>2, <2>3 DEF ServerSettled, PastGate, LoopSteps
  <2>5. ReadySettled'
    BY <1>a, <2>2, <2>3 DEF ReadySettled, PastGate, LoopSteps
  <2> QED
    BY <1>a, <1>b, <1>c, <2>2, <2>3, <2>4, <2>5, ServerSettles
<1> QED
  BY <1>1, <1>2, <1>3, <1>4

\* A status write that ends asleep has written what was there, or nothing.
LEMMA WriteStatusAsleep ==
    ASSUME IInv, RestInv, Asleep', NEW site \in {"writeServerStatus", "writeAppStatus"}, NEW next,
           WriteStatus(site, next), UNCHANGED wb, pass.wb = wb, pass \in Pass, wb \in Workbench
    PROVE  /\ pc' = next /\ pass'.wb = wb' /\ pass'.found = pass.found
           /\ pass'.todo = pass.todo /\ pass'.status = pass.status
           /\ next # "apps" => pass'.app = pass.app /\ pass'.job = pass.job /\ pass'.dep = pass.dep
           /\ next = "apps" => pass'.app = "none" /\ pass'.job = NoJob
           /\ site \notin Faulty => pass.status = wb.status
<1>1. PICK ok \in BOOLEAN, applied \in BOOLEAN :
        /\ Writes(site, wb = pass.wb, ok, applied)
        /\ wb' = IF applied THEN [wb EXCEPT !.status = pass.status] ELSE wb
        /\ Goto(next, IF ok THEN [pass EXCEPT !.wb.status = pass.status] ELSE pass)
  BY DEF WriteStatus
<1>2. /\ ok => applied
      /\ site \notin Faulty => ok
  BY <1>1 DEF Writes, Fails
<1>3. applied => pass.status = wb.status
  BY <1>1 DEF Workbench
<1>4. [pass EXCEPT !.wb.status = pass.status].wb = [pass.wb EXCEPT !.status = pass.status]
  BY DEF Pass
<1>5. ok => [pass EXCEPT !.wb.status = pass.status].wb = wb
  BY <1>2, <1>3, <1>4 DEF Workbench
<1> QED
  BY <1>1, <1>2, <1>3, <1>5 DEF Goto, Pass

\* The deployment is updated, or its update was not needed any more.
LEMMA UpdateStepsSettle ==
    ASSUME IInv, RestInv, Asleep', WriteServerStatus \/ UpdateDeployment
    PROVE  Settled'
<1>0. pc # "idle" /\ Reconcile /\ ~BeginPass
  BY DEF WriteServerStatus, WriteStatus, UpdateDeployment, Reconcile, BeginPass
<1>a. Asleep /\ UNCHANGED <<wb, dep, svc, jobs>>
  BY <1>0, CallsAsleep DEF IInv
<1>b. /\ TypeOK /\ Settled
      /\ pass \in Pass /\ wb \in Workbench /\ pass.wb = wb /\ pass.found \subseteq Accounted
      /\ dep \in Deployment
      /\ pc \notin {"writeServerStatus", "writeAppStatus"} => Remembered
  BY <1>0, <1>a, AsleepKnows
<1>c. Accounted' = Accounted
  BY <1>a, AppsFrame
<1>1. CASE WriteServerStatus
  <2>0. pc = "writeServerStatus" /\ WriteStatus("writeServerStatus", AfterStatus(pass))
    BY <1>1 DEF WriteServerStatus, WriteStatus
  <2>1. AfterStatus(pass) = IF pass.dep.image # pass.wb.version THEN "updateDeployment" ELSE "getService"
    BY DEF AfterStatus
  <2>2. /\ pc' = AfterStatus(pass) /\ pass'.wb = wb' /\ pass'.found = pass.found
        /\ pass'.status = pass.status /\ pass'.dep = pass.dep
        /\ "writeServerStatus" \notin Faulty => pass.status = wb.status
    BY <1>a, <1>b, <2>0, <2>1, WriteStatusAsleep
  <2>3. /\ DeploymentErrorsKept => dep = pass.dep
        /\ "writeAppStatus" \notin Faulty => pass.status.apps = wb.status.apps
    BY <1>a, <1>b, <2>0 DEF Settled, ServerSettled, StatusSettled
  <2>4. ServerSettled'
    BY <1>a, <1>b, <2>1, <2>2, <2>3 DEF ServerSettled, PastGate, LoopSteps
  <2>5. ReadySettled'
    BY <1>a, <2>1, <2>2 DEF ReadySettled, PastGate, LoopSteps
  <2> QED
    BY <1>a, <1>b, <1>c, <2>1, <2>2, <2>3, <2>4, <2>5, ServerSettles
<1>2. CASE UpdateDeployment
  <2>1. PICK ok \in BOOLEAN, applied \in BOOLEAN :
          /\ Writes("updateDeployment", dep = pass.dep, ok, applied)
          /\ dep' = IF applied THEN [pass.dep EXCEPT !.image = pass.wb.version] ELSE dep
          /\ IF ok THEN Goto("getService", pass) ELSE Return(TRUE)
    BY <1>2 DEF UpdateDeployment
  <2>2. ok /\ applied
    BY <2>1, ReturnAsleep DEF Writes
  <2>3. pc' = "getService" /\ pass' = pass /\ dep'.image = wb.version /\ Remembered
    BY <1>2, <1>b, <2>1, <2>2 DEF Goto, Pass, Deployment, UpdateDeployment
  <2>4. ServerSettled' /\ ReadySettled'
    BY <1>a, <2>3 DEF ServerSettled, ReadySettled, Remembered, PastGate, LoopSteps
  <2> QED
    BY <1>a, <1>b, <1>c, <2>3, <2>4, ServerSettles DEF Remembered
<1> QED
  BY <1>1, <1>2

\* Through the gate goes a pass that remembers a ready server, hence has one, and
\* no app is behind the loop yet but those that ask for nothing.
LEMMA GateSettles ==
    ASSUME IInv, RestInv, Asleep, Asleep', UNCHANGED <<wb, dep, svc, jobs>>,
           pc \in {"getService", "createService"}, Gate, svc
    PROVE  Settled'
<1>1. /\ Settled /\ pass \in Pass /\ wb \in Workbench /\ pass.wb = wb
      /\ pass.found \subseteq Accounted /\ Remembered
  BY AsleepKnows
<1>2. pass.status.ready /\ Goto("apps", [pass EXCEPT !.todo = {u \in Uids : pass.wb.apps[u].state # "none"}])
  BY ReturnAsleep DEF Gate
<1>3. /\ pc' = "apps" /\ pass'.todo = {u \in Uids : wb.apps[u].state # "none"}
      /\ pass'.wb = pass.wb /\ pass'.found = pass.found /\ pass'.status = pass.status
      /\ pass'.job = NoJob
  BY <1>1, <1>2 DEF Goto, Pass
<1>4. DeploymentErrorsKept => dep.image = wb.version
  <2>1. wb.phase = "live"
    BY <1>1 DEF RestInv, PassOnLive, LiveSteps, CreateSteps
  <2>2. ~(MaxDisruptions = 0 /\ dep = NoDeployment)
    BY <1>2, <2>1 DEF RestInv, NeverReady
  <2> QED
    BY <1>1, <2>2 DEF Settled, ServerSettled
<1>5. \A u \in Uids : Visited(u)' => JobAsWanted(u) /\ AppStatusAccurate(u)
  BY <1>3 DEF Visited, JobAsWanted, AppStatusAccurate
<1>6. PassOnCurrent' /\ ServerSettled' /\ ReadySettled'
  BY <1>1, <1>2, <1>3, <1>4 DEF PassOnCurrent, ServerSettled, ReadySettled, Remembered, PastGate, LoopSteps
<1>7. AppsSettled'
  BY <1>1, <1>3, <1>5, AppsFrame DEF AppsSettled, LoopSteps
<1>8. StatusSettled'
  BY <1>1, <1>3, <1>5, AppsFrame DEF StatusSettled, Remembered
<1> QED
  BY <1>6, <1>7, <1>8 DEF Settled

\* The service is there, or the pass ends awake.
LEMMA ServiceStepsSettle ==
    ASSUME IInv, RestInv, Asleep', GetService \/ CreateService
    PROVE  Settled'
<1>0. pc \in {"getService", "createService"} /\ Reconcile /\ ~BeginPass
  BY DEF GetService, CreateService, Reconcile, BeginPass
<1>a. Asleep /\ UNCHANGED <<wb, dep, svc, jobs>>
  BY <1>0, CallsAsleep DEF IInv
<1>b. /\ TypeOK /\ Settled
      /\ pass \in Pass /\ wb \in Workbench /\ pass.wb = wb /\ pass.found \subseteq Accounted
      /\ Seen.svc = svc /\ svc \in BOOLEAN /\ Remembered
  BY <1>0, <1>a, AsleepKnows
<1>1. CASE GetService
  <2>1. Return(TRUE) \/ (Seen.svc /\ Gate) \/ Goto("createService", pass)
    BY <1>1 DEF GetService
  <2>2. CASE Goto("createService", pass)
    <3>1. pc' = "createService" /\ pass' = pass /\ pc = "getService"
      BY <1>1, <2>2 DEF Goto, GetService
    <3>2. ServerSettled' /\ ReadySettled'
      BY <1>a, <1>b, <3>1 DEF Settled, ServerSettled, ReadySettled, PastGate, LoopSteps
    <3> QED
      BY <1>a, <1>b, <3>1, <3>2, AppsFrame, ServerSettles DEF Remembered
  <2> QED
    BY <1>0, <1>a, <1>b, <2>1, <2>2, ReturnAsleep, GateSettles
<1>2. CASE CreateService
  <2>1. PICK ok \in BOOLEAN, applied \in BOOLEAN :
          /\ Writes("createService", ~svc, ok, applied)
          /\ svc' = (svc \/ applied)
          /\ IF ok THEN Gate ELSE Return(TRUE)
    BY <1>2 DEF CreateService
  <2>2. ok /\ svc
    BY <1>a, <1>b, <2>1, ReturnAsleep DEF Writes
  <2> QED
    BY <1>0, <1>a, <2>1, <2>2, GateSettles
<1> QED
  BY <1>1, <1>2

-----------------------------------------------------------------------------
(* The loop over the apps. *)

\* What a call in the loop keeps, whatever the app at hand.
LoopKept ==
    /\ svc
    /\ DeploymentErrorsKept => dep.image = wb.version
    /\ "writeServerStatus" \notin Faulty => pass.status.ready = wb.status.ready /\ wb.status.ready

\* A pass in the loop that runs asleep keeps it.
LEMMA LoopKeeps ==
    ASSUME IInv, RestInv, Asleep, pc \in LoopSteps
    PROVE  LoopKept
<1>1. Settled /\ pc \in PastGate /\ pc \notin {"idle", "writeServerStatus"}
  BY AsleepKnows DEF LoopSteps, PastGate
<1> QED
  BY <1>1 DEF Settled, AppsSettled, ServerSettled, ReadySettled, LoopKept

\* A pass in the loop is settled if the visited apps and the app at hand are.
LEMMA LoopSettles ==
    ASSUME pc' \in LoopSteps, LoopKept', pass'.wb = wb', pass'.found \subseteq Accounted',
           pc' = "apps" => pass'.job = NoJob,
           \A u \in Uids : Visited(u)' => JobAsWanted(u)',
           pc' \in {"writeAppStatus", "updateJob"} =>
             IF wb'.apps[pass'.app].state = "Invalid" THEN pass'.job = NoJob
             ELSE pass'.job # NoJob /\ pass'.job = jobs'[NameOf(wb', pass'.app)],
           StatusSettled'
    PROVE  Settled'
<1>1. pc' \in PastGate /\ pc' # "idle" /\ pc' # "deleteJob"
  BY DEF PastGate, LoopSteps
<1>2. PassOnCurrent'
  BY DEF PassOnCurrent
<1>3. ServerSettled' /\ ReadySettled'
  BY <1>1 DEF ServerSettled, ReadySettled, LoopKept, LoopSteps
<1>4. AppsSettled'
  BY <1>1 DEF AppsSettled, LoopKept, NameOf
<1> QED
  BY <1>2, <1>3, <1>4 DEF Settled

\* The app at hand has been looked at: what is said of it agrees with what was found,
\* and the pass goes on to the next app if its job is as wanted.
LEMMA SetAppStatusSettles ==
    ASSUME IInv, RestInv, Asleep, Asleep', UNCHANGED <<wb, dep, svc, jobs>>, pc = "apps",
           NEW u \in Uids, NEW p \in Pass, NEW status, SetAppStatus(p, status),
           p.wb = wb, p.app = u, p.todo = pass.todo \ {u}, p.status = pass.status,
           p.found \subseteq Accounted,
           \/ /\ wb.apps[u].state = "Invalid" /\ p.job = NoJob /\ status = "Failed"
           \/ /\ wb.apps[u].state \in {"Running", "Stopped"} /\ p.job # NoJob
              /\ p.job = jobs[NameOf(wb, u)] /\ status = JobStatus(p.job)
    PROVE  Settled'
<1>1. /\ Settled /\ pass \in Pass /\ wb \in Workbench /\ pass.wb = wb /\ Remembered
  BY AsleepKnows
<1>2. /\ pass'.wb = wb /\ pass'.todo = pass.todo \ {u} /\ pass'.found \subseteq Accounted
      /\ pass'.status.ready = pass.status.ready
      /\ pass'.status.apps = [pass.status.apps EXCEPT ![u] = status]
      /\ pc' \in {"apps", "writeAppStatus", "updateJob"}
      /\ pc' # "apps" => pass'.app = u /\ pass'.job = p.job
      /\ pc' # "writeAppStatus" => pass.status.apps[u] = status
      /\ pc' = "apps" => p.job = NoJob \/ p.job.suspend = Suspended(wb, u)
  BY SetAppStatusOutcome
<1>3. pc' = "apps" => pass'.job = NoJob
  BY DEF SetAppStatus, Goto, Pass
<1>4. LoopKept'
  BY <1>2, LoopKeeps DEF LoopKept, LoopSteps
<1>5. pc' = "apps" => JobAsWanted(u)
  BY <1>2 DEF JobAsWanted, Suspended
<1>6. pass.status.apps = wb.status.apps /\ pass.status.apps[u] = status => AppStatusAccurate(u)
  BY DEF AppStatusAccurate
<1>7. \A v \in Uids : Visited(v)' => Visited(v) \/ (pc' = "apps" /\ v = u)
  BY <1>2 DEF Visited
<1>8. \A v \in Uids : Visited(v)' => JobAsWanted(v)'
  BY <1>1, <1>5, <1>7, AppsFrame DEF Settled, AppsSettled, LoopSteps
<1>9. StatusSettled'
  <2> SUFFICES ASSUME "writeAppStatus" \notin Faulty PROVE StatusSettled'
    BY DEF StatusSettled
  <2>1. pass.status.apps = wb.status.apps /\ pass.status.apps \in [Uids -> AppStatuses]
    BY <1>1 DEF Remembered, Pass, Status
  <2>2. pc' # "writeAppStatus" => pass'.status.apps = wb.status.apps /\ AppStatusAccurate(u)
    BY <1>2, <1>6, <2>1
  <2>3. pc' = "writeAppStatus" => pass'.status.apps[u] = status
    BY <1>2, <2>1
  <2>4. \A v \in Uids : Visited(v)' => AppStatusAccurate(v)'
    BY <1>1, <1>7, <2>2, AppsFrame DEF Settled, StatusSettled, LoopSteps
  <2>5. pc' = "writeAppStatus" =>
          pass'.status.apps[pass'.app] = IF wb'.apps[pass'.app].state = "Invalid"
                                         THEN "Failed" ELSE JobStatus(pass'.job)
    BY <1>2, <2>3
  <2>6. pc' = "updateJob" => AppStatusAccurate(pass.app)'
    BY <1>2, <2>2 DEF AppStatusAccurate, NameOf
  <2> QED
    BY <1>2, <2>2, <2>4, <2>5, <2>6 DEF StatusSettled, JobStatus
<1>10. pc' \in LoopSteps /\ pass'.found \subseteq Accounted'
  BY <1>2, AppsFrame DEF LoopSteps
<1> QED
  BY <1>2, <1>3, <1>4, <1>8, <1>9, <1>10, LoopSettles

\* The job of the app at hand is read, or the app refused.
LEMMA AppStepsSettle ==
    ASSUME IInv, RestInv, Asleep', InvalidApp \/ GetJob
    PROVE  Settled'
<1>0. pc = "apps" /\ Reconcile /\ ~BeginPass
  BY DEF InvalidApp, GetJob, Reconcile, BeginPass
<1>a. Asleep /\ UNCHANGED <<wb, dep, svc, jobs>>
  BY <1>0, CallsAsleep DEF IInv
<1>b. /\ TypeOK /\ Settled
      /\ pass \in Pass /\ wb \in Workbench /\ pass.wb = wb /\ pass.found \subseteq Accounted
      /\ Seen.jobs = jobs /\ Remembered
  BY <1>0, <1>a, AsleepKnows
<1>1. CASE InvalidApp
  <2>1. pass.job = NoJob
    BY <1>0, <1>a, <1>b DEF Settled, AppsSettled
  <2> QED
    BY <1>0, <1>1, <1>a, <1>b, <2>1, InvalidAppOutcome, SetAppStatusSettles
<1>2. CASE GetJob
  <2>1. PICK u \in pass.todo, p \in Pass :
          LET name == NameOf(pass.wb, u)
              job == Seen.jobs[name]
          IN /\ u \in Uids /\ name \in JobNames /\ pass.wb.apps[u].state \in {"Running", "Stopped"}
             /\ p.wb = pass.wb /\ p.app = u /\ p.todo = pass.todo \ {u} /\ p.status = pass.status
             /\ \/ Return(TRUE)
                \/ /\ job = NoJob /\ pass.wb.apps[u].state = "Stopped"
                   /\ p.found = pass.found /\ Goto("apps", p)
                \/ p.found = pass.found /\ Goto("createJob", p)
                \/ /\ job # NoJob /\ p.job = job /\ p.found = pass.found \cup {name}
                   /\ SetAppStatus(p, JobStatus(job))
    BY <1>2, <1>b, GetJobOutcome
  <2>2. NameOf(wb, u) \in Accounted
    BY <1>b, <2>1 DEF Accounted
  <2>3. CASE /\ p.found = pass.found
             /\ \/ Goto("createJob", p)
                \/ jobs[NameOf(wb, u)] = NoJob /\ wb.apps[u].state = "Stopped" /\ Goto("apps", p)
    <3>1. /\ pc' \in {"createJob", "apps"} /\ pass'.wb = wb' /\ pass'.found = pass.found
          /\ pass'.todo = pass.todo \ {u} /\ pass'.status = pass.status
          /\ pc' = "apps" => pass'.job = NoJob
          /\ pc' = "apps" => JobAsWanted(u) /\ AppStatusAccurate(u)
          /\ pc' # "apps" => pass'.app = u
      BY <1>a, <1>b, <2>1, <2>3 DEF Goto, Pass, JobAsWanted, AppStatusAccurate
    <3>2. \A v \in Uids : Visited(v)' => Visited(v) \/ (pc' = "apps" /\ v = u)
      BY <1>0, <3>1 DEF Visited
    <3>3. \A v \in Uids : Visited(v)' => JobAsWanted(v)'
      BY <1>0, <1>a, <1>b, <3>1, <3>2, AppsFrame DEF Settled, AppsSettled, LoopSteps
    <3>4. StatusSettled'
      BY <1>0, <1>a, <1>b, <3>1, <3>2, AppsFrame DEF Settled, StatusSettled, Remembered, LoopSteps
    <3>5. LoopKept'
      BY <1>0, <1>a, <3>1, LoopKeeps DEF LoopKept, LoopSteps
    <3>6. pc' \in LoopSteps /\ pass'.found \subseteq Accounted'
      BY <1>a, <1>b, <3>1, AppsFrame DEF LoopSteps
    <3>7. pc' \notin {"writeAppStatus", "updateJob"}
      BY <3>1
    <3> QED
      BY <3>1, <3>3, <3>4, <3>5, <3>6, <3>7, LoopSettles
  <2>4. ASSUME SetAppStatus(p, JobStatus(jobs[NameOf(wb, u)])), jobs[NameOf(wb, u)] # NoJob,
               p.job = jobs[NameOf(wb, u)], p.found = pass.found \cup {NameOf(wb, u)}
        PROVE  Settled'
    BY <1>0, <1>a, <1>b, <2>1, <2>2, <2>4, SetAppStatusSettles
  <2>5. ~Return(TRUE)
    BY ReturnAsleep
  <2>6. \/ p.found = pass.found /\ jobs[NameOf(wb, u)] = NoJob /\ wb.apps[u].state = "Stopped" /\ Goto("apps", p)
        \/ p.found = pass.found /\ Goto("createJob", p)
        \/ /\ jobs[NameOf(wb, u)] # NoJob /\ p.job = jobs[NameOf(wb, u)]
           /\ p.found = pass.found \cup {NameOf(wb, u)}
           /\ SetAppStatus(p, JobStatus(jobs[NameOf(wb, u)]))
    BY <1>b, <2>1, <2>5
  <2> QED
    BY <2>3, <2>4, <2>6
<1> QED
  BY <1>1, <1>2

\* The job of the app at hand is made or updated, which is a change, or its update
\* was not needed any more.
LEMMA JobStepsSettle ==
    ASSUME IInv, RestInv, Asleep', CreateJob \/ UpdateJob
    PROVE  Settled'
<1>0. pc \in {"createJob", "updateJob"} /\ pc \in LoopSteps /\ Reconcile /\ ~BeginPass
  BY DEF CreateJob, UpdateJob, Reconcile, BeginPass, LoopSteps
<1>a. Asleep /\ UNCHANGED <<wb, dep, svc, jobs>>
  BY <1>0, CallsAsleep DEF IInv
<1>b. /\ TypeOK /\ Settled
      /\ pass \in Pass /\ wb \in Workbench /\ pass.wb = wb /\ pass.found \subseteq Accounted
      /\ jobs \in [JobNames -> Job] /\ Remembered /\ pass.app \in Uids
  BY <1>0, <1>a, AsleepKnows DEF TypeOK, WorkerTypeOK
<1> DEFINE name == NameOf(wb, pass.app)
<1>c. name \in JobNames
  BY <1>b, JobNameType
<1>1. CASE CreateJob
  <2>1. PICK ok \in BOOLEAN, applied \in BOOLEAN :
          /\ Writes("createJob", jobs[name] = NoJob, ok, applied)
          /\ jobs' = IF applied THEN [jobs EXCEPT ![name] = FreshJob] ELSE jobs
          /\ ok \/ Return(TRUE)
    BY <1>1, <1>b DEF CreateJob
  <2>2. applied /\ jobs[name] = NoJob
    BY <2>1, ReturnAsleep DEF Writes
  <2> QED
    BY <1>a, <1>b, <1>c, <2>1, <2>2, Shapes
<1>2. CASE UpdateJob
  <2>1. PICK ok \in BOOLEAN, applied \in BOOLEAN :
          /\ Writes("updateJob", jobs[name] = pass.job, ok, applied)
          /\ jobs' = IF applied
                     THEN [jobs EXCEPT ![name] =
                             [pass.job EXCEPT !.suspend = Suspended(wb, pass.app)]]
                     ELSE jobs
          /\ IF ok THEN Goto("apps", pass) ELSE Return(TRUE)
    BY <1>2, <1>b DEF UpdateJob
  <2>2. ok /\ applied /\ pc = "updateJob"
    BY <1>2, <2>1, ReturnAsleep DEF Writes, UpdateJob
  <2>3. /\ pc' = "apps" /\ pass'.wb = wb' /\ pass'.found = pass.found
        /\ pass'.todo = pass.todo /\ pass'.status = pass.status /\ pass'.job = NoJob
    BY <1>a, <1>b, <2>1, <2>2 DEF Goto, Pass
  <2>4. jobs[name].suspend = Suspended(wb, pass.app)
    <3>1. jobs[name] = [pass.job EXCEPT !.suspend = Suspended(wb, pass.app)]
      BY <1>a, <1>b, <1>c, <2>1, <2>2
    <3> QED
      BY <1>b, <3>1 DEF Pass, Job
  <2>5. wb.apps[pass.app].state # "Invalid" => jobs[name] # NoJob
    BY <1>a, <1>b, <2>2 DEF Settled, AppsSettled
  <2>6. JobAsWanted(pass.app)
    BY <2>4, <2>5 DEF JobAsWanted, Suspended
  <2>7. \A v \in Uids : Visited(v)' => Visited(v) \/ v = pass.app
    BY <2>2, <2>3 DEF Visited
  <2>8. \A v \in Uids : Visited(v)' => JobAsWanted(v)'
    BY <1>0, <1>a, <1>b, <2>6, <2>7, AppsFrame DEF Settled, AppsSettled
  <2>9. StatusSettled'
    <3> SUFFICES ASSUME "writeAppStatus" \notin Faulty PROVE StatusSettled'
      BY DEF StatusSettled
    <3>1. /\ AppStatusAccurate(pass.app)
          /\ \A v \in Uids : Visited(v) => AppStatusAccurate(v)
      BY <1>0, <1>a, <1>b, <2>2 DEF Settled, StatusSettled
    <3>2. \A v \in Uids : Visited(v)' => AppStatusAccurate(v)'
      BY <1>a, <2>7, <3>1, AppsFrame
    <3> QED
      BY <1>a, <1>b, <2>3, <3>2 DEF StatusSettled, Remembered
  <2>10. LoopKept'
    BY <1>0, <1>a, <2>3, LoopKeeps DEF LoopKept
  <2>11. pc' \in LoopSteps /\ pass'.found \subseteq Accounted'
    BY <1>a, <1>b, <2>3, AppsFrame DEF LoopSteps
  <2> QED
    BY <2>3, <2>8, <2>9, <2>10, <2>11, LoopSettles
<1> QED
  BY <1>1, <1>2

\* The status of the app at hand was stored already, or its write is lost.
LEMMA WriteAppStatusSettles ==
    ASSUME IInv, RestInv, Asleep', WriteAppStatus
    PROVE  Settled'
<1>0. /\ pc = "writeAppStatus" /\ pc \in LoopSteps /\ Reconcile /\ ~BeginPass
      /\ WriteStatus("writeAppStatus", AfterAppStatus(pass))
  BY DEF WriteAppStatus, WriteStatus, Reconcile, BeginPass, LoopSteps
<1>a. Asleep /\ UNCHANGED <<wb, dep, svc, jobs>>
  BY <1>0, CallsAsleep DEF IInv
<1>b. /\ TypeOK /\ Settled
      /\ pass \in Pass /\ wb \in Workbench /\ pass.wb = wb /\ pass.found \subseteq Accounted
  BY <1>0, <1>a, AsleepKnows
<1>1. /\ pc' = AfterAppStatus(pass) /\ pass'.wb = wb' /\ pass'.found = pass.found
      /\ pass'.todo = pass.todo /\ pass'.status = pass.status
      /\ pc' # "apps" => pass'.app = pass.app /\ pass'.job = pass.job
      /\ pc' = "apps" => pass'.job = NoJob
      /\ "writeAppStatus" \notin Faulty => pass.status = wb.status
  BY <1>0, <1>a, <1>b, WriteStatusAsleep
<1>2. /\ pc' \in {"apps", "updateJob"}
      /\ pc' = "apps" => pass.job = NoJob \/ pass.job.suspend = Suspended(wb, pass.app)
  BY <1>1, <1>b DEF AfterAppStatus
<1>3. IF wb.apps[pass.app].state = "Invalid" THEN pass.job = NoJob
      ELSE pass.job # NoJob /\ pass.job = jobs[NameOf(wb, pass.app)]
  BY <1>0, <1>a, <1>b DEF Settled, AppsSettled
<1>4. pc' = "apps" => JobAsWanted(pass.app)
  BY <1>2, <1>3 DEF JobAsWanted, Suspended
<1>5. \A v \in Uids : Visited(v)' => Visited(v) \/ (pc' = "apps" /\ v = pass.app)
  BY <1>0, <1>1 DEF Visited
<1>6. \A v \in Uids : Visited(v)' => JobAsWanted(v)'
  BY <1>0, <1>a, <1>b, <1>4, <1>5, AppsFrame DEF Settled, AppsSettled
<1>7. StatusSettled'
  <2> SUFFICES ASSUME "writeAppStatus" \notin Faulty PROVE StatusSettled'
    BY DEF StatusSettled
  <2>1. /\ pass.status = wb.status
        /\ pass.status.apps[pass.app] = IF wb.apps[pass.app].state = "Invalid"
                                        THEN "Failed" ELSE JobStatus(pass.job)
        /\ \A v \in Uids : Visited(v) => AppStatusAccurate(v)
    BY <1>0, <1>1, <1>a, <1>b DEF Settled, StatusSettled
  <2>2. AppStatusAccurate(pass.app)
    BY <1>3, <2>1 DEF AppStatusAccurate
  <2>3. \A v \in Uids : Visited(v)' => AppStatusAccurate(v)'
    BY <1>a, <1>5, <2>1, <2>2, AppsFrame
  <2>4. pc' = "updateJob" => AppStatusAccurate(pass.app)'
    BY <1>1, <1>a, <2>2 DEF AppStatusAccurate, NameOf
  <2> QED
    BY <1>1, <1>2, <1>a, <2>1, <2>3, <2>4 DEF StatusSettled
<1>8. LoopKept'
  <2>1. LoopKept
    BY <1>0, <1>a, LoopKeeps
  <2> QED
    BY <1>1, <1>a, <2>1 DEF LoopKept
<1>9. pc' \in LoopSteps /\ pass'.found \subseteq Accounted'
  BY <1>1, <1>2, <1>a, <1>b, AppsFrame DEF LoopSteps
<1>10. pc' = "updateJob" =>
         IF wb'.apps[pass'.app].state = "Invalid" THEN pass'.job = NoJob
         ELSE pass'.job # NoJob /\ pass'.job = jobs'[NameOf(wb', pass'.app)]
  BY <1>1, <1>3, <1>a DEF NameOf
<1> QED
  BY <1>1, <1>2, <1>6, <1>7, <1>8, <1>9, <1>10, LoopSettles

\* The pass ends, asleep, if it has nothing to sweep: then every app has been
\* visited, and what there is was found.
LEMMA SweepStepsSettle ==
    ASSUME IInv, RestInv, Asleep', ListExtraJobs \/ DeleteExtraJob
    PROVE  Settled'
<1>0. pc \in {"apps", "deleteJob"} /\ Reconcile /\ ~BeginPass
  BY DEF ListExtraJobs, DeleteExtraJob, Reconcile, BeginPass
<1>a. Asleep /\ UNCHANGED <<wb, dep, svc, jobs>>
  BY <1>0, CallsAsleep DEF IInv
<1>b. /\ TypeOK /\ Settled
      /\ pass \in Pass /\ wb \in Workbench /\ pass.wb = wb /\ pass.found \subseteq Accounted
      /\ jobs \in [JobNames -> Job] /\ Seen.jobs = jobs /\ Remembered
  BY <1>0, <1>a, AsleepKnows
<1>1. CASE ListExtraJobs
  <2> DEFINE extra == {n \in JobNames : jobs[n] # NoJob} \ pass.found
  <2>0. pc = "apps" /\ pc \in LoopSteps /\ pass.todo = {}
    BY <1>1 DEF ListExtraJobs, LoopSteps
  <2>1. PICK ok \in BOOLEAN :
          IF ok /\ extra # {} THEN Goto("deleteJob", [pass EXCEPT !.doomed = extra])
          ELSE Return(~ok)
    BY <1>1, <1>b DEF ListExtraJobs
  <2>2. LoopKept
    BY <1>a, <2>0, LoopKeeps
  <2>3. CASE extra # {}
    <3>1. /\ pc' = "deleteJob" /\ pass'.wb = wb' /\ pass'.found = pass.found
          /\ pass'.status = pass.status
      BY <1>a, <1>b, <2>1, <2>3, ReturnAsleep DEF Goto, Pass
    <3>2. PassOnCurrent' /\ AppsSettled'
      BY <1>a, <1>b, <2>2, <3>1, AppsFrame DEF PassOnCurrent, AppsSettled, LoopKept, LoopSteps
    <3>3. ServerSettled' /\ ReadySettled'
      BY <1>a, <2>2, <3>1 DEF ServerSettled, ReadySettled, LoopKept
    <3>4. StatusSettled'
      BY <1>a, <1>b, <3>1 DEF StatusSettled, Remembered, LoopSteps
    <3> QED
      BY <3>2, <3>3, <3>4 DEF Settled
  <2>4. CASE extra = {}
    <3>1. pc' = "idle"
      BY <2>1, <2>4 DEF Return
    <3>2. wb.phase = "live"
      BY <1>b, <2>0 DEF RestInv, PassOnLive, LiveSteps
    <3>3. \A u \in Uids : Visited(u)
      BY <2>0 DEF Visited
    <3>4. Children \subseteq Accounted
      BY <1>b, <2>4 DEF Children
    <3>5. AppsSettled'
      BY <1>a, <1>b, <2>0, <2>2, <3>1, <3>2, <3>3, <3>4, AppsFrame
         DEF Settled, AppsSettled, LoopKept, PastGate, LoopSteps
    <3>6. ServerSettled' /\ ReadySettled' /\ PassOnCurrent'
      BY <1>a, <2>2, <3>1 DEF ServerSettled, ReadySettled, PassOnCurrent, LoopKept, PastGate, LoopSteps
    <3>7. StatusSettled'
      BY <1>a, <1>b, <2>0, <3>1, <3>3, AppsFrame DEF Settled, StatusSettled, LoopSteps
    <3> QED
      BY <3>5, <3>6, <3>7 DEF Settled
  <2> QED
    BY <2>3, <2>4
<1>2. CASE DeleteExtraJob
  <2>1. PICK n \in pass.doomed, ok \in BOOLEAN, applied \in BOOLEAN :
          /\ Writes("deleteJob", jobs[n] # NoJob, ok, applied)
          /\ jobs' = IF applied THEN [jobs EXCEPT ![n] = NoJob] ELSE jobs
          /\ ok \/ Return(~ok)
    BY <1>2 DEF DeleteExtraJob
  <2>2. applied /\ jobs[n] # NoJob
    BY <2>1, ReturnAsleep DEF Writes
  <2>3. n \in JobNames
    BY <1>b, <2>1 DEF Pass
  <2> QED
    BY <1>a, <1>b, <2>1, <2>2, <2>3
<1> QED
  BY <1>1, <1>2

\* A teardown ends awake, or with the workbench gone.
LEMMA TeardownSettles ==
    ASSUME IInv, RestInv, Asleep',
           ListJobs \/ DeleteJobs \/ ListDeployments \/ DeleteDeployments \/ RemoveFinalizer
    PROVE  Settled'
<1>0. pc \in TeardownSteps /\ pc \notin {"idle", "writeServerStatus", "writeAppStatus"} /\ Reconcile /\ ~BeginPass
  BY DEF ListJobs, DeleteJobs, ListDeployments, DeleteDeployments, RemoveFinalizer, TeardownSteps,
     Reconcile, BeginPass
<1>a. Asleep /\ UNCHANGED <<wb, dep, svc, jobs>>
  BY <1>0, CallsAsleep DEF IInv
<1>b. /\ pass \in Pass /\ wb \in Workbench /\ pass.wb = wb /\ pass.found \subseteq Accounted
      /\ Remembered
  BY <1>0, <1>a, AsleepKnows
<1>1. ASSUME NEW step \in TeardownSteps, NEW p, Goto(step, p),
             p.wb = pass.wb, p.found = pass.found, p.status = pass.status
      PROVE  Settled'
  <2>1. pc' = step /\ pass' = p
    BY <1>1 DEF Goto, TeardownSteps
  <2> QED
    BY <1>1, <1>a, <1>b, <2>1, AppsFrame, EarlySettles DEF Remembered
<1>2. CASE RemoveFinalizer
  <2>1. PICK ok \in BOOLEAN, applied \in BOOLEAN :
          /\ Writes("removeFinalizer", wb = pass.wb, ok, applied)
          /\ wb' = IF applied THEN [pass.wb EXCEPT !.finalizer = FALSE, !.phase = "gone"] ELSE wb
          /\ Return(~ok)
    BY <1>2 DEF RemoveFinalizer
  <2>2. ok /\ applied
    BY <2>1, ReturnAsleep DEF Writes
  <2>3. pc' = "idle" /\ wb'.phase = "gone"
    BY <1>b, <2>1, <2>2 DEF Return, Workbench
  <2> QED
    BY <2>3 DEF Settled, PassOnCurrent, AppsSettled, ServerSettled, ReadySettled, StatusSettled,
       PastGate, LoopSteps
<1>3. CASE ListJobs
  <2>1. \/ Return(TRUE)
        \/ Goto("deleteJobs", pass)
        \/ Goto("listDeployments", Missing(pass, Children # {}))
    BY <1>3 DEF ListJobs
  <2> QED
    BY <1>1, <1>b, <2>1, MissingType, ReturnAsleep DEF TeardownSteps
<1>4. CASE ListDeployments
  <2>1. \/ Return(TRUE)
        \/ Goto("deleteDeployments", pass)
        \/ Goto("removeFinalizer", Missing(pass, dep # NoDeployment))
    BY <1>4 DEF ListDeployments
  <2> QED
    BY <1>1, <1>b, <2>1, MissingType, ReturnAsleep DEF TeardownSteps
<1>5. CASE DeleteJobs \/ DeleteDeployments
  BY <1>5, ReturnAsleep DEF DeleteJobs, DeleteDeployments
<1> QED
  BY <1>2, <1>3, <1>4, <1>5

-----------------------------------------------------------------------------
(* RestInv is inductive. *)

\* A pass that begins, and leaves nothing to wake the worker, has read the current
\* workbench; it ends at once only if that is gone.
LEMMA BeginPassSettles ==
    ASSUME IInv, RestInv, Asleep', BeginPass
    PROVE  Settled'
<1>1. PICK ok \in BOOLEAN :
        LET first == IF ok THEN FirstStep(Seen.wb) ELSE "idle"
        IN /\ pc' = first
           /\ pass' = IF first = "idle" THEN NoPass ELSE NewPass(Seen.wb)
           /\ queued' = ~ok
  BY DEF BeginPass
<1>2. UNCHANGED <<wb, dep, svc, jobs>> /\ TypeOK /\ wb \in Workbench
  BY ObjectsType DEF BeginPass, api, IInv
<1>3. ok /\ Seen.wb = wb
  <2>1. \A k \in Kinds \ {"pod"} : k \notin news
    BY DEF Asleep, BeginPass, InPass, Notify
  <2> QED
    BY <1>1, <2>1 DEF RestInv, ReadsCurrent, Now, Kinds, Asleep
<1>4. pc' = FirstStep(wb) /\ (pc' # "idle" => pass' = NewPass(wb))
  BY <1>1, <1>3
<1>5. CASE pc' = "idle"
  <2>1. wb.phase = "gone"
    BY <1>2, <1>4, <1>5 DEF FirstStep, RestInv, DeletionWaits, Workbench
  <2> QED
    BY <1>2, <1>5, <2>1 DEF Settled, PassOnCurrent, AppsSettled, ServerSettled, ReadySettled,
       StatusSettled, PastGate, LoopSteps
<1>6. CASE pc' # "idle"
  <2>1. pc' \in {"getDeployment", "addFinalizer"} \cup TeardownSteps
    BY <1>4, <1>6 DEF FirstStep, TeardownSteps
  <2>2. pass'.wb = wb' /\ pass'.found \subseteq Accounted' /\ Remembered'
    BY <1>2, <1>4, <1>6 DEF NewPass, Remembered
  <2> QED
    BY <2>1, <2>2, EarlySettles
<1> QED
  BY <1>5, <1>6

\* A restart leaves the worker asleep only if there is nothing to look after.
LEMMA CrashSettles ==
    ASSUME Asleep', Crash
    PROVE  Settled'
<1>1. pc' = "idle" /\ wb'.phase = "gone"
  BY DEF Crash, Asleep, api
<1> QED
  BY <1>1 DEF Settled, PassOnCurrent, AppsSettled, ServerSettled, ReadySettled, StatusSettled,
     PastGate, LoopSteps

\* What others do wakes the worker, or does not concern it.
LEMMA OutsideSettles ==
    ASSUME IInv, RestInv, Informers \/ User \/ Cluster \/ UNCHANGED vars
    PROVE  Settled'
<1>0. TypeOK /\ Settled
  BY DEF IInv, RestInv, Settled
<1>1. UNCHANGED <<pc, pass>> /\ (queued => queued')
  BY <1>0, OutsideMoves
<1> SUFFICES ASSUME Asleep' PROVE Settled'
  BY AwakeSettles
<1>2. CASE Informers
  <2>1. DeliverPods /\ UNCHANGED <<wb, dep, svc, jobs>>
    BY <1>2 DEF Informers, DeliverWorkbench, DeliverDeployment, DeliverService, DeliverJobs,
       DeliverPods, Deliver, Resync, Asleep, api
  <2>2. Asleep
    BY <2>1 DEF DeliverPods, Deliver, Asleep
  <2> QED
    BY <1>0, <1>1, <2>1, <2>2, SettledFrame
<1>3. CASE User
  <2>1. Notify
    BY <1>3 DEF User, EditApp, EditVersion, Edits, DeleteWorkbench
  <2> QED
    BY <1>0, <1>1, <2>1, StillAsleep, SettledFrame
<1>4. CASE Cluster
  <2>1. Notify
    BY <1>4 DEF Cluster, ByCluster, SyncDeployment, PodBecomesReady, CollectPod, PodFails,
       LoseDeployment, CollectGarbage, JobStarts, JobHalts, JobEnds, JobExpires, JobMoves
  <2> QED
    BY <1>0, <1>1, <2>1, StillAsleep, SettledFrame
<1>5. CASE UNCHANGED vars
  BY <1>0, <1>5, SettledFrame DEF vars, api, worker, Asleep
<1> QED
  BY <1>2, <1>3, <1>4, <1>5

\* Every step leaves what is settled settled.
LEMMA SettledStep == IInv /\ RestInv /\ [Next]_vars => Settled'
<1> SUFFICES ASSUME IInv, RestInv, [Next]_vars, Asleep' PROVE Settled'
  BY AwakeSettles
<1>1. CASE BeginPass \/ Crash
  BY <1>1, BeginPassSettles, CrashSettles
<1>2. CASE AddFinalizer \/ GetDeployment \/ CreateDeployment \/ ListPods
  BY <1>2, ServerStepsSettle
<1>3. CASE WriteServerStatus \/ UpdateDeployment
  BY <1>3, UpdateStepsSettle
<1>4. CASE GetService \/ CreateService
  BY <1>4, ServiceStepsSettle
<1>5. CASE InvalidApp \/ GetJob
  BY <1>5, AppStepsSettle
<1>6. CASE CreateJob \/ UpdateJob \/ WriteAppStatus
  BY <1>6, JobStepsSettle, WriteAppStatusSettles
<1>7. CASE ListExtraJobs \/ DeleteExtraJob
  BY <1>7, SweepStepsSettle
<1>8. CASE ListJobs \/ DeleteJobs \/ ListDeployments \/ DeleteDeployments \/ RemoveFinalizer
  BY <1>8, TeardownSettles
<1>9. CASE Informers \/ User \/ Cluster \/ UNCHANGED vars
  BY <1>9, OutsideSettles
<1> QED
  BY <1>1, <1>2, <1>3, <1>4, <1>5, <1>6, <1>7, <1>8, <1>9 DEF Next, Reconcile

\* At first the workbench is queued, and nothing was ever ready.
LEMMA RestInit == Init => RestInv
<1> SUFFICES ASSUME Init PROVE RestInv
  OBVIOUS
<1>1. /\ wb.phase = "live" /\ ~wb.status.ready /\ Seen = Now /\ pc = "idle" /\ queued
      /\ dep = NoDeployment /\ ~pod
  BY DEF Init, NoStatus, Seen
<1>2. ~Asleep
  BY <1>1 DEF Asleep
<1>3. Seen.pod = pod /\ Seen.wb = wb
  BY <1>1 DEF Now
<1> QED
  BY <1>1, <1>2, <1>3 DEF RestInv, ReadsCurrent, DeletionWaits, PassOnLive, PassOnCurrent, AppsSettled,
     RunsAnImage, NeverReady, ServerSettled, ReadySettled, StatusSettled, LiveSteps, CreateSteps

\* The invariant behind the theorems below: what a pass has established is so as
\* long as nothing is to wake the worker, however stale the cache it began with.
THEOREM RestInductive == Spec => []RestInv
<1>1. IInv /\ RestInv /\ [Next]_vars => RestInv'
  <2> SUFFICES ASSUME IInv, RestInv, [Next]_vars PROVE RestInv'
    OBVIOUS
  <2>1. TypeOK /\ ReadsCurrent /\ DeletionWaits /\ PassOnLive /\ RunsAnImage /\ NeverReady
    BY DEF IInv, RestInv
  <2>2. ReadsCurrent' /\ DeletionWaits' /\ PassOnLive' /\ RunsAnImage' /\ NeverReady'
    BY <2>1, ReadsCurrentStep, DeletionWaitsStep, PassOnLiveStep, RunsAnImageStep, NeverReadyStep
  <2> QED
    BY <2>2, SettledStep DEF RestInv, Settled
<1> QED
  BY <1>1, RestInit, Inductive, PTL DEF Spec

\* A worker that rests is asleep and idle.
LEMMA QuietAsleep == Quiet => Asleep /\ pc = "idle"
BY DEF Quiet, Asleep

\* No wakeup is lost: the operator comes to rest only with the cluster as the spec
\* asks, or with the workbench gone, for every number of apps, edits, failures,
\* restarts and disruptions, however stale the cache, and even if names of jobs
\* collide. It takes that no failed read of the deployment is forgotten, nor a failed
\* creation of one that was lost.
THEOREM RestIsConvergence == DeploymentErrorsKept => (Spec => []RestsConverged)
<1> SUFFICES ASSUME DeploymentErrorsKept PROVE Spec => []RestsConverged
  OBVIOUS
<1>1. RestInv => RestsConverged
  BY QuietAsleep DEF RestInv, AppsSettled, ServerSettled, RestsConverged, Converged
<1> QED
  BY <1>1, RestInductive, PTL

\* The applications' half of Converged.
AppsRest ==
    Quiet /\ wb.phase # "gone" =>
        wb.phase = "live" /\ svc /\ Children \subseteq Accounted /\ \A u \in Uids : JobAsWanted(u)

\* Whatever else is lost, the services, jobs and sweeps of a workbench that rests are
\* as its spec asks: no condition on the failures.
THEOREM AppsRestConverged == Spec => []AppsRest
<1>1. RestInv => AppsRest
  BY QuietAsleep DEF RestInv, AppsSettled, AppsRest
<1> QED
  BY <1>1, RestInductive, PTL

\* A workbench rests only with its server ready in its status, if the write of that
\* status is not among the calls whose failure is only logged.
THEOREM RestIsOpen == "writeServerStatus" \notin Faulty => (Spec => []RestsOpen)
<1> SUFFICES ASSUME "writeServerStatus" \notin Faulty PROVE Spec => []RestsOpen
  OBVIOUS
<1>1. RestInv => RestsOpen
  BY QuietAsleep DEF RestInv, ReadySettled, RestsOpen
<1> QED
  BY <1>1, RestInductive, PTL

\* A workbench rests only with the status of every app up to date, if the write of it
\* is not among the calls whose failure is only logged.
THEOREM RestIsAccurate == "writeAppStatus" \notin Faulty => (Spec => []RestsAccurate)
<1> SUFFICES ASSUME "writeAppStatus" \notin Faulty PROVE Spec => []RestsAccurate
  OBVIOUS
<1>1. RestInv => RestsAccurate
  BY QuietAsleep DEF RestInv, StatusSettled, RestsAccurate
<1> QED
  BY <1>1, RestInductive, PTL

=============================================================================
