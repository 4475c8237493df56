---------------------- MODULE WorkbenchReconcilerProofs ----------------------
(***************************************************************************)
(* Theorems of WorkbenchReconciler, for every value of its constants.      *)
(***************************************************************************)
EXTENDS WorkbenchReconciler, TLAPS

USE DEF Absent

-----------------------------------------------------------------------------
(* Facts about the shapes of the objects. *)

\* The records that stand for an absent or a new object have the shape of one.
LEMMA Shapes ==
    /\ NoDeployment \in Deployment
    /\ NoJob \in Job /\ FreshJob \in Job /\ FreshJob # NoJob
    /\ NoStatus \in Status
    /\ \A w \in Workbench : NewPass(w) \in Pass
BY DEF NoDeployment, Deployment, NoJob, FreshJob, Job, JobPhases, NoStatus, Status,
       AppStatuses, Workbench, NewPass, Pass

\* What a client reads has the shape of the objects, cached or not.
LEMMA SeenShape ==
    ASSUME TypeOK
    PROVE  /\ Seen \in Objects
           /\ Seen.wb \in Workbench /\ Seen.dep \in Deployment
           /\ Seen.pod \in BOOLEAN /\ Seen.svc \in BOOLEAN
           /\ Seen.jobs \in [JobNames -> Job]
BY ConstantsAssumption DEF TypeOK, Seen, Objects, Now

\* A call leaves the count of faults within its bound.
LEMMA FaultsBounded ==
    ASSUME TypeOK, NEW site, NEW accepted \in BOOLEAN, NEW ok \in BOOLEAN, NEW applied \in BOOLEAN,
           Reads(site, ok) \/ Writes(site, accepted, ok, applied)
    PROVE  faults' \in 0 .. MaxFaults
BY ConstantsAssumption DEF TypeOK, Reads, Writes, Fails

\* The name of an app's job is a job name.
LEMMA JobNameType ==
    ASSUME NEW w \in Workbench, NEW u \in Uids
    PROVE  NameOf(w, u) \in JobNames /\ w.apps[u] \in App
BY ConstantsAssumption DEF NameOf, Workbench, App

\* The events to deliver are those of objects.
LEMMA NewsType == ASSUME TypeOK, Notify PROVE news' \subseteq Kinds
BY DEF TypeOK, Notify

-----------------------------------------------------------------------------
(* Type correctness. *)

\* Goto and Return keep the worker's variables well formed.
LEMMA GotoType ==
    ASSUME WorkerTypeOK, NEW step \in Steps \ {"idle"}, NEW p \in Pass,
           step \in {"createJob", "writeAppStatus", "updateJob"} => p.app \in Uids,
           Goto(step, p)
    PROVE  WorkerTypeOK'
<1>1. [p EXCEPT !.app = "none", !.job = NoJob] \in Pass
  BY Shapes DEF Pass
<1>2. QED
  BY <1>1 DEF WorkerTypeOK, Goto

\* A pass that returns leaves the worker idle and without memory.
LEMMA ReturnType ==
    ASSUME WorkerTypeOK, NEW requeue \in BOOLEAN, Return(requeue)
    PROVE  WorkerTypeOK'
BY DEF WorkerTypeOK, Return, Steps

\* A step of a pass: what is left is the objects and the worker.
LEMMA PassStepType ==
    ASSUME TypeOK, InPass, faults' \in 0 .. MaxFaults, Now' \in Objects, WorkerTypeOK'
    PROVE  TypeOK'
BY NewsType DEF TypeOK, InPass

\* The objects, with one of them replaced.
LEMMA ObjectsType ==
    ASSUME TypeOK
    PROVE  /\ wb \in Workbench /\ dep \in Deployment /\ pod \in BOOLEAN /\ svc \in BOOLEAN
           /\ jobs \in [JobNames -> Job]
           /\ wb' \in Workbench /\ dep' \in Deployment /\ pod' \in BOOLEAN /\ svc' \in BOOLEAN
              /\ jobs' \in [JobNames -> Job] => Now' \in Objects
BY DEF TypeOK, Now, Objects

\* The call BeginPass keeps every variable in its type.
LEMMA BeginPassType == TypeOK /\ BeginPass => TypeOK'
<1> SUFFICES ASSUME TypeOK, BeginPass PROVE TypeOK'
  OBVIOUS
<1>1. PICK ok \in BOOLEAN :
        LET first == IF ok THEN FirstStep(Seen.wb) ELSE "idle"
        IN /\ Reads("getWorkbench", ok)
           /\ pc' = first
           /\ pass' = IF first = "idle" THEN NoPass ELSE NewPass(Seen.wb)
           /\ queued' = ~ok
  BY DEF BeginPass
<1>2. FirstStep(Seen.wb) \in {"getDeployment", "addFinalizer", "listJobs", "idle"}
  BY DEF FirstStep
<1>3. WorkerTypeOK'
  BY <1>1, <1>2, SeenShape, Shapes DEF WorkerTypeOK, Steps, LiveSteps, TeardownSteps
<1>4. InPass /\ UNCHANGED api
  BY DEF BeginPass
<1>5. QED
  BY <1>1, <1>3, <1>4, FaultsBounded, ObjectsType, PassStepType DEF api

\* The call AddFinalizer keeps every variable in its type.
LEMMA AddFinalizerType == TypeOK /\ AddFinalizer => TypeOK'
<1> SUFFICES ASSUME TypeOK, AddFinalizer PROVE TypeOK'
  OBVIOUS
<1>1. PICK ok \in BOOLEAN, applied \in BOOLEAN :
        /\ Writes("addFinalizer", wb = pass.wb, ok, applied)
        /\ wb' = IF applied THEN [pass.wb EXCEPT !.finalizer = TRUE] ELSE wb
        /\ IF ok THEN Goto("getDeployment", [pass EXCEPT !.wb.finalizer = TRUE])
                 ELSE Return(TRUE)
  BY DEF AddFinalizer
<1>2. pass \in Pass /\ WorkerTypeOK
  BY DEF AddFinalizer, TypeOK, WorkerTypeOK
<1>3. [pass EXCEPT !.wb.finalizer = TRUE] \in Pass
  BY <1>2 DEF Pass, Workbench
<1>4. WorkerTypeOK'
  BY <1>1, <1>2, <1>3, GotoType, ReturnType DEF Steps, LiveSteps
<1>5. wb' \in Workbench
  BY <1>1, ObjectsType DEF Writes, Workbench
<1>6. InPass /\ UNCHANGED <<dep, pod, svc, jobs>>
  BY DEF AddFinalizer
<1>7. QED
  BY <1>1, <1>4, <1>5, <1>6, FaultsBounded, ObjectsType, PassStepType

\* The call GetDeployment keeps every variable in its type.
LEMMA GetDeploymentType == TypeOK /\ GetDeployment => TypeOK'
<1> SUFFICES ASSUME TypeOK, GetDeployment PROVE TypeOK'
  OBVIOUS
<1>1. PICK ok \in BOOLEAN :
        /\ Reads("getDeployment", ok)
        /\ \/ Goto("getService", pass)
           \/ Goto("createDeployment", pass)
           \/ Goto("listPods", [pass EXCEPT !.dep = Seen.dep])
  BY DEF GetDeployment
<1>2. pass \in Pass /\ WorkerTypeOK
  BY DEF GetDeployment, TypeOK, WorkerTypeOK
<1>3. [pass EXCEPT !.dep = Seen.dep] \in Pass
  BY <1>2, SeenShape DEF Pass
<1>4. WorkerTypeOK'
  BY <1>1, <1>2, <1>3, GotoType, ReturnType DEF Steps, LiveSteps, CreateSteps, TeardownSteps
<1>6. InPass /\ UNCHANGED api
  BY DEF GetDeployment
<1> QED
  BY <1>1, <1>4, <1>6, FaultsBounded, ObjectsType, PassStepType DEF api

\* The call CreateDeployment keeps every variable in its type.
LEMMA CreateDeploymentType == TypeOK /\ CreateDeployment => TypeOK'
<1> SUFFICES ASSUME TypeOK, CreateDeployment PROVE TypeOK'
  OBVIOUS
<1> DEFINE new == [image |-> pass.wb.version, available |-> FALSE]
<1>1. PICK ok \in BOOLEAN, applied \in BOOLEAN :
        /\ Writes("createDeployment", dep = NoDeployment, ok, applied)
        /\ dep' = IF applied THEN new ELSE dep
        /\ IF ok THEN Goto("listPods", [pass EXCEPT !.dep = new])
                 ELSE Goto("getService", pass)
  BY DEF CreateDeployment
<1>2. pass \in Pass /\ WorkerTypeOK
  BY DEF CreateDeployment, TypeOK, WorkerTypeOK
<1>3. new \in Deployment /\ [pass EXCEPT !.dep = new] \in Pass
  BY <1>2 DEF Pass, Workbench, Deployment
<1>4. WorkerTypeOK'
  BY <1>1, <1>2, <1>3, GotoType, ReturnType DEF Steps, LiveSteps, CreateSteps, TeardownSteps
<1>5. dep' \in Deployment
  BY <1>1, <1>3, ObjectsType
<1>6. InPass /\ UNCHANGED <<wb, pod, svc, jobs>>
  BY DEF CreateDeployment
<1> QED
  BY <1>1, <1>4, <1>5, <1>6, FaultsBounded, ObjectsType, PassStepType

\* The call ListPods keeps every variable in its type.
LEMMA ListPodsType == TypeOK /\ ListPods => TypeOK'
<1> SUFFICES ASSUME TypeOK, ListPods PROVE TypeOK'
  OBVIOUS
<1>1. PICK ok \in BOOLEAN, ready \in BOOLEAN :
        /\ Reads("listPods", ok)
        /\ Goto(IF ready # pass.status.ready THEN "writeServerStatus" ELSE AfterStatus(pass),
                [pass EXCEPT !.status.ready = ready])
  BY SeenShape DEF ListPods
<1>2. pass \in Pass /\ WorkerTypeOK
  BY DEF ListPods, TypeOK, WorkerTypeOK
<1>3. [pass EXCEPT !.status.ready = ready] \in Pass
  BY <1>2 DEF Pass, Status
<1>4. WorkerTypeOK'
  BY <1>1, <1>2, <1>3, GotoType DEF AfterStatus, Steps, LiveSteps
<1>6. InPass /\ UNCHANGED api
  BY DEF ListPods
<1> QED
  BY <1>1, <1>4, <1>6, FaultsBounded, ObjectsType, PassStepType DEF api

\* A status write stores a status of the right shape, or nothing.
LEMMA WriteStatusType ==
    ASSUME TypeOK, NEW site \in Steps, NEW next \in Steps \ {"idle"},
           next \in {"createJob", "writeAppStatus", "updateJob"} => pass.app \in Uids,
           site # "idle", WriteStatus(site, next)
    PROVE  TypeOK'
<1>1. PICK ok \in BOOLEAN, applied \in BOOLEAN :
        /\ Writes(site, wb = pass.wb, ok, applied)
        /\ wb' = IF applied THEN [wb EXCEPT !.status = pass.status] ELSE wb
        /\ Goto(next, IF ok THEN [pass EXCEPT !.wb.status = pass.status] ELSE pass)
  BY DEF WriteStatus
<1>2. pass \in Pass /\ WorkerTypeOK
  BY DEF WriteStatus, TypeOK, WorkerTypeOK
<1>3. [pass EXCEPT !.wb.status = pass.status] \in Pass
  BY <1>2 DEF Pass, Workbench
<1>4. WorkerTypeOK'
  BY <1>1, <1>2, <1>3, GotoType DEF Pass
<1>5. wb' \in Workbench
  BY <1>1, <1>2, ObjectsType DEF Workbench, Pass
<1>6. InPass /\ UNCHANGED <<dep, pod, svc, jobs>>
  BY DEF WriteStatus
<1> QED
  BY <1>1, <1>4, <1>5, <1>6, FaultsBounded, ObjectsType, PassStepType

\* The call WriteServerStatus keeps every variable in its type.
LEMMA WriteServerStatusType == TypeOK /\ WriteServerStatus => TypeOK'
BY WriteStatusType DEF WriteServerStatus, AfterStatus, Steps, LiveSteps

\* The call WriteAppStatus keeps every variable in its type.
LEMMA WriteAppStatusType == TypeOK /\ WriteAppStatus => TypeOK'
<1> SUFFICES ASSUME TypeOK, WriteAppStatus PROVE TypeOK'
  OBVIOUS
<1>1. pc = "writeAppStatus" /\ pass.app \in Uids
  BY DEF WriteAppStatus, WriteStatus, TypeOK, WorkerTypeOK
<1> QED
  BY <1>1, WriteStatusType DEF WriteAppStatus, AfterAppStatus, Steps, LiveSteps

\* The call UpdateDeployment keeps every variable in its type.
LEMMA UpdateDeploymentType == TypeOK /\ UpdateDeployment => TypeOK'
<1> SUFFICES ASSUME TypeOK, UpdateDeployment PROVE TypeOK'
  OBVIOUS
<1>1. PICK ok \in BOOLEAN, applied \in BOOLEAN :
        /\ Writes("updateDeployment", dep = pass.dep, ok, applied)
        /\ dep' = IF applied THEN [pass.dep EXCEPT !.image = pass.wb.version] ELSE dep
        /\ IF ok THEN Goto("getService", pass) ELSE Return(TRUE)
  BY DEF UpdateDeployment
<1>2. pass \in Pass /\ WorkerTypeOK
  BY DEF UpdateDeployment, TypeOK, WorkerTypeOK
<1>4. WorkerTypeOK'
  BY <1>1, <1>2, GotoType, ReturnType DEF Steps, LiveSteps, CreateSteps, TeardownSteps
<1>5. dep' \in Deployment
  BY <1>1, <1>2, ObjectsType DEF Deployment, Pass, Workbench
<1>6. InPass /\ UNCHANGED <<wb, pod, svc, jobs>>
  BY DEF UpdateDeployment
<1> QED
  BY <1>1, <1>4, <1>5, <1>6, FaultsBounded, ObjectsType, PassStepType

\* The gate leads to the loop over the apps or to the end of the pass.
LEMMA GateType == ASSUME TypeOK, pc # "idle", Gate PROVE WorkerTypeOK'
<1> DEFINE visits == [pass EXCEPT !.todo = {u \in Uids : pass.wb.apps[u].state # "none"}]
<1>1. pass \in Pass /\ WorkerTypeOK
  BY DEF TypeOK, WorkerTypeOK
<1>2. visits \in Pass
  BY <1>1 DEF Pass
<1> QED
  BY <1>1, <1>2, GotoType, ReturnType DEF Gate, Steps, LiveSteps

\* The call GetService keeps every variable in its type.
LEMMA GetServiceType == TypeOK /\ GetService => TypeOK'
<1> SUFFICES ASSUME TypeOK, GetService PROVE TypeOK'
  OBVIOUS
<1>1. PICK ok \in BOOLEAN :
        /\ Reads("getService", ok)
        /\ Return(TRUE) \/ Gate \/ Goto("createService", pass)
  BY DEF GetService
<1>2. pass \in Pass /\ WorkerTypeOK
  BY DEF GetService, TypeOK, WorkerTypeOK
<1>3. pc # "idle"
  BY DEF GetService
<1>4. WorkerTypeOK'
  BY <1>1, <1>2, <1>3, GateType, GotoType, ReturnType DEF Steps, LiveSteps, CreateSteps
<1>6. InPass /\ UNCHANGED api
  BY DEF GetService
<1> QED
  BY <1>1, <1>4, <1>6, FaultsBounded, ObjectsType, PassStepType DEF api

\* The call CreateService keeps every variable in its type.
LEMMA CreateServiceType == TypeOK /\ CreateService => TypeOK'
<1> SUFFICES ASSUME TypeOK, CreateService PROVE TypeOK'
  OBVIOUS
<1>1. PICK ok \in BOOLEAN, applied \in BOOLEAN :
        /\ Writes("createService", ~svc, ok, applied)
        /\ svc' = (svc \/ applied)
        /\ Return(TRUE) \/ Gate
  BY DEF CreateService
<1>2. pass \in Pass /\ WorkerTypeOK
  BY DEF CreateService, TypeOK, WorkerTypeOK
<1>3. pc # "idle"
  BY DEF CreateService
<1>4. WorkerTypeOK'
  BY <1>1, <1>2, <1>3, GateType, ReturnType
<1>5. svc' \in BOOLEAN
  BY <1>1, ObjectsType
<1>6. InPass /\ UNCHANGED <<wb, dep, pod, jobs>>
  BY DEF CreateService
<1> QED
  BY <1>1, <1>4, <1>5, <1>6, FaultsBounded, ObjectsType, PassStepType

\* Noting the status of an app leads to its write, to updateJob or on to the next app.
LEMMA SetAppStatusType ==
    ASSUME WorkerTypeOK, NEW p \in Pass, p.app \in Uids, NEW status \in AppStatuses,
           SetAppStatus(p, status)
    PROVE  WorkerTypeOK'
<1>1. [p EXCEPT !.status.apps[p.app] = status] \in Pass
  BY DEF Pass, Status
<1>2. [p EXCEPT !.status.apps[p.app] = status].app \in Uids
  OBVIOUS
<1> QED
  BY <1>1, <1>2, GotoType DEF SetAppStatus, AfterAppStatus, Steps, LiveSteps

\* Visiting an app keeps the memory of the pass well formed.
LEMMA VisitType ==
    ASSUME pass \in Pass, NEW u \in pass.todo
    PROVE  u \in Uids /\ Visit(u) \in Pass /\ Visit(u).app = u
BY DEF Visit, Pass

\* The call InvalidApp keeps every variable in its type.
LEMMA InvalidAppType == TypeOK /\ InvalidApp => TypeOK'
<1> SUFFICES ASSUME TypeOK, InvalidApp PROVE TypeOK'
  OBVIOUS
<1>1. PICK u \in pass.todo : SetAppStatus(Visit(u), "Failed")
  BY DEF InvalidApp
<1>2. pass \in Pass /\ WorkerTypeOK
  BY DEF InvalidApp, TypeOK, WorkerTypeOK
<1>3. WorkerTypeOK'
  BY <1>1, <1>2, VisitType, SetAppStatusType DEF AppStatuses
<1>4. InPass /\ UNCHANGED <<api, faults>>
  BY DEF InvalidApp
<1> QED
  BY <1>3, <1>4, ObjectsType, PassStepType DEF api, TypeOK

\* What a read has missed changes nothing else that the pass remembers.
LEMMA MissingType ==
    ASSUME NEW p \in Pass, NEW left \in BOOLEAN
    PROVE  /\ Missing(p, left) \in Pass
           /\ Missing(p, left).missed = (p.missed \/ left)
           /\ Missing(p, left).wb = p.wb /\ Missing(p, left).status = p.status
           /\ Missing(p, left).dep = p.dep /\ Missing(p, left).job = p.job
           /\ Missing(p, left).app = p.app /\ Missing(p, left).todo = p.todo
           /\ Missing(p, left).found = p.found
BY DEF Missing, Pass

\* The call GetJob keeps every variable in its type.
LEMMA GetJobType == TypeOK /\ GetJob => TypeOK'
<1> SUFFICES ASSUME TypeOK, GetJob PROVE TypeOK'
  OBVIOUS
<1> DEFINE name(u) == NameOf(pass.wb, u)
           job(u) == Seen.jobs[name(u)]
<1>1. PICK u \in pass.todo, ok \in BOOLEAN :
        /\ Reads("getJob", ok)
        /\ \/ Return(TRUE)
           \/ Goto("apps", Missing(Visit(u), jobs[name(u)] # NoJob))
           \/ Goto("createJob", Visit(u))
           \/ SetAppStatus(Counted([Visit(u) EXCEPT !.job = job(u)]),
                           JobStatus(job(u)))
  BY DEF GetJob
<1>2. pass \in Pass /\ WorkerTypeOK
  BY DEF GetJob, TypeOK, WorkerTypeOK
<1>3. /\ u \in Uids /\ Visit(u) \in Pass /\ Visit(u).app = u
      /\ name(u) \in JobNames /\ job(u) \in Job
  BY <1>2, VisitType, JobNameType, SeenShape DEF Pass
<1>a. Counted([Visit(u) EXCEPT !.job = job(u)]) \in Pass
  BY <1>2, <1>3 DEF Counted, Visit, Pass
<1>b. Counted([Visit(u) EXCEPT !.job = job(u)]).app = u
  BY <1>3 DEF Counted, Pass
<1>c. Missing(Visit(u), jobs[name(u)] # NoJob) \in Pass
  BY <1>3, MissingType
<1>4. WorkerTypeOK'
  BY <1>1, <1>2, <1>3, <1>a, <1>b, <1>c, SetAppStatusType, GotoType, ReturnType
     DEF JobStatus, AppStatuses, Steps, LiveSteps, CreateSteps
<1>6. InPass /\ UNCHANGED api
  BY DEF GetJob
<1> QED
  BY <1>1, <1>4, <1>6, FaultsBounded, ObjectsType, PassStepType DEF api

\* The call CreateJob keeps every variable in its type.
LEMMA CreateJobType == TypeOK /\ CreateJob => TypeOK'
<1> SUFFICES ASSUME TypeOK, CreateJob PROVE TypeOK'
  OBVIOUS
<1> DEFINE name == NameOf(pass.wb, pass.app)
<1>1. PICK ok \in BOOLEAN, applied \in BOOLEAN :
        /\ Writes("createJob", jobs[name] = NoJob, ok, applied)
        /\ jobs' = IF applied THEN [jobs EXCEPT ![name] = FreshJob] ELSE jobs
        /\ IF ok THEN Goto("apps", Counted(pass))
                 ELSE Return(TRUE)
  BY DEF CreateJob
<1>2. pass \in Pass /\ WorkerTypeOK
  BY DEF CreateJob, TypeOK, WorkerTypeOK
<1>3. name \in JobNames
  BY <1>2, JobNameType DEF CreateJob, WorkerTypeOK, Pass
<1>a. Counted(pass) \in Pass
  BY <1>2, <1>3 DEF Counted, Pass
<1>4. WorkerTypeOK'
  BY <1>1, <1>2, <1>a, GotoType, ReturnType DEF Steps, LiveSteps
<1>5. jobs' \in [JobNames -> Job]
  BY <1>1, <1>3, ObjectsType, Shapes
<1>6. InPass /\ UNCHANGED <<wb, dep, pod, svc>>
  BY DEF CreateJob
<1> QED
  BY <1>1, <1>4, <1>5, <1>6, FaultsBounded, ObjectsType, PassStepType

\* The call UpdateJob keeps every variable in its type.
LEMMA UpdateJobType == TypeOK /\ UpdateJob => TypeOK'
<1> SUFFICES ASSUME TypeOK, UpdateJob PROVE TypeOK'
  OBVIOUS
<1> DEFINE name == NameOf(pass.wb, pass.app)
<1>1. PICK ok \in BOOLEAN, applied \in BOOLEAN :
        /\ Writes("updateJob", jobs[name] = pass.job, ok, applied)
        /\ jobs' = IF applied
                   THEN [jobs EXCEPT ![name] =
                           [pass.job EXCEPT !.suspend = Suspended(pass.wb, pass.app)]]
                   ELSE jobs
        /\ IF ok THEN Goto("apps", pass) ELSE Return(TRUE)
  BY DEF UpdateJob
<1>2. pass \in Pass /\ WorkerTypeOK
  BY DEF UpdateJob, TypeOK, WorkerTypeOK
<1>3. name \in JobNames
  BY <1>2, JobNameType DEF UpdateJob, WorkerTypeOK, Pass
<1>4. WorkerTypeOK'
  BY <1>1, <1>2, GotoType, ReturnType DEF Steps, LiveSteps
<1>5. jobs' \in [JobNames -> Job]
  BY <1>1, <1>2, <1>3, ObjectsType DEF Pass, Job, Suspended
<1>6. InPass /\ UNCHANGED <<wb, dep, pod, svc>>
  BY DEF UpdateJob
<1> QED
  BY <1>1, <1>4, <1>5, <1>6, FaultsBounded, ObjectsType, PassStepType

\* The call ListExtraJobs keeps every variable in its type.
LEMMA ListExtraJobsType == TypeOK /\ ListExtraJobs => TypeOK'
<1> SUFFICES ASSUME TypeOK, ListExtraJobs PROVE TypeOK'
  OBVIOUS
<1> DEFINE extra == {n \in JobNames : Seen.jobs[n] # NoJob} \ pass.found
<1>1. PICK ok \in BOOLEAN :
        /\ Reads("listJobs", ok)
        /\ \/ Goto("deleteJob", [pass EXCEPT !.doomed = extra])
           \/ Return(~ok)
  BY DEF ListExtraJobs
<1>2. pass \in Pass /\ WorkerTypeOK
  BY DEF ListExtraJobs, TypeOK, WorkerTypeOK
<1>3. [pass EXCEPT !.doomed = extra] \in Pass
  BY <1>2 DEF Pass
<1>4. WorkerTypeOK'
  BY <1>1, <1>2, <1>3, GotoType, ReturnType DEF Steps, LiveSteps
<1>6. InPass /\ UNCHANGED api
  BY DEF ListExtraJobs
<1> QED
  BY <1>1, <1>4, <1>6, FaultsBounded, ObjectsType, PassStepType DEF api

\* The call DeleteExtraJob keeps every variable in its type.
LEMMA DeleteExtraJobType == TypeOK /\ DeleteExtraJob => TypeOK'
<1> SUFFICES ASSUME TypeOK, DeleteExtraJob PROVE TypeOK'
  OBVIOUS
<1>1. PICK n \in pass.doomed, ok \in BOOLEAN, applied \in BOOLEAN :
        /\ Writes("deleteJob", jobs[n] # NoJob, ok, applied)
        /\ jobs' = IF applied THEN [jobs EXCEPT ![n] = NoJob] ELSE jobs
        /\ \/ Goto("deleteJob", [pass EXCEPT !.doomed = @ \ {n}])
           \/ Return(~ok)
  BY DEF DeleteExtraJob
<1>2. pass \in Pass /\ WorkerTypeOK
  BY DEF DeleteExtraJob, TypeOK, WorkerTypeOK
<1>3. [pass EXCEPT !.doomed = @ \ {n}] \in Pass
  BY <1>2 DEF Pass
<1>4. WorkerTypeOK'
  BY <1>1, <1>2, <1>3, GotoType, ReturnType DEF Steps, LiveSteps
<1>5. jobs' \in [JobNames -> Job]
  BY <1>1, ObjectsType, Shapes
<1>6. InPass /\ UNCHANGED <<wb, dep, pod, svc>>
  BY DEF DeleteExtraJob
<1> QED
  BY <1>1, <1>4, <1>5, <1>6, FaultsBounded, ObjectsType, PassStepType

\* The call ListJobs keeps every variable in its type.
LEMMA ListJobsType == TypeOK /\ ListJobs => TypeOK'
<1> SUFFICES ASSUME TypeOK, ListJobs PROVE TypeOK'
  OBVIOUS
<1>1. PICK ok \in BOOLEAN :
        /\ Reads("listJobs", ok)
        /\ \/ Return(TRUE)
           \/ Goto("deleteJobs", pass)
           \/ Goto("listDeployments", Missing(pass, Children # {}))
  BY DEF ListJobs
<1>2. pass \in Pass /\ WorkerTypeOK
  BY DEF ListJobs, TypeOK, WorkerTypeOK
<1>3. Missing(pass, Children # {}) \in Pass
  BY <1>2, MissingType
<1>4. WorkerTypeOK'
  BY <1>1, <1>2, <1>3, GotoType, ReturnType DEF Steps, TeardownSteps
<1>6. InPass /\ UNCHANGED api
  BY DEF ListJobs
<1> QED
  BY <1>1, <1>4, <1>6, FaultsBounded, ObjectsType, PassStepType DEF api

\* The call DeleteJobs keeps every variable in its type.
LEMMA DeleteJobsType == TypeOK /\ DeleteJobs => TypeOK'
<1> SUFFICES ASSUME TypeOK, DeleteJobs PROVE TypeOK'
  OBVIOUS
<1>1. PICK ok \in BOOLEAN, applied \in BOOLEAN, kept \in SUBSET Children :
        /\ Writes("deleteJobs", TRUE, ok, applied)
        /\ jobs' = [n \in JobNames |->
                      IF applied /\ n \notin kept THEN NoJob ELSE jobs[n]]
        /\ Return(TRUE)
  BY DEF DeleteJobs
<1>2. pass \in Pass /\ WorkerTypeOK
  BY DEF DeleteJobs, TypeOK, WorkerTypeOK
<1>4. WorkerTypeOK'
  BY <1>1, <1>2, ReturnType
<1>5. jobs' \in [JobNames -> Job]
  BY <1>1, ObjectsType, Shapes
<1>6. InPass /\ UNCHANGED <<wb, dep, pod, svc>>
  BY DEF DeleteJobs
<1> QED
  BY <1>1, <1>4, <1>5, <1>6, FaultsBounded, ObjectsType, PassStepType

\* The call ListDeployments keeps every variable in its type.
LEMMA ListDeploymentsType == TypeOK /\ ListDeployments => TypeOK'
<1> SUFFICES ASSUME TypeOK, ListDeployments PROVE TypeOK'
  OBVIOUS
<1>1. PICK ok \in BOOLEAN :
        /\ Reads("listDeployments", ok)
        /\ \/ Return(TRUE)
           \/ Goto("deleteDeployments", pass)
           \/ Goto("removeFinalizer", Missing(pass, dep # NoDeployment))
  BY DEF ListDeployments
<1>2. pass \in Pass /\ WorkerTypeOK
  BY DEF ListDeployments, TypeOK, WorkerTypeOK
<1>3. Missing(pass, dep # NoDeployment) \in Pass
  BY <1>2, MissingType
<1>4. WorkerTypeOK'
  BY <1>1, <1>2, <1>3, GotoType, ReturnType DEF Steps, TeardownSteps
<1>6. InPass /\ UNCHANGED api
  BY DEF ListDeployments
<1> QED
  BY <1>1, <1>4, <1>6, FaultsBounded, ObjectsType, PassStepType DEF api

\* The call DeleteDeployments keeps every variable in its type.
LEMMA DeleteDeploymentsType == TypeOK /\ DeleteDeployments => TypeOK'
<1> SUFFICES ASSUME TypeOK, DeleteDeployments PROVE TypeOK'
  OBVIOUS
<1>1. PICK ok \in BOOLEAN, applied \in BOOLEAN :
        /\ Writes("deleteDeployments", TRUE, ok, applied)
        /\ dep' = IF applied THEN NoDeployment ELSE dep
        /\ Return(TRUE)
  BY DEF DeleteDeployments
<1>2. pass \in Pass /\ WorkerTypeOK
  BY DEF DeleteDeployments, TypeOK, WorkerTypeOK
<1>4. WorkerTypeOK'
  BY <1>1, <1>2, ReturnType
<1>5. dep' \in Deployment
  BY <1>1, ObjectsType, Shapes
<1>6. InPass /\ UNCHANGED <<wb, pod, svc, jobs>>
  BY DEF DeleteDeployments
<1> QED
  BY <1>1, <1>4, <1>5, <1>6, FaultsBounded, ObjectsType, PassStepType

\* The call RemoveFinalizer keeps every variable in its type.
LEMMA RemoveFinalizerType == TypeOK /\ RemoveFinalizer => TypeOK'
<1> SUFFICES ASSUME TypeOK, RemoveFinalizer PROVE TypeOK'
  OBVIOUS
<1>1. PICK ok \in BOOLEAN, applied \in BOOLEAN :
        /\ Writes("removeFinalizer", wb = pass.wb, ok, applied)
        /\ wb' = IF applied THEN [pass.wb EXCEPT !.finalizer = FALSE, !.phase = "gone"] ELSE wb
        /\ Return(~ok)
  BY DEF RemoveFinalizer
<1>2. pass \in Pass /\ WorkerTypeOK
  BY DEF RemoveFinalizer, TypeOK, WorkerTypeOK
<1>4. WorkerTypeOK'
  BY <1>1, <1>2, ReturnType
<1>5. wb' \in Workbench
  BY <1>1, ObjectsType DEF Writes, Workbench
<1>6. InPass /\ UNCHANGED <<dep, pod, svc, jobs>>
  BY DEF RemoveFinalizer
<1> QED
  BY <1>1, <1>4, <1>5, <1>6, FaultsBounded, ObjectsType, PassStepType

\* So does every call of a pass.
LEMMA ReconcileType == TypeOK /\ Reconcile => TypeOK'
BY BeginPassType, AddFinalizerType, GetDeploymentType, CreateDeploymentType, ListPodsType,
   WriteServerStatusType, UpdateDeploymentType, GetServiceType, CreateServiceType,
   InvalidAppType, GetJobType, CreateJobType, WriteAppStatusType, UpdateJobType,
   ListExtraJobsType, DeleteExtraJobType, ListJobsType, DeleteJobsType,
   ListDeploymentsType, DeleteDeploymentsType, RemoveFinalizerType
   DEF Reconcile

\* A crash keeps every variable in its type.
LEMMA CrashType == TypeOK /\ Crash => TypeOK'
<1> SUFFICES ASSUME TypeOK, Crash PROVE TypeOK'
  OBVIOUS
<1>1. faults' \in 0 .. MaxFaults
  BY ConstantsAssumption DEF Crash, Fails, TypeOK
<1>2. queued' \in BOOLEAN
  BY DEF Crash
<1>3. WorkerTypeOK'
  BY <1>2 DEF Crash, WorkerTypeOK, Steps
<1>4. Now' = Now /\ cache' = Now /\ news' = {} /\ UNCHANGED <<edits, disruptions>>
  BY DEF Crash, api, Now
<1> QED
  BY <1>1, <1>3, <1>4 DEF TypeOK

\* An informer delivers one object of the five.
LEMMA DeliverType ==
    ASSUME TypeOK, NEW kind \in Kinds, NEW current \in Objects,
           Deliver(kind, current), queued' \in BOOLEAN
    PROVE  TypeOK'
<1>1. cache' \in Objects /\ news' \subseteq Kinds /\ UNCHANGED <<api, pc, pass, budgets>>
  BY DEF Deliver, TypeOK
<1>2. WorkerTypeOK'
  BY <1>1 DEF WorkerTypeOK, TypeOK
<1>3. Now' = Now
  BY <1>1 DEF api, Now
<1> QED
  BY <1>1, <1>2, <1>3 DEF TypeOK, budgets

\* So does every delivery of the informers.
LEMMA InformersType == TypeOK /\ Informers => TypeOK'
<1> SUFFICES ASSUME TypeOK, Informers PROVE TypeOK'
  OBVIOUS
<1>1. /\ [cache EXCEPT !.wb = wb] \in Objects /\ [cache EXCEPT !.dep = dep] \in Objects
      /\ [cache EXCEPT !.svc = svc] \in Objects /\ [cache EXCEPT !.jobs = jobs] \in Objects
      /\ [cache EXCEPT !.pod = pod] \in Objects
  BY ObjectsType DEF TypeOK, Objects
<1>2. queued \in BOOLEAN
  BY DEF TypeOK, WorkerTypeOK
<1>3. CASE Resync
  <2>1. WorkerTypeOK' /\ Now' = Now
    BY <1>3 DEF Resync, TypeOK, WorkerTypeOK, api, Now
  <2> QED
    BY <1>3, <2>1 DEF Resync, TypeOK, budgets
<1> QED
  BY <1>1, <1>2, <1>3, DeliverType DEF Informers, DeliverWorkbench, DeliverDeployment,
     DeliverService, DeliverJobs, DeliverPods, Kinds

\* The user and the cluster leave the worker alone.
LEMMA OutsideType ==
    ASSUME TypeOK, Notify, UNCHANGED <<cache, worker, faults>>,
           edits' \in 0 .. MaxEdits, disruptions' \in 0 .. MaxDisruptions, Now' \in Objects
    PROVE  TypeOK'
BY NewsType DEF TypeOK, WorkerTypeOK, worker

\* So does every act of the user.
LEMMA UserType == TypeOK /\ User => TypeOK'
<1> SUFFICES ASSUME TypeOK, User PROVE TypeOK'
  OBVIOUS
<1>1. ASSUME NEW w \in Workbench, Edits(w) PROVE TypeOK'
  <2>1. edits' \in 0 .. MaxEdits
    BY <1>1, ConstantsAssumption DEF Edits, TypeOK
  <2> QED
    BY <1>1, <2>1, ObjectsType, OutsideType DEF Edits, TypeOK
<1>2. /\ \A u \in Uids, a \in App : [wb EXCEPT !.apps[u] = a] \in Workbench
      /\ \A v \in Versions : [wb EXCEPT !.version = v] \in Workbench
      /\ [wb EXCEPT !.phase = IF wb.finalizer THEN "terminating" ELSE "gone"] \in Workbench
  BY ObjectsType DEF Workbench
<1>3. CASE EditApp
  BY <1>1, <1>2, <1>3 DEF EditApp
<1>4. CASE EditVersion
  BY <1>1, <1>2, <1>4 DEF EditVersion
<1>5. CASE DeleteWorkbench
  BY <1>2, <1>5, ObjectsType, OutsideType DEF DeleteWorkbench, budgets, TypeOK
<1> QED
  BY <1>3, <1>4, <1>5 DEF User

\* So does every act of the controllers of the cluster.
LEMMA ClusterType == TypeOK /\ Cluster => TypeOK'
<1> SUFFICES ASSUME TypeOK, Cluster PROVE TypeOK'
  OBVIOUS
<1>1. ASSUME Disrupts PROVE disruptions' \in 0 .. MaxDisruptions
  BY <1>1, ConstantsAssumption DEF Disrupts, TypeOK
<1>2. ASSUME ByCluster, wb' = wb, dep' \in Deployment, pod' \in BOOLEAN, svc' \in BOOLEAN,
             jobs' \in [JobNames -> Job], disruptions' = disruptions \/ Disrupts
      PROVE  TypeOK'
  BY <1>1, <1>2, ObjectsType, OutsideType DEF ByCluster, TypeOK
<1>3. ASSUME NEW n \in JobNames, NEW job \in Job, JobMoves(n, job),
             disruptions' = disruptions \/ Disrupts
      PROVE  TypeOK'
  BY <1>2, <1>3, ObjectsType DEF JobMoves
<1>4. CASE SyncDeployment
  BY <1>2, <1>4, ObjectsType DEF SyncDeployment, Deployment
<1>5. CASE PodBecomesReady \/ CollectPod \/ PodFails
  BY <1>2, <1>5, ObjectsType DEF PodBecomesReady, CollectPod, PodFails
<1>6. CASE LoseDeployment
  BY <1>2, <1>6, ObjectsType, Shapes DEF LoseDeployment
<1>7. CASE CollectGarbage
  BY <1>2, <1>7, ObjectsType, Shapes DEF CollectGarbage, Children
<1>8. ASSUME NEW n \in JobNames, JobStarts(n) \/ JobHalts(n) \/ JobEnds(n) \/ JobExpires(n)
      PROVE  TypeOK'
  <2>1. /\ NoJob \in Job
        /\ \A phase \in JobPhases : [jobs[n] EXCEPT !.phase = phase] \in Job
    BY <1>8, ObjectsType, Shapes DEF Job
  <2> QED
    BY <1>3, <1>8, <2>1 DEF JobStarts, JobHalts, JobEnds, JobExpires, JobPhases
<1> QED
  BY <1>4, <1>5, <1>6, <1>7, <1>8 DEF Cluster

\* Every variable starts in its type.
LEMMA InitType == Init => TypeOK
<1> SUFFICES ASSUME Init PROVE TypeOK
  OBVIOUS
<1>1. wb \in Workbench
  BY Shapes DEF Init, Workbench
<1>2. Now \in Objects
  BY <1>1, Shapes DEF Init, Now, Objects
<1>3. WorkerTypeOK
  BY DEF Init, WorkerTypeOK, Steps
<1> QED
  BY <1>2, <1>3, ConstantsAssumption DEF Init, TypeOK

\* Every step keeps every variable in its type.
LEMMA NextType == TypeOK /\ [Next]_vars => TypeOK'
<1> SUFFICES ASSUME TypeOK, [Next]_vars PROVE TypeOK'
  OBVIOUS
<1>1. CASE UNCHANGED vars
  BY <1>1, ObjectsType
     DEF vars, api, worker, budgets, TypeOK, WorkerTypeOK, Now
<1> QED
  BY <1>1, ReconcileType, CrashType, InformersType, UserType, ClusterType DEF Next

\* Every variable of the operator and of its surroundings keeps its shape, and a
\* pass never runs without the memory its next call reads.
THEOREM TypeCorrect == Spec => []TypeOK
BY InitType, NextType, PTL DEF Spec

-----------------------------------------------------------------------------
(* The finalizer: IInv is inductive. *)

\* A call of a pass past its finalizer: whatever it does to the children, the
\* workbench keeps its phase and its finalizer.
LEMMA LiveStepInv ==
    ASSUME IInv, TypeOK', pc \in LiveSteps, pc' \in LiveSteps \cup {"idle"}, cache' = cache,
           wb'.phase = wb.phase, wb'.finalizer = wb.finalizer
    PROVE  IInv'
<1>1. wb'.phase # "gone" /\ wb'.finalizer
  BY DEF IInv, PassOfLive
<1>2. Seen'.wb.phase # "live" => wb'.phase # "live"
  BY DEF IInv, SeenDeletion, Seen, Now
<1>3. pc' # "addFinalizer" /\ pc' \notin TeardownSteps
  BY DEF LiveSteps, CreateSteps, TeardownSteps
<1> QED
  BY <1>1, <1>2, <1>3 DEF IInv, SeenFinalizer, SeenDeletion, PassOfLive, PassToFinalize,
     PassOfDeleted, FinalizerFirst

\* A call of a teardown pass, short of removing the finalizer: it creates nothing.
LEMMA TeardownStepInv ==
    ASSUME IInv, TypeOK', pc \in TeardownSteps, pc' \in TeardownSteps \cup {"idle"},
           pc' \in TeardownSteps => pass'.wb = pass.wb,
           cache' = cache, wb' = wb, HasChildren' => HasChildren
    PROVE  IInv'
<1>1. Seen'.wb = Seen.wb
  BY DEF Seen, Now
<1>2. pc' # "addFinalizer" /\ pc' \notin LiveSteps
  BY DEF LiveSteps, CreateSteps, TeardownSteps
<1> QED
  BY <1>1, <1>2 DEF IInv, SeenFinalizer, SeenDeletion, PassOfLive, PassToFinalize,
     PassOfDeleted, FinalizerFirst

\* The steps of a pass that has its finalizer stay among them until it returns.
LEMMA LiveStepsMove ==
    ASSUME TypeOK,
           \/ GetDeployment \/ CreateDeployment \/ ListPods \/ WriteServerStatus
           \/ UpdateDeployment \/ GetService \/ CreateService
           \/ InvalidApp \/ GetJob \/ CreateJob \/ WriteAppStatus \/ UpdateJob
           \/ ListExtraJobs \/ DeleteExtraJob
    PROVE  /\ pc \in LiveSteps /\ pc' \in LiveSteps \cup {"idle"} /\ cache' = cache
           /\ wb'.phase = wb.phase /\ wb'.finalizer = wb.finalizer
<1> USE DEF LiveSteps, CreateSteps, InPass, Goto, Return
<1>0. wb \in Workbench
  BY ObjectsType
<1>1. CASE GetDeployment
  BY <1>1 DEF GetDeployment, api
<1>2. CASE CreateDeployment
  BY <1>2 DEF CreateDeployment
<1>3. CASE ListPods
  BY <1>3 DEF ListPods, AfterStatus, api
<1>4. ASSUME WriteServerStatus \/ WriteAppStatus
      PROVE  wb'.phase = wb.phase /\ wb'.finalizer = wb.finalizer /\ cache' = cache
  BY <1>0, <1>4 DEF WriteServerStatus, WriteAppStatus, WriteStatus, Workbench
<1>5. CASE WriteServerStatus
  BY <1>4, <1>5 DEF WriteServerStatus, WriteStatus, AfterStatus
<1>6. CASE UpdateDeployment
  BY <1>6 DEF UpdateDeployment
<1>7. CASE GetService
  BY <1>7 DEF GetService, Gate, api
<1>8. CASE CreateService
  BY <1>8 DEF CreateService, Gate
<1>9. CASE InvalidApp
  BY <1>9 DEF InvalidApp, SetAppStatus, AfterAppStatus, api
<1>10. CASE GetJob
  <2>1. pc = "apps" /\ UNCHANGED <<wb, cache>>
    BY <1>10 DEF GetJob, api
  <2>2. \/ Return(TRUE)
        \/ \E p : Goto("apps", p) \/ Goto("createJob", p)
        \/ \E p, status : SetAppStatus(p, status)
    BY <1>10 DEF GetJob
  <2>3. pc' \in {"idle", "apps", "createJob", "writeAppStatus", "updateJob"}
    BY <2>2 DEF SetAppStatus, AfterAppStatus
  <2> QED
    BY <2>1, <2>3
<1>11. CASE CreateJob
  BY <1>11 DEF CreateJob
<1>12. CASE WriteAppStatus
  BY <1>4, <1>12 DEF WriteAppStatus, WriteStatus, AfterAppStatus
<1>13. CASE UpdateJob
  BY <1>13 DEF UpdateJob
<1>14. CASE ListExtraJobs
  BY <1>14 DEF ListExtraJobs, api
<1>15. CASE DeleteExtraJob
  BY <1>15 DEF DeleteExtraJob
<1> QED
  BY <1>1, <1>2, <1>3, <1>5, <1>6, <1>7, <1>8, <1>9, <1>10, <1>11, <1>12, <1>13, <1>14, <1>15

\* The calls of a teardown pass but the last are teardown steps as TeardownStepInv has them.
LEMMA TeardownStepsMove ==
    ASSUME TypeOK, ListJobs \/ DeleteJobs \/ ListDeployments \/ DeleteDeployments
    PROVE  /\ pc \in TeardownSteps /\ pc' \in TeardownSteps \cup {"idle"}
           /\ pc' \in TeardownSteps => pass'.wb = pass.wb /\ pass'.status = pass.status
           /\ cache' = cache /\ wb' = wb
           /\ dep' = dep \/ dep' = NoDeployment
           /\ svc' = svc
           /\ \A n \in JobNames : jobs'[n] = jobs[n] \/ jobs'[n] = NoJob
<1> USE DEF TeardownSteps, InPass, Goto, Return
<1>0. pc # "idle" => pass \in Pass
  BY DEF TypeOK, WorkerTypeOK
<1>1. CASE ListJobs
  <2>1. \/ Return(TRUE)
        \/ Goto("deleteJobs", pass)
        \/ Goto("listDeployments", Missing(pass, Children # {}))
    BY <1>1 DEF ListJobs
  <2>2. pc = "listJobs" /\ UNCHANGED api /\ UNCHANGED cache
    BY <1>1 DEF ListJobs
  <2>3. /\ Missing(pass, Children # {}).wb = pass.wb
        /\ Missing(pass, Children # {}).status = pass.status
    BY <1>0, <2>2, MissingType
  <2> QED
    BY <2>1, <2>2, <2>3 DEF api
<1>2. CASE DeleteJobs
  BY <1>2 DEF DeleteJobs
<1>3. CASE ListDeployments
  <2>1. \/ Return(TRUE)
        \/ Goto("deleteDeployments", pass)
        \/ Goto("removeFinalizer", Missing(pass, dep # NoDeployment))
    BY <1>3 DEF ListDeployments
  <2>2. pc = "listDeployments" /\ UNCHANGED api /\ UNCHANGED cache
    BY <1>3 DEF ListDeployments
  <2>3. /\ Missing(pass, dep # NoDeployment).wb = pass.wb
        /\ Missing(pass, dep # NoDeployment).status = pass.status
    BY <1>0, <2>2, MissingType
  <2> QED
    BY <2>1, <2>2, <2>3 DEF api
<1>4. CASE DeleteDeployments
  BY <1>4 DEF DeleteDeployments
<1> QED
  BY <1>1, <1>2, <1>3, <1>4

\* A pass begins where the workbench it read says.
LEMMA BeginPassInv == IInv /\ TypeOK' /\ BeginPass => IInv'
<1> SUFFICES ASSUME IInv, TypeOK', BeginPass PROVE IInv'
  OBVIOUS
<1>1. UNCHANGED <<wb, dep, pod, svc, jobs, cache>>
  BY DEF BeginPass, api, InPass
<1>2. Seen' = Seen /\ HasChildren' = HasChildren
  BY <1>1 DEF Seen, Now, HasChildren, Children
<1>3. /\ pc' \in {"getDeployment", "addFinalizer", "listJobs", "idle"}
      /\ pc' = "getDeployment" => Seen.wb.phase = "live" /\ Seen.wb.finalizer
      /\ pc' = "addFinalizer" => Seen.wb.phase = "live" /\ pass'.wb = Seen.wb
      /\ pc' = "listJobs" => /\ Seen.wb.phase = "terminating" /\ Seen.wb.finalizer
                              /\ pass'.wb = Seen.wb
  BY DEF BeginPass, FirstStep, NewPass
<1> QED
  BY <1>1, <1>2, <1>3 DEF IInv, SeenFinalizer, SeenDeletion, PassOfLive, PassToFinalize,
     PassOfDeleted, FinalizerFirst, LiveSteps, CreateSteps, TeardownSteps

\* The write of the finalizer is accepted only if the workbench is still as it was
\* read, live.
LEMMA AddFinalizerInv == IInv /\ TypeOK' /\ AddFinalizer => IInv'
<1> SUFFICES ASSUME IInv, TypeOK', AddFinalizer PROVE IInv'
  OBVIOUS
<1>0. pc = "addFinalizer" /\ pass.wb.phase = "live" /\ wb \in Workbench
  BY ObjectsType DEF IInv, AddFinalizer, PassToFinalize
<1>1. PICK ok \in BOOLEAN, applied \in BOOLEAN :
        /\ Writes("addFinalizer", wb = pass.wb, ok, applied)
        /\ wb' = IF applied THEN [pass.wb EXCEPT !.finalizer = TRUE] ELSE wb
        /\ IF ok THEN Goto("getDeployment", [pass EXCEPT !.wb.finalizer = TRUE])
                 ELSE Return(TRUE)
  BY DEF AddFinalizer
<1>2. UNCHANGED <<dep, pod, svc, jobs, cache>>
  BY DEF AddFinalizer, InPass
<1>3. HasChildren' = HasChildren
  BY <1>2 DEF HasChildren, Children
<1>4. applied => wb.phase = "live"
  BY <1>0, <1>1 DEF Writes
<1>5. wb'.phase = wb.phase /\ (wb.finalizer => wb'.finalizer)
  BY <1>0, <1>1 DEF Writes, Workbench
<1>6. ok => applied
  BY <1>1 DEF Writes
<1>7. ok => wb'.phase # "gone" /\ wb'.finalizer
  BY <1>0, <1>1, <1>4, <1>6 DEF Workbench
<1>8. pc' \in {"getDeployment", "idle"} /\ (pc' = "getDeployment" => ok)
  BY <1>1 DEF Goto, Return
<1>9. SeenFinalizer' /\ SeenDeletion'
  BY <1>1, <1>2, <1>4, <1>5 DEF IInv, SeenFinalizer, SeenDeletion, Seen, Now
<1> QED
  BY <1>3, <1>5, <1>7, <1>8, <1>9 DEF IInv, PassOfLive, PassToFinalize, PassOfDeleted,
     FinalizerFirst, LiveSteps, CreateSteps, TeardownSteps

\* A pass that removes the finalizer has seen the deletion, so that no later pass
\* reads the workbench as live.
LEMMA RemoveFinalizerInv == IInv /\ TypeOK' /\ RemoveFinalizer => IInv'
<1> SUFFICES ASSUME IInv, TypeOK', RemoveFinalizer PROVE IInv'
  OBVIOUS
<1>1. Seen.wb.phase # "live" /\ wb \in Workbench
  BY ObjectsType DEF IInv, RemoveFinalizer, PassOfDeleted, TeardownSteps
<1>2. PICK ok \in BOOLEAN, applied \in BOOLEAN :
        /\ wb' = IF applied THEN [pass.wb EXCEPT !.finalizer = FALSE, !.phase = "gone"] ELSE wb
        /\ Return(~ok)
  BY DEF RemoveFinalizer
<1>3. UNCHANGED <<dep, pod, svc, jobs, cache>>
  BY DEF RemoveFinalizer, InPass
<1>4. wb' = wb \/ (wb'.phase = "gone" /\ ~wb'.finalizer)
  BY <1>1, <1>2 DEF Workbench
<1>5. Seen'.wb.phase # "live"
  BY <1>1, <1>3, <1>4 DEF Seen, Now
<1>6. pc' = "idle"
  BY <1>2 DEF Return
<1>7. HasChildren' = HasChildren
  BY <1>3 DEF HasChildren, Children
<1> QED
  BY <1>1, <1>4, <1>5, <1>6, <1>7 DEF IInv, SeenFinalizer, SeenDeletion, PassOfLive,
     PassToFinalize, PassOfDeleted, FinalizerFirst, LiveSteps, CreateSteps, TeardownSteps

\* Every call of a pass keeps the invariant.
LEMMA ReconcileInv == IInv /\ TypeOK' /\ Reconcile => IInv'
<1> SUFFICES ASSUME IInv, TypeOK', Reconcile PROVE IInv'
  OBVIOUS
<1>0. TypeOK
  BY DEF IInv
<1>1. CASE BeginPass \/ AddFinalizer \/ RemoveFinalizer
  BY <1>1, BeginPassInv, AddFinalizerInv, RemoveFinalizerInv
<1>2. CASE \/ GetDeployment \/ CreateDeployment \/ ListPods \/ WriteServerStatus
           \/ UpdateDeployment \/ GetService \/ CreateService
           \/ InvalidApp \/ GetJob \/ CreateJob \/ WriteAppStatus \/ UpdateJob
           \/ ListExtraJobs \/ DeleteExtraJob
  BY <1>0, <1>2, LiveStepsMove, LiveStepInv
<1>3. CASE ListJobs \/ DeleteJobs \/ ListDeployments \/ DeleteDeployments
  <2>1. HasChildren' => HasChildren
    BY <1>0, <1>3, TeardownStepsMove DEF HasChildren, Children
  <2> QED
    BY <1>0, <1>3, <2>1, TeardownStepsMove, TeardownStepInv
<1> QED
  BY <1>1, <1>2, <1>3 DEF Reconcile

\* After a crash no pass runs and the cache is current.
LEMMA CrashInv == IInv /\ TypeOK' /\ Crash => IInv'
<1> SUFFICES ASSUME IInv, TypeOK', Crash PROVE IInv'
  OBVIOUS
<1>1. UNCHANGED <<wb, dep, pod, svc, jobs>> /\ cache' = Now /\ pc' = "idle"
  BY DEF Crash, api
<1>2. Seen'.wb = wb /\ HasChildren' = HasChildren
  BY <1>1 DEF Seen, Now, HasChildren, Children
<1> QED
  BY <1>1, <1>2 DEF IInv, SeenFinalizer, SeenDeletion, PassOfLive, PassToFinalize,
     PassOfDeleted, FinalizerFirst, LiveSteps, CreateSteps, TeardownSteps

\* A delivered workbench is the workbench; a workbench deleted stays so.
LEMMA InformersInv == IInv /\ TypeOK' /\ Informers => IInv'
<1> SUFFICES ASSUME IInv, TypeOK', Informers PROVE IInv'
  OBVIOUS
<1>1. UNCHANGED <<wb, dep, pod, svc, jobs, pc, pass>>
  BY DEF Informers, DeliverWorkbench, DeliverDeployment, DeliverService, DeliverJobs,
     DeliverPods, Deliver, Resync, api
<1>2. cache'.wb = cache.wb \/ cache'.wb = wb
  BY DEF Informers, DeliverWorkbench, DeliverDeployment, DeliverService, DeliverJobs,
     DeliverPods, Deliver, Resync, IInv, TypeOK, Objects
<1>3. Seen'.wb = Seen.wb \/ Seen'.wb = wb
  BY <1>1, <1>2 DEF Seen, Now
<1>4. HasChildren' = HasChildren
  BY <1>1 DEF HasChildren, Children
<1> QED
  BY <1>1, <1>3, <1>4 DEF IInv, SeenFinalizer, SeenDeletion, PassOfLive, PassToFinalize,
     PassOfDeleted, FinalizerFirst

\* A user's deletion keeps the finalizer of a workbench that has one.
LEMMA UserInv == IInv /\ TypeOK' /\ User => IInv'
<1> SUFFICES ASSUME IInv, TypeOK', User PROVE IInv'
  OBVIOUS
<1>0. wb \in Workbench
  BY ObjectsType DEF IInv
<1>1. UNCHANGED <<dep, pod, svc, jobs, cache, pc, pass>>
  BY DEF User, EditApp, EditVersion, Edits, DeleteWorkbench, worker
<1>2. \/ wb'.phase = wb.phase /\ wb'.finalizer = wb.finalizer
      \/ /\ wb.phase = "live" /\ wb'.finalizer = wb.finalizer
         /\ wb'.phase = IF wb.finalizer THEN "terminating" ELSE "gone"
  BY <1>0 DEF User, EditApp, EditVersion, Edits, DeleteWorkbench, Workbench
<1>3. HasChildren' = HasChildren
  BY <1>1 DEF HasChildren, Children
<1>4. SeenFinalizer' /\ SeenDeletion'
  BY <1>1, <1>2 DEF IInv, SeenFinalizer, SeenDeletion, Seen, Now
<1>5. wb.phase # "live" => wb'.phase # "live"
  BY <1>2
<1>6. PassOfDeleted'
  BY <1>1, <1>5 DEF IInv, PassOfDeleted, SeenDeletion, Seen, Now
<1> QED
  BY <1>1, <1>2, <1>3, <1>4, <1>6 DEF IInv, PassOfLive, PassToFinalize, FinalizerFirst

\* The cluster's controllers create none of the objects of a workbench.
LEMMA ClusterMoves ==
    ASSUME TypeOK, Cluster
    PROVE  /\ UNCHANGED <<wb, cache, pc, pass>>
           /\ dep = NoDeployment => dep' = NoDeployment
           /\ svc' => svc
           /\ \A n \in JobNames : jobs[n] = NoJob => jobs'[n] = NoJob
<1> USE DEF ByCluster, worker
<1>0. jobs \in [JobNames -> Job] /\ dep \in Deployment /\ svc \in BOOLEAN
  BY ObjectsType
<1>1. CASE SyncDeployment
  BY <1>0, <1>1 DEF SyncDeployment
<1>2. CASE PodBecomesReady \/ CollectPod \/ PodFails \/ LoseDeployment
  BY <1>0, <1>2 DEF PodBecomesReady, CollectPod, PodFails, LoseDeployment
<1>3. CASE CollectGarbage
  BY <1>0, <1>3 DEF CollectGarbage, Children
<1>4. ASSUME NEW n \in JobNames, JobStarts(n) \/ JobHalts(n) \/ JobEnds(n) \/ JobExpires(n)
      PROVE  /\ UNCHANGED <<wb, cache, pc, pass, dep, svc>>
             /\ \A m \in JobNames : jobs[m] = NoJob => jobs'[m] = NoJob
  <2>1. jobs[n] # NoJob
    BY <1>4 DEF JobStarts, JobHalts, JobEnds, JobExpires, NoJob
  <2> QED
    BY <1>0, <1>4, <2>1 DEF JobStarts, JobHalts, JobEnds, JobExpires, JobMoves
<1> QED
  BY <1>1, <1>2, <1>3, <1>4 DEF Cluster

\* The controllers of the cluster keep the invariant.
LEMMA ClusterInv == IInv /\ TypeOK' /\ Cluster => IInv'
<1> SUFFICES ASSUME IInv, TypeOK', Cluster PROVE IInv'
  OBVIOUS
<1>1. /\ UNCHANGED <<wb, cache, pc, pass>>
      /\ HasChildren' => HasChildren
  BY ClusterMoves DEF IInv, HasChildren, Children
<1>2. Seen'.wb = Seen.wb
  BY <1>1 DEF Seen, Now
<1> QED
  BY <1>1, <1>2 DEF IInv, SeenFinalizer, SeenDeletion, PassOfLive, PassToFinalize,
     PassOfDeleted, FinalizerFirst

\* The invariant holds at first.
LEMMA InitInv == Init => IInv
<1> SUFFICES ASSUME Init PROVE IInv
  OBVIOUS
<1>1. /\ wb.phase = "live" /\ ~wb.finalizer /\ Seen.wb = wb /\ pc = "idle"
      /\ ~HasChildren
  BY DEF Init, Seen, Now, HasChildren, Children
<1> QED
  BY <1>1, InitType DEF IInv, SeenFinalizer, SeenDeletion, PassOfLive, PassToFinalize,
     PassOfDeleted, FinalizerFirst, LiveSteps, CreateSteps, TeardownSteps

\* The invariant is about the variables of the specification only.
LEMMA StutterInv == IInv /\ UNCHANGED vars => IInv'
<1> SUFFICES ASSUME IInv, UNCHANGED vars PROVE IInv'
  OBVIOUS
<1>1. UNCHANGED <<wb, dep, pod, svc, jobs, cache, pc, pass>>
  BY DEF vars, api, worker
<1>2. Seen'.wb = Seen.wb /\ HasChildren' = HasChildren
  BY <1>1 DEF Seen, Now, HasChildren, Children
<1> QED
  BY <1>1, <1>2, NextType DEF IInv, SeenFinalizer, SeenDeletion, PassOfLive,
     PassToFinalize, PassOfDeleted, FinalizerFirst

\* The invariant is inductive.
LEMMA NextInv == IInv /\ [Next]_vars => IInv'
<1> SUFFICES ASSUME IInv, [Next]_vars PROVE IInv'
  OBVIOUS
<1>1. TypeOK'
  BY NextType DEF IInv
<1> QED
  BY <1>1, ReconcileInv, CrashInv, InformersInv, UserInv, ClusterInv, StutterInv DEF Next

\* The invariant behind the theorems below, which also says why they hold: the
\* finalizer is stored before the first child, and a pass that removes it has seen
\* a deletion that every later pass sees too.
THEOREM Inductive == Spec => []IInv
BY InitInv, NextInv, PTL DEF Spec

\* As long as a workbench exists, whatever it owns exists under its finalizer, for
\* every number of apps, failures and crashes, and however stale the cache.
THEOREM FinalizerIsFirst == Spec => []FinalizerFirst
<1>1. IInv => FinalizerFirst
  BY DEF IInv
<1> QED
  BY <1>1, Inductive, PTL

\* Only a pass that has its finalizer creates.
LEMMA CreatesLive == IInv /\ [Next]_vars /\ wb.phase = "gone" => ~Creates
<1> SUFFICES ASSUME IInv, [Next]_vars, wb.phase = "gone" PROVE ~Creates
  OBVIOUS
<1>0. TypeOK /\ pc \notin LiveSteps
  BY DEF IInv, PassOfLive
<1>1. CASE UNCHANGED <<dep, svc, jobs>>
  BY <1>1 DEF Creates
<1>2. CASE BeginPass \/ AddFinalizer \/ RemoveFinalizer
  BY <1>1, <1>2 DEF BeginPass, AddFinalizer, RemoveFinalizer, api
<1>3. CASE \/ GetDeployment \/ CreateDeployment \/ ListPods \/ WriteServerStatus
           \/ UpdateDeployment \/ GetService \/ CreateService
           \/ InvalidApp \/ GetJob \/ CreateJob \/ WriteAppStatus \/ UpdateJob
           \/ ListExtraJobs \/ DeleteExtraJob
  BY <1>0, <1>3, LiveStepsMove
<1>4. CASE ListJobs \/ DeleteJobs \/ ListDeployments \/ DeleteDeployments
  BY <1>0, <1>4, TeardownStepsMove DEF Creates
<1>5. CASE Crash \/ Informers \/ User
  BY <1>1, <1>5 DEF Crash, Informers, DeliverWorkbench, DeliverDeployment, DeliverService,
     DeliverJobs, DeliverPods, Deliver, Resync, User, EditApp, EditVersion, Edits, DeleteWorkbench, api
<1>6. CASE Cluster
  BY <1>0, <1>6, ClusterMoves DEF Creates
<1> QED
  BY <1>1, <1>2, <1>3, <1>4, <1>5, <1>6 DEF Next, Reconcile, vars, api

\* A workbench that is gone is never given a deployment, a service or a job again.
THEOREM NothingIsResurrected == Spec => NoResurrection
<1>1. IInv /\ [Next]_vars => [wb.phase = "gone" => ~Creates]_vars
  BY CreatesLive
<1> QED
  BY <1>1, Inductive, PTL DEF Spec, NoResurrection

-----------------------------------------------------------------------------
(* The teardown. *)

\* Jobs only go, and the deployment only goes, while a teardown pass runs.
LEMMA TeardownOrderStep ==
    ASSUME TeardownInv, [Next]_vars
    PROVE  TeardownOrder'
<1>0. TypeOK /\ TeardownOrder /\ (pc # "idle" => pass \in Pass)
  BY DEF TeardownInv, IInv, TypeOK, WorkerTypeOK
<1>1. CASE UNCHANGED <<dep, jobs, pc, pass>>
  BY <1>0, <1>1 DEF TeardownOrder, TeardownMissed, Children
<1>2. CASE pc' \notin {"listDeployments", "deleteDeployments", "removeFinalizer"}
  BY <1>2 DEF TeardownOrder
<1>3. CASE BeginPass \/ AddFinalizer \/ RemoveFinalizer \/ Crash
  BY <1>2, <1>3 DEF BeginPass, FirstStep, AddFinalizer, RemoveFinalizer, Crash, Goto, Return
<1>4. CASE \/ GetDeployment \/ CreateDeployment \/ ListPods \/ WriteServerStatus
           \/ UpdateDeployment \/ GetService \/ CreateService
           \/ InvalidApp \/ GetJob \/ CreateJob \/ WriteAppStatus \/ UpdateJob
           \/ ListExtraJobs \/ DeleteExtraJob
  BY <1>0, <1>2, <1>4, LiveStepsMove DEF LiveSteps, CreateSteps
<1>5. CASE ListJobs
  <2>1. \/ pc' \in {"idle", "deleteJobs"}
        \/ pc' = "listDeployments" /\ pass'.missed = (pass.missed \/ Children # {})
    BY <1>0, <1>5 DEF ListJobs, Goto, Return, Missing, Pass
  <2>2. UNCHANGED <<dep, jobs>>
    BY <1>5 DEF ListJobs, api
  <2> QED
    BY <2>1, <2>2 DEF TeardownOrder, TeardownMissed, Children
<1>6. CASE ListDeployments
  <2>1. \/ pc' = "idle"
        \/ pc' = "deleteDeployments" /\ pass' = pass
        \/ pc' = "removeFinalizer" /\ pass'.missed = (pass.missed \/ dep # NoDeployment)
    BY <1>0, <1>6 DEF ListDeployments, Goto, Return, Missing, Pass
  <2>2. UNCHANGED <<dep, jobs>> /\ pc = "listDeployments"
    BY <1>6 DEF ListDeployments, api
  <2> QED
    BY <1>0, <2>1, <2>2 DEF TeardownOrder, TeardownMissed, Children
<1>7. CASE DeleteJobs \/ DeleteDeployments
  BY <1>2, <1>7 DEF DeleteJobs, DeleteDeployments, Return
<1>8. CASE Informers \/ User
  BY <1>1, <1>8 DEF Informers, DeliverWorkbench, DeliverDeployment, DeliverService,
     DeliverJobs, DeliverPods, Deliver, Resync, User, EditApp, EditVersion, Edits, DeleteWorkbench,
     api, worker
<1>9. CASE Cluster
  BY <1>0, <1>9, ClusterMoves DEF TeardownOrder, TeardownMissed, Children
<1> QED
  BY <1>1, <1>3, <1>4, <1>5, <1>6, <1>7, <1>8, <1>9 DEF Next, Reconcile, vars, api, worker

\* What a teardown found gone, without missing it, stays gone until the pass removes
\* the finalizer, with whatever cache it reads elsewhere.
THEOREM TeardownInductive == Spec => []TeardownInv
<1>1. Init => TeardownInv
  <2> SUFFICES ASSUME Init PROVE TeardownInv
    OBVIOUS
  <2>1. pc = "idle"
    BY DEF Init
  <2> QED
    BY <2>1, InitInv DEF TeardownInv, TeardownOrder
<1>2. TeardownInv /\ [Next]_vars => TeardownInv'
  BY TeardownOrderStep, NextInv DEF TeardownInv
<1> QED
  BY <1>1, <1>2, PTL DEF Spec

\* Who makes a workbench go: the user, before it has its finalizer, or the pass that
\* removes the finalizer.
LEMMA WhoGoes ==
    ASSUME IInv, [Next]_vars, wb.phase # "gone", wb'.phase = "gone"
    PROVE  RemoveFinalizer \/ (DeleteWorkbench /\ ~wb.finalizer)
<1>0. TypeOK /\ wb \in Workbench
  BY ObjectsType DEF IInv
<1>1. CASE BeginPass \/ AddFinalizer
  BY <1>0, <1>1 DEF BeginPass, AddFinalizer, Writes, Workbench, api
<1>2. CASE \/ GetDeployment \/ CreateDeployment \/ ListPods \/ WriteServerStatus
           \/ UpdateDeployment \/ GetService \/ CreateService
           \/ InvalidApp \/ GetJob \/ CreateJob \/ WriteAppStatus \/ UpdateJob
           \/ ListExtraJobs \/ DeleteExtraJob
  BY <1>0, <1>2, LiveStepsMove
<1>3. CASE ListJobs \/ DeleteJobs \/ ListDeployments \/ DeleteDeployments
  BY <1>0, <1>3, TeardownStepsMove
<1>4. CASE Crash \/ Informers
  BY <1>4 DEF Crash, Informers, DeliverWorkbench, DeliverDeployment, DeliverService,
     DeliverJobs, DeliverPods, Deliver, Resync, api
<1>5. CASE EditApp \/ EditVersion
  BY <1>0, <1>5 DEF EditApp, EditVersion, Edits, Workbench
<1>6. CASE DeleteWorkbench
  BY <1>0, <1>6 DEF DeleteWorkbench, Workbench
<1>7. CASE Cluster
  BY <1>0, <1>7, ClusterMoves
<1> QED
  BY <1>1, <1>2, <1>3, <1>4, <1>5, <1>6, <1>7 DEF Next, Reconcile, User, vars, api

\* When a workbench goes, neither job nor deployment is left but one that a list of
\* the removing pass missed, through failed calls, crashes and stale reads of all else.
THEOREM TeardownIsComplete == Spec => NothingLeftBehind
<1>1. TeardownInv /\ [Next]_vars =>
        [wb.phase # "gone" /\ wb'.phase = "gone" /\ ~TeardownMissed =>
            dep = NoDeployment /\ Children = {}]_vars
  <2> SUFFICES ASSUME TeardownInv, [Next]_vars, wb.phase # "gone", wb'.phase = "gone",
                      ~TeardownMissed
               PROVE  dep = NoDeployment /\ Children = {}
    OBVIOUS
  <2>1. CASE RemoveFinalizer
    BY <2>1 DEF RemoveFinalizer, TeardownInv, TeardownOrder
  <2>2. CASE ~wb.finalizer
    BY <2>2 DEF TeardownInv, IInv, FinalizerFirst, HasChildren
  <2> QED
    BY <2>1, <2>2, WhoGoes DEF TeardownInv
<1> QED
  BY <1>1, TeardownInductive, PTL DEF Spec, NothingLeftBehind

\* The deployment of a deleted workbench goes when no job is left but one that the
\* list of the jobs missed.
THEOREM TeardownIsOrdered == Spec => AppsBeforeServer
<1>1. TeardownInv =>
        [PassMoves /\ pc = "deleteDeployments" /\ dep # dep' /\ ~TeardownMissed =>
            Children = {}]_vars
  BY DEF TeardownInv, TeardownOrder
<1> QED
  BY <1>1, TeardownInductive, PTL DEF AppsBeforeServer

-----------------------------------------------------------------------------
(* The sweep. *)

\* How a pass moves through the loop over the apps and into the sweep.
LEMMA LoopInvStep == TypeOK /\ LoopInv /\ [Next]_vars => LoopInv'
<1> SUFFICES ASSUME TypeOK, LoopInv, [Next]_vars PROVE LoopInv'
  OBVIOUS
<1>a. pc # "idle" => pass \in Pass
  BY DEF TypeOK, WorkerTypeOK
<1>1. CASE UNCHANGED <<pc, pass>>
  BY <1>1 DEF LoopInv, Wanted, NameOf
<1>2. CASE pc' \notin {"apps", "createJob", "writeAppStatus", "updateJob", "deleteJob"}
  BY <1>2 DEF LoopInv
<1>3. CASE \/ BeginPass \/ AddFinalizer \/ GetDeployment \/ CreateDeployment \/ ListPods
           \/ WriteServerStatus \/ UpdateDeployment \/ ListJobs \/ DeleteJobs
           \/ ListDeployments \/ DeleteDeployments \/ RemoveFinalizer \/ Crash
  BY <1>2, <1>3 DEF BeginPass, FirstStep, AddFinalizer, GetDeployment, CreateDeployment,
     ListPods, AfterStatus, WriteServerStatus, WriteStatus, UpdateDeployment, ListJobs,
     DeleteJobs, ListDeployments, DeleteDeployments, RemoveFinalizer, Crash, Goto, Return
<1>4. ASSUME Gate, pass \in Pass PROVE LoopInv'
  <2>1. CASE pass.status.ready
    <3>1. /\ pc' = "apps" /\ pass'.wb = pass.wb
          /\ pass'.todo = {u \in Uids : pass.wb.apps[u].state # "none"}
      BY <1>4, <2>1 DEF Gate, Goto, Pass
    <3> QED
      BY <3>1 DEF LoopInv, Wanted
  <2> QED
    BY <1>2, <1>4, <2>1 DEF Gate, Return
<1>5. CASE GetService \/ CreateService
  BY <1>a, <1>2, <1>4, <1>5 DEF GetService, CreateService, Goto, Return
<1>6. CASE InvalidApp
  <2>1. PICK u \in pass.todo : pass.wb.apps[u].state = "Invalid" /\ SetAppStatus(Visit(u), "Failed")
    BY <1>6 DEF InvalidApp
  <2>2. /\ pass'.wb = pass.wb /\ pass'.found = pass.found /\ pass'.todo = pass.todo \ {u}
        /\ pc = "apps" /\ pc' \in {"apps", "writeAppStatus", "updateJob"}
    BY <1>a, <1>6, <2>1 DEF InvalidApp, SetAppStatus, AfterAppStatus, Goto, Visit, Pass
  <2> QED
    BY <2>1, <2>2 DEF LoopInv, Wanted, NameOf
<1>7. CASE GetJob
  <2> DEFINE name(u) == NameOf(pass.wb, u)
             job(u) == Seen.jobs[name(u)]
  <2>1. PICK u \in pass.todo :
          \/ Return(TRUE)
          \/ Suspended(pass.wb, u) /\ Goto("apps", Missing(Visit(u), jobs[name(u)] # NoJob))
          \/ Goto("createJob", Visit(u))
          \/ SetAppStatus(Counted([Visit(u) EXCEPT !.job = job(u)]),
                          JobStatus(job(u)))
    BY <1>7 DEF GetJob
  <2>2. pc = "apps" /\ pass \in Pass
    BY <1>a, <1>7 DEF GetJob
  <2>3. CASE Return(TRUE)
    BY <1>2, <2>3 DEF Return
  <2>4. CASE Suspended(pass.wb, u) /\ Goto("apps", Missing(Visit(u), jobs[name(u)] # NoJob))
    <3>1. /\ pass'.wb = pass.wb /\ pass'.found = pass.found /\ pass'.todo = pass.todo \ {u}
          /\ pc' = "apps" /\ ~Wanted(u)
      BY <2>2, <2>4 DEF Goto, Missing, Visit, Pass, Suspended, Wanted
    <3> QED
      BY <2>2, <3>1 DEF LoopInv, Wanted, NameOf
  <2>5. CASE Goto("createJob", Visit(u))
    <3>1. /\ pass'.wb = pass.wb /\ pass'.found = pass.found /\ pass'.todo = pass.todo \ {u}
          /\ pc' = "createJob" /\ pass'.app = u
      BY <2>2, <2>5 DEF Goto, Visit, Pass
    <3> QED
      BY <2>2, <3>1 DEF LoopInv, Wanted, NameOf
  <2>6. CASE SetAppStatus(Counted([Visit(u) EXCEPT !.job = job(u)]),
                          JobStatus(job(u)))
    <3>1. /\ pass'.wb = pass.wb /\ pass'.found = pass.found \cup {name(u)}
          /\ pass'.todo = pass.todo \ {u}
          /\ pc' \in {"apps", "writeAppStatus", "updateJob"}
      BY <2>2, <2>6 DEF SetAppStatus, AfterAppStatus, Goto, Visit, Counted, Pass
    <3> QED
      BY <2>2, <3>1 DEF LoopInv, Wanted, NameOf
  <2> QED
    BY <2>1, <2>3, <2>4, <2>5, <2>6
<1>8. CASE CreateJob
  <2>1. \/ Return(TRUE)
        \/ Goto("apps", Counted(pass))
    BY <1>8 DEF CreateJob
  <2>2. pc = "createJob" /\ pass \in Pass
    BY <1>a, <1>8 DEF CreateJob
  <2>3. CASE Return(TRUE)
    BY <1>2, <2>3 DEF Return
  <2>4. CASE Goto("apps", Counted(pass))
    <3>1. /\ pass'.wb = pass.wb /\ pass'.todo = pass.todo /\ pc' = "apps"
          /\ pass'.found = pass.found \cup {NameOf(pass.wb, pass.app)}
      BY <2>2, <2>4 DEF Goto, Counted, Pass
    <3> QED
      BY <2>2, <3>1 DEF LoopInv, Wanted, NameOf
  <2> QED
    BY <2>1, <2>3, <2>4
<1>9. CASE WriteAppStatus
  <2>1. /\ pass'.wb.apps = pass.wb.apps /\ pass'.found = pass.found /\ pass'.todo = pass.todo
        /\ pc = "writeAppStatus" /\ pc' \in {"apps", "updateJob"}
    BY <1>a, <1>9 DEF WriteAppStatus, WriteStatus, AfterAppStatus, Goto, Pass, Workbench
  <2> QED
    BY <2>1 DEF LoopInv, Wanted, NameOf
<1>10. CASE UpdateJob
  BY <1>a, <1>2, <1>10 DEF UpdateJob, Goto, Return, LoopInv, Wanted, NameOf, Pass
<1>11. CASE ListExtraJobs
  BY <1>a, <1>2, <1>11 DEF ListExtraJobs, Goto, Return, LoopInv, Wanted, NameOf, Pass
<1>12. CASE DeleteExtraJob
  BY <1>a, <1>2, <1>12 DEF DeleteExtraJob, Goto, Return, LoopInv, Wanted, NameOf, Pass
<1>13. CASE Informers \/ User
  BY <1>1, <1>13 DEF Informers, DeliverWorkbench, DeliverDeployment, DeliverService,
     DeliverJobs, DeliverPods, Deliver, Resync, User, EditApp, EditVersion, Edits, DeleteWorkbench, worker
<1>14. CASE Cluster
  BY <1>1, <1>14, ClusterMoves
<1> QED
  BY <1>1, <1>3, <1>5, <1>6, <1>7, <1>8, <1>9, <1>10, <1>11, <1>12, <1>13, <1>14
     DEF Next, Reconcile, vars, worker

\* In every pass, an app to run is still to visit or its job is accounted for, so
\* that it is never among the jobs to sweep.
THEOREM LoopInductive == Spec => []LoopInv
<1>1. Init => LoopInv
  BY DEF Init, LoopInv
<1> QED
  BY <1>1, LoopInvStep, TypeCorrect, PTL DEF Spec

\* Only the sweep deletes a single job of a pass.
LEMMA WhoSweeps ==
    ASSUME TypeOK, Next, PassMoves, pc = "deleteJob", NEW n \in Children, jobs'[n] = NoJob
    PROVE  n \in pass.doomed
<1>0. jobs[n] # NoJob /\ n \in JobNames /\ jobs \in [JobNames -> Job]
  BY ObjectsType DEF Children
<1>1. CASE DeleteExtraJob
  BY <1>0, <1>1 DEF DeleteExtraJob
<1>2. CASE Reconcile /\ ~DeleteExtraJob
  BY <1>2 DEF Reconcile, BeginPass, AddFinalizer, GetDeployment, CreateDeployment, ListPods,
     WriteServerStatus, WriteStatus, UpdateDeployment, GetService, CreateService, InvalidApp,
     GetJob, CreateJob, WriteAppStatus, UpdateJob, ListExtraJobs, ListJobs, DeleteJobs,
     ListDeployments, DeleteDeployments, RemoveFinalizer
<1>3. CASE Crash
  BY <1>0, <1>3 DEF Crash, api
<1>4. CASE Informers \/ User
  BY <1>4 DEF Informers, DeliverWorkbench, DeliverDeployment, DeliverService, DeliverJobs,
     DeliverPods, Deliver, Resync, User, EditApp, EditVersion, Edits, DeleteWorkbench, worker, PassMoves
<1>5. CASE Cluster
  BY <1>5, ClusterMoves DEF PassMoves
<1> QED
  BY <1>1, <1>2, <1>3, <1>4, <1>5 DEF Next

\* No sweep deletes the job of an app the pass wants running.
THEOREM SweepIsSparing == Spec => SweepSparesRunningApps
<1>1. TypeOK /\ LoopInv /\ [Next]_vars =>
        [\A n \in Children : PassMoves /\ pc = "deleteJob" /\ jobs'[n] = NoJob =>
            \A u \in Uids : pass.wb.apps[u].state = "Running" => NameOf(pass.wb, u) # n]_vars
  BY WhoSweeps DEF LoopInv, Wanted
<1> QED
  BY LoopInductive, <1>1, TypeCorrect, PTL DEF Spec, SweepSparesRunningApps

\* If the pass has missed nothing, an app to stop is still to visit, its job is
\* accounted for, or it has none; an extra job of one is only remembered by the
\* cache.  A job to update is there.
StopInv ==
    /\ pc \in {"apps", "createJob", "writeAppStatus", "updateJob"} =>
         \A u \in Uids : pass.wb.apps[u].state = "Stopped" =>
            \/ u \in pass.todo
            \/ NameOf(pass.wb, u) \in pass.found
            \/ jobs[NameOf(pass.wb, u)] = NoJob
            \/ pass.missed
    /\ pc = "updateJob" => pass.job # NoJob
    /\ pc = "deleteJob" =>
         \A u \in Uids : pass.wb.apps[u].state = "Stopped" =>
            \/ NameOf(pass.wb, u) \notin pass.doomed
            \/ jobs[NameOf(pass.wb, u)] = NoJob
            \/ pass.missed

\* A stopped app, visited.
StopsAt(u) == pass.wb.apps[u].state = "Stopped"

\* Whoever acts between two calls of a pass creates no job.
LEMMA StopInvKept ==
    ASSUME TypeOK, StopInv, UNCHANGED <<pc, pass>>,
           \A n \in JobNames : jobs[n] = NoJob => jobs'[n] = NoJob
    PROVE  StopInv'
<1>1. \A u \in Uids :
        pc \in {"apps", "createJob", "writeAppStatus", "updateJob", "deleteJob"} =>
            NameOf(pass.wb, u) \in JobNames
  BY JobNameType DEF TypeOK, WorkerTypeOK, Pass
<1> QED
  BY <1>1 DEF StopInv, NameOf

\* How a pass visits the apps to stop, and leaves their jobs to the sweep or not.
LEMMA StopInvStep == TypeOK /\ StopInv /\ [Next]_vars => StopInv'
<1> SUFFICES ASSUME TypeOK, StopInv, [Next]_vars PROVE StopInv'
  OBVIOUS
<1>a. pc # "idle" => pass \in Pass
  BY DEF TypeOK, WorkerTypeOK
<1>b. jobs \in [JobNames -> Job]
  BY ObjectsType
<1>c. ASSUME pc # "idle", NEW u \in Uids
      PROVE  NameOf(pass.wb, u) \in JobNames
  BY <1>a, <1>c, JobNameType DEF Pass
<1>1. CASE UNCHANGED <<pc, pass, jobs>>
  BY <1>1, StopInvKept
<1>2. CASE pc' \notin {"apps", "createJob", "writeAppStatus", "updateJob", "deleteJob"}
  BY <1>2 DEF StopInv
<1>3. CASE \/ BeginPass \/ AddFinalizer \/ GetDeployment \/ CreateDeployment \/ ListPods
           \/ WriteServerStatus \/ UpdateDeployment \/ ListJobs \/ DeleteJobs
           \/ ListDeployments \/ DeleteDeployments \/ RemoveFinalizer \/ Crash
  BY <1>2, <1>3 DEF BeginPass, FirstStep, AddFinalizer, GetDeployment, CreateDeployment,
     ListPods, AfterStatus, WriteServerStatus, WriteStatus, UpdateDeployment, ListJobs,
     DeleteJobs, ListDeployments, DeleteDeployments, RemoveFinalizer, Crash, Goto, Return
<1>4. ASSUME Gate, pass \in Pass PROVE StopInv'
  <2>1. CASE pass.status.ready
    <3>1. /\ pc' = "apps" /\ pass'.wb = pass.wb
          /\ pass'.todo = {u \in Uids : pass.wb.apps[u].state # "none"}
      BY <1>4, <2>1 DEF Gate, Goto, Pass
    <3> QED
      BY <3>1 DEF StopInv
  <2> QED
    BY <1>2, <1>4, <2>1 DEF Gate, Return
<1>5. CASE GetService \/ CreateService
  BY <1>a, <1>2, <1>4, <1>5 DEF GetService, CreateService, Goto, Return
<1>6. CASE InvalidApp
  <2>1. PICK u \in pass.todo : pass.wb.apps[u].state = "Invalid" /\ SetAppStatus(Visit(u), "Failed")
    BY <1>6 DEF InvalidApp
  <2>2. /\ pass'.wb = pass.wb /\ pass'.found = pass.found /\ pass'.todo = pass.todo \ {u}
        /\ pc = "apps" /\ pc' \in {"apps", "writeAppStatus", "updateJob"}
        /\ pc' = "updateJob" => pass'.job # NoJob
        /\ pass'.missed = pass.missed
    BY <1>a, <1>6, <2>1 DEF InvalidApp, SetAppStatus, AfterAppStatus, Goto, Visit, Pass
  <2>3. jobs' = jobs
    BY <1>6 DEF InvalidApp, api
  <2> QED
    BY <2>1, <2>2, <2>3 DEF StopInv, NameOf
<1>7. CASE GetJob
  <2> DEFINE name(u) == NameOf(pass.wb, u)
             job(u) == Seen.jobs[name(u)]
  <2>1. PICK u \in pass.todo :
          \/ Return(TRUE)
          \/ Goto("apps", Missing(Visit(u), jobs[name(u)] # NoJob))
          \/ ~Suspended(pass.wb, u) /\ Goto("createJob", Visit(u))
          \/ SetAppStatus(Counted([Visit(u) EXCEPT !.job = job(u)]),
                          JobStatus(job(u)))
    BY <1>7 DEF GetJob
  <2>2. pc = "apps" /\ pass \in Pass /\ jobs' = jobs
    BY <1>a, <1>7 DEF GetJob, api
  <2>3. CASE Return(TRUE)
    BY <1>2, <2>3 DEF Return
  <2>4. CASE Goto("apps", Missing(Visit(u), jobs[name(u)] # NoJob))
    <3>1. /\ pass'.wb = pass.wb /\ pass'.found = pass.found /\ pass'.todo = pass.todo \ {u}
          /\ pc' = "apps" /\ pass'.missed = (pass.missed \/ jobs[name(u)] # NoJob)
      BY <2>2, <2>4 DEF Goto, Missing, Visit, Pass
    <3> QED
      BY <2>2, <3>1 DEF StopInv, NameOf
  <2>5. CASE ~Suspended(pass.wb, u) /\ Goto("createJob", Visit(u))
    <3>1. /\ pass'.wb = pass.wb /\ pass'.found = pass.found /\ pass'.todo = pass.todo \ {u}
          /\ pc' = "createJob" /\ ~StopsAt(u) /\ pass'.missed = pass.missed
      BY <2>2, <2>5 DEF Goto, Visit, Pass, Suspended, StopsAt
    <3> QED
      BY <2>2, <3>1 DEF StopInv, NameOf, StopsAt
  <2>6. CASE SetAppStatus(Counted([Visit(u) EXCEPT !.job = job(u)]),
                          JobStatus(job(u)))
    <3>1. /\ pass'.wb = pass.wb /\ pass'.found = pass.found \cup {name(u)}
          /\ pass'.todo = pass.todo \ {u} /\ pass'.missed = pass.missed
          /\ pc' \in {"apps", "writeAppStatus", "updateJob"}
          /\ pc' = "updateJob" => pass'.job # NoJob
      BY <2>2, <2>6 DEF SetAppStatus, AfterAppStatus, Goto, Visit, Counted, Pass
    <3> QED
      BY <2>2, <3>1 DEF StopInv, NameOf
  <2> QED
    BY <2>1, <2>3, <2>4, <2>5, <2>6
<1>8. CASE CreateJob
  <2> DEFINE name == NameOf(pass.wb, pass.app)
  <2>1. /\ jobs' \in {jobs, [jobs EXCEPT ![name] = FreshJob]}
        /\ \/ Return(TRUE)
           \/ Goto("apps", Counted(pass))
    BY <1>8 DEF CreateJob
  <2>2. pc = "createJob" /\ pass \in Pass
    BY <1>a, <1>8 DEF CreateJob
  <2>3. CASE Return(TRUE)
    BY <1>2, <2>3 DEF Return
  <2>4. CASE Goto("apps", Counted(pass))
    <3>1. /\ pass'.wb = pass.wb /\ pass'.todo = pass.todo /\ pc' = "apps"
          /\ pass'.found = pass.found \cup {name} /\ pass'.missed = pass.missed
      BY <2>2, <2>4 DEF Goto, Counted, Pass
    <3>2. \A n \in JobNames \ {name} : jobs'[n] = jobs[n]
      BY <1>b, <2>1
    <3>3. \A u \in Uids : NameOf(pass.wb, u) \in JobNames
      BY <1>c, <2>2
    <3> QED
      BY <2>2, <3>1, <3>2, <3>3 DEF StopInv, NameOf
  <2> QED
    BY <2>1, <2>3, <2>4
<1>9. CASE WriteAppStatus
  <2>1. /\ pass'.wb.apps = pass.wb.apps /\ pass'.found = pass.found /\ pass'.todo = pass.todo
        /\ pc = "writeAppStatus" /\ pc' \in {"apps", "updateJob"} /\ pass'.missed = pass.missed
        /\ pc' = "updateJob" => pass'.job # NoJob
    BY <1>a, <1>9 DEF WriteAppStatus, WriteStatus, AfterAppStatus, Goto, Pass, Workbench
  <2>2. jobs' = jobs
    BY <1>9 DEF WriteAppStatus, WriteStatus
  <2> QED
    BY <2>1, <2>2 DEF StopInv, NameOf
<1>10. CASE UpdateJob
  <2> DEFINE name == NameOf(pass.wb, pass.app)
  <2>1. pc = "updateJob" /\ pass \in Pass /\ pass.job # NoJob
    BY <1>a, <1>10 DEF UpdateJob, StopInv
  <2>2. PICK ok \in BOOLEAN, applied \in BOOLEAN :
          /\ applied => jobs[name] = pass.job
          /\ jobs' = IF applied
                     THEN [jobs EXCEPT ![name] =
                             [pass.job EXCEPT !.suspend = Suspended(pass.wb, pass.app)]]
                     ELSE jobs
          /\ IF ok THEN Goto("apps", pass) ELSE Return(TRUE)
    BY <1>10 DEF UpdateJob, Writes
  <2>3. \A n \in JobNames : jobs[n] = NoJob => jobs'[n] = NoJob
    BY <1>b, <2>1, <2>2
  <2>4. CASE Return(TRUE)
    BY <1>2, <2>4 DEF Return
  <2>5. CASE Goto("apps", pass)
    <3>1. /\ pass'.wb = pass.wb /\ pass'.todo = pass.todo /\ pc' = "apps"
          /\ pass'.found = pass.found /\ pass'.missed = pass.missed
      BY <2>1, <2>5 DEF Goto, Pass
    <3>2. \A u \in Uids : NameOf(pass.wb, u) \in JobNames
      BY <1>c, <2>1
    <3> QED
      BY <2>1, <2>3, <3>1, <3>2 DEF StopInv, NameOf
  <2> QED
    BY <2>2, <2>4, <2>5
<1>11. CASE ListExtraJobs
  <2>1. /\ pc = "apps" /\ pass \in Pass /\ pass.todo = {}
        /\ \/ pc' = "idle"
           \/ /\ pc' = "deleteJob" /\ pass'.wb = pass.wb
              /\ pass'.doomed \cap pass.found = {} /\ pass'.missed = pass.missed
    BY <1>a, <1>11 DEF ListExtraJobs, Goto, Return, Pass
  <2>2. jobs' = jobs
    BY <1>11 DEF ListExtraJobs, api
  <2> QED
    BY <1>2, <2>1, <2>2 DEF StopInv, NameOf
<1>12. CASE DeleteExtraJob
  <2>1. /\ pc = "deleteJob" /\ pass \in Pass
        /\ \/ pc' = "idle"
           \/ /\ pc' = "deleteJob" /\ pass'.wb = pass.wb /\ pass'.doomed \subseteq pass.doomed
              /\ pass'.missed = pass.missed
    BY <1>a, <1>12 DEF DeleteExtraJob, Goto, Return, Pass
  <2>2. \A n \in JobNames : jobs[n] = NoJob => jobs'[n] = NoJob
    BY <1>b, <1>12 DEF DeleteExtraJob
  <2>3. \A u \in Uids : NameOf(pass.wb, u) \in JobNames
    BY <1>c, <2>1
  <2> QED
    BY <1>2, <2>1, <2>2, <2>3 DEF StopInv, NameOf
<1>13. CASE Informers \/ User
  BY <1>1, <1>13 DEF Informers, DeliverWorkbench, DeliverDeployment, DeliverService,
     DeliverJobs, DeliverPods, Deliver, Resync, User, EditApp, EditVersion, Edits, DeleteWorkbench,
     worker, api
<1>14. CASE Cluster
  BY <1>14, ClusterMoves, StopInvKept
<1> QED
  BY <1>1, <1>3, <1>5, <1>6, <1>7, <1>8, <1>9, <1>10, <1>11, <1>12, <1>13, <1>14
     DEF Next, Reconcile, vars, worker, api

\* No sweep deletes the job of a stopped app, which is suspended and can be started
\* again, but one that the pass had missed under its name and then found in the list.
THEOREM StoppingSuspends == Spec => StopSuspends
<1>1. Init => StopInv
  BY DEF Init, StopInv
<1>2. TypeOK /\ StopInv /\ [Next]_vars => StopInv'
  BY StopInvStep
<1>3. TypeOK /\ StopInv /\ [Next]_vars =>
        [\A n \in Children : PassMoves /\ pc = "deleteJob" /\ jobs'[n] = NoJob /\ ~pass.missed =>
            \A u \in Uids : pass.wb.apps[u].state = "Stopped" => NameOf(pass.wb, u) # n]_vars
  BY WhoSweeps DEF StopInv, Children
<1> QED
  BY <1>1, <1>2, <1>3, TypeCorrect, PTL DEF Spec, StopSuspends

-----------------------------------------------------------------------------
(* The spec of the workbench. *)

\* The operator never overwrites what the user wrote last, although it writes whole
\* objects it read earlier: a write is accepted only of what is still there.
THEOREM SpecStaysTheUsers == Spec => SpecIsTheUsers
<1>1. ASSUME TypeOK, Next, PassMoves
      PROVE  wb'.version = wb.version /\ wb'.apps = wb.apps
  <2>0. wb \in Workbench
    BY <1>1, ObjectsType
  <2>1. CASE wb' = wb
    BY <2>1
  <2>2. CASE AddFinalizer
    <3>1. wb' = wb \/ (wb = pass.wb /\ wb' = [pass.wb EXCEPT !.finalizer = TRUE])
      BY <2>2 DEF AddFinalizer, Writes
    <3> QED
      BY <2>0, <3>1 DEF Workbench
  <2>3. CASE WriteServerStatus \/ WriteAppStatus
    BY <2>0, <2>3 DEF WriteServerStatus, WriteAppStatus, WriteStatus, Workbench
  <2>4. CASE \/ BeginPass \/ GetDeployment \/ CreateDeployment \/ ListPods
             \/ UpdateDeployment \/ GetService \/ CreateService
             \/ InvalidApp \/ GetJob \/ CreateJob \/ UpdateJob
             \/ ListExtraJobs \/ DeleteExtraJob
             \/ ListJobs \/ DeleteJobs \/ ListDeployments \/ DeleteDeployments
    BY <2>1, <2>4 DEF BeginPass, GetDeployment, CreateDeployment, ListPods, UpdateDeployment,
       GetService, CreateService, InvalidApp, GetJob, CreateJob, UpdateJob, ListExtraJobs,
       DeleteExtraJob, ListJobs, DeleteJobs, ListDeployments, DeleteDeployments, api
  <2>5. CASE Crash
    BY <2>1, <2>5 DEF Crash, api
  <2>6. CASE Informers \/ User
    BY <1>1, <2>6 DEF Informers, DeliverWorkbench, DeliverDeployment, DeliverService,
       DeliverJobs, DeliverPods, Deliver, Resync, User, EditApp, EditVersion, Edits,
       DeleteWorkbench, worker, PassMoves
  <2>7. CASE Cluster
    BY <1>1, <2>7, ClusterMoves DEF PassMoves
  <2>8. CASE RemoveFinalizer
    <3>1. \/ wb' = wb
          \/ wb = pass.wb /\ wb' = [pass.wb EXCEPT !.finalizer = FALSE, !.phase = "gone"]
      BY <2>8 DEF RemoveFinalizer, Writes
    <3> QED
      BY <2>0, <3>1 DEF Workbench
  <2> QED
    BY <1>1, <2>2, <2>3, <2>4, <2>5, <2>6, <2>7, <2>8 DEF Next, Reconcile
<1>2. TypeOK /\ [Next]_vars =>
        [PassMoves => wb'.version = wb.version /\ wb'.apps = wb.apps]_vars
  BY <1>1
<1> QED
  BY <1>2, TypeCorrect, PTL DEF Spec, SpecIsTheUsers
=============================================================================
