----------------------- MODULE WorkbenchLifecycleProofs -----------------------
(***************************************************************************)
(* WorkbenchReconciler implements WorkbenchLifecycle, for every value of   *)
(* the constants.                                                          *)
(***************************************************************************)
EXTENDS WorkbenchReconcilerProofs

-----------------------------------------------------------------------------
(* The steps that keep phase and finalizer. *)

\* At most one of the objects of a workbench changes in a call of a live pass.
LEMMA LiveStepsMake ==
    ASSUME TypeOK,
           \/ GetDeployment \/ CreateDeployment \/ ListPods \/ WriteServerStatus
           \/ UpdateDeployment \/ GetService \/ CreateService
           \/ InvalidApp \/ GetJob \/ CreateJob \/ WriteAppStatus \/ UpdateJob
           \/ ListExtraJobs \/ DeleteExtraJob
    PROVE  \/ UNCHANGED <<dep, svc, jobs>>
           \/ UNCHANGED <<svc, jobs>>
           \/ UNCHANGED <<dep, jobs>>
           \/ /\ UNCHANGED <<dep, svc>>
              /\ \E n \in JobNames : \A m \in JobNames \ {n} : jobs'[m] = jobs[m]
<1>0. jobs \in [JobNames -> Job] /\ (pc # "idle" => pass \in Pass)
  BY ObjectsType DEF TypeOK, WorkerTypeOK
<1>1. CASE \/ GetDeployment \/ ListPods \/ GetService \/ InvalidApp \/ GetJob
           \/ ListExtraJobs
  BY <1>1 DEF GetDeployment, ListPods, GetService, InvalidApp, GetJob, ListExtraJobs, api
<1>2. CASE WriteServerStatus \/ WriteAppStatus
  BY <1>2 DEF WriteServerStatus, WriteAppStatus, WriteStatus
<1>3. CASE CreateDeployment \/ UpdateDeployment
  BY <1>3 DEF CreateDeployment, UpdateDeployment
<1>4. CASE CreateService
  BY <1>4 DEF CreateService
<1>5. CASE CreateJob \/ UpdateJob
  <2> DEFINE name == NameOf(pass.wb, pass.app)
  <2>1. pass \in Pass /\ pass.app \in Uids
    BY <1>0, <1>5 DEF CreateJob, UpdateJob, TypeOK, WorkerTypeOK
  <2>2. name \in JobNames
    BY <2>1, JobNameType DEF Pass
  <2>3. UNCHANGED <<dep, svc>> /\ \E job : jobs' \in {jobs, [jobs EXCEPT ![name] = job]}
    BY <1>5 DEF CreateJob, UpdateJob
  <2> QED
    BY <1>0, <2>2, <2>3
<1>6. CASE DeleteExtraJob
  <2>1. pass.doomed \subseteq JobNames
    BY <1>0, <1>6 DEF DeleteExtraJob, Pass
  <2>2. UNCHANGED <<dep, svc>>
        /\ \E n \in pass.doomed : jobs' \in {jobs, [jobs EXCEPT ![n] = NoJob]}
    BY <1>6 DEF DeleteExtraJob
  <2> QED
    BY <1>0, <2>1, <2>2
<1> QED
  BY <1>1, <1>2, <1>3, <1>4, <1>5, <1>6

\* Under the finalizer, a change of one object is a Make or an Unmake.
LEMMA OneObjectMoves ==
    ASSUME TypeOK, TypeOK', wb.finalizer,
           UNCHANGED <<wb.phase, wb.finalizer>>,
           \/ UNCHANGED <<dep, svc, jobs>>
           \/ UNCHANGED <<svc, jobs>>
           \/ UNCHANGED <<dep, jobs>>
           \/ /\ UNCHANGED <<dep, svc>>
              /\ \E n \in JobNames : \A m \in JobNames \ {n} : jobs'[m] = jobs[m]
    PROVE  Lifecycle!Make \/ Lifecycle!Unmake
<1>0. svc \in BOOLEAN /\ svc' \in BOOLEAN
  BY DEF TypeOK, Now, Objects
<1>1. CASE UNCHANGED <<svc, jobs>>
  <2>1. Children' = Children
    BY <1>1 DEF Children
  <2> QED
    BY <1>1, <2>1 DEF Lifecycle!Make, Lifecycle!Unmake
<1>2. CASE UNCHANGED <<dep, jobs>>
  <2>1. Children' = Children
    BY <1>2 DEF Children
  <2> QED
    BY <1>0, <1>2, <2>1 DEF Lifecycle!Make, Lifecycle!Unmake
<1>3. ASSUME UNCHANGED <<dep, svc>>, NEW n \in JobNames,
             \A m \in JobNames \ {n} : jobs'[m] = jobs[m]
      PROVE  Lifecycle!Make \/ Lifecycle!Unmake
  <2>1. Children' = Children \cup {n} \/ Children' \subseteq Children
    BY <1>3 DEF Children
  <2> QED
    BY <1>3, <2>1 DEF Lifecycle!Make, Lifecycle!Unmake
<1> QED
  BY <1>1, <1>2, <1>3

\* A step that creates nothing and leaves the workbench alone is an Unmake.
LEMMA Unmakes ==
    ASSUME UNCHANGED <<wb.phase, wb.finalizer>>,
           dep = NoDeployment => dep' = NoDeployment,
           svc' => svc,
           \A n \in JobNames : jobs[n] = NoJob => jobs'[n] = NoJob
    PROVE  Lifecycle!Unmake
<1>1. Children' \subseteq Children
  BY DEF Children
<1> QED
  BY <1>1 DEF Lifecycle!Unmake

-----------------------------------------------------------------------------
(* The steps that change phase or finalizer. *)

\* AddFinalizer guards a workbench that is still as it was read, live.
LEMMA AddFinalizerGuards ==
    ASSUME TeardownInv, AddFinalizer
    PROVE  Lifecycle!Guard \/ Lifecycle!Unmake
<1>1. wb \in Workbench /\ pass.wb.phase = "live"
  BY ObjectsType DEF TeardownInv, IInv, AddFinalizer, PassToFinalize
<1>2. UNCHANGED <<dep, svc, jobs>> /\ Children' = Children
  BY DEF AddFinalizer, Children
<1>3. wb' = wb \/ (wb = pass.wb /\ wb' = [pass.wb EXCEPT !.finalizer = TRUE])
  BY DEF AddFinalizer, Writes
<1>4. CASE wb' = wb
  BY <1>2, <1>4, Unmakes
<1>5. CASE wb = pass.wb /\ wb' = [pass.wb EXCEPT !.finalizer = TRUE]
  <2>1. wb'.finalizer /\ wb'.phase = wb.phase /\ wb.phase = "live" /\ wb'.finalizer = TRUE
    BY <1>1, <1>5 DEF Workbench
  <2> QED
    BY <1>2, <2>1 DEF Lifecycle!Guard, Lifecycle!made
<1> QED
  BY <1>3, <1>4, <1>5

\* RemoveFinalizer releases a workbench that is still as it was read, terminating,
\* after the last job and deployment that the pass did not miss.
LEMMA RemoveFinalizerReleases ==
    ASSUME TeardownInv, RemoveFinalizer
    PROVE  Lifecycle!Release \/ Lifecycle!Unmake
<1>1. wb \in Workbench /\ pass.wb.phase = "terminating" /\ pass.wb.finalizer
  BY ObjectsType DEF TeardownInv, IInv, RemoveFinalizer, PassOfDeleted, TeardownSteps
<1>2. UNCHANGED <<dep, svc, jobs>> /\ Children' = Children
  BY DEF RemoveFinalizer, Children
<1>3. ~TeardownMissed => dep = NoDeployment /\ Children = {}
  BY DEF TeardownInv, TeardownOrder, RemoveFinalizer
<1>4. \/ wb' = wb
      \/ wb = pass.wb /\ wb' = [pass.wb EXCEPT !.finalizer = FALSE, !.phase = "gone"]
  BY DEF RemoveFinalizer, Writes
<1>5. CASE wb' = wb
  BY <1>2, <1>5, Unmakes
<1>6. CASE wb = pass.wb /\ wb' = [pass.wb EXCEPT !.finalizer = FALSE, !.phase = "gone"]
  <2>1. wb'.finalizer = FALSE /\ wb'.phase = "gone"
    BY <1>1, <1>6 DEF Workbench
  <2> QED
    BY <1>1, <1>2, <1>3, <1>6, <2>1 DEF Lifecycle!Release, Lifecycle!made
<1> QED
  BY <1>4, <1>5, <1>6

\* The user edits, or deletes.
LEMMA UserDeletes ==
    ASSUME TeardownInv, User
    PROVE  Lifecycle!Delete \/ Lifecycle!Unmake
<1>1. wb \in Workbench
  BY ObjectsType DEF TeardownInv, IInv
<1>2. UNCHANGED <<dep, svc, jobs>> /\ Children' = Children
  BY DEF User, EditApp, EditVersion, Edits, DeleteWorkbench, Children
<1>3. CASE EditApp \/ EditVersion
  <2>1. UNCHANGED <<wb.phase, wb.finalizer>>
    BY <1>1, <1>3 DEF EditApp, EditVersion, Edits, Workbench
  <2> QED
    BY <1>2, <2>1, Unmakes
<1>4. CASE DeleteWorkbench
  <2>1. /\ wb.phase = "live" /\ wb'.finalizer = wb.finalizer
        /\ wb'.phase = IF wb.finalizer THEN "terminating" ELSE "gone"
    BY <1>1, <1>4 DEF DeleteWorkbench, Workbench
  <2> QED
    BY <1>2, <2>1 DEF Lifecycle!Delete, Lifecycle!made
<1> QED
  BY <1>3, <1>4 DEF User

-----------------------------------------------------------------------------
(* The implementation. *)

\* Every step of the reconciler, of the cluster and of the user is a step of the
\* lifecycle, or changes nothing of it.
LEMMA StepsImplement ==
    ASSUME TeardownInv, TypeOK', [Next]_vars
    PROVE  [Lifecycle!Next]_Lifecycle!vars
<1> USE DEF Lifecycle!Next
<1>0. TypeOK
  BY DEF TeardownInv, IInv
<1>1. CASE UNCHANGED <<wb, dep, svc, jobs>>
  BY <1>1 DEF Lifecycle!vars, Lifecycle!made, Children
<1>2. CASE AddFinalizer
  BY <1>2, AddFinalizerGuards
<1>3. CASE RemoveFinalizer
  BY <1>3, RemoveFinalizerReleases
<1>4. CASE \/ GetDeployment \/ CreateDeployment \/ ListPods \/ WriteServerStatus
           \/ UpdateDeployment \/ GetService \/ CreateService
           \/ InvalidApp \/ GetJob \/ CreateJob \/ WriteAppStatus \/ UpdateJob
           \/ ListExtraJobs \/ DeleteExtraJob
  <2>1. wb.finalizer /\ UNCHANGED <<wb.phase, wb.finalizer>>
    BY <1>0, <1>4, LiveStepsMove DEF TeardownInv, IInv, PassOfLive
  <2> QED
    BY <1>0, <1>4, <2>1, LiveStepsMake, OneObjectMoves
<1>5. CASE ListJobs \/ DeleteJobs \/ ListDeployments \/ DeleteDeployments
  BY <1>0, <1>5, TeardownStepsMove, Unmakes
<1>6. CASE BeginPass \/ Crash \/ Informers
  BY <1>1, <1>6 DEF BeginPass, Crash, Informers, DeliverWorkbench, DeliverDeployment,
     DeliverService, DeliverJobs, DeliverPods, Deliver, Resync, api
<1>7. CASE User
  BY <1>7, UserDeletes
<1>8. CASE Cluster
  BY <1>0, <1>8, ClusterMoves, Unmakes
<1> QED
  BY <1>1, <1>2, <1>3, <1>4, <1>5, <1>6, <1>7, <1>8 DEF Next, Reconcile, vars, api

\* The reconciler implements the lifecycle: whatever calls fail, whenever the
\* operator crashes and however stale its cache, children appear only under the
\* finalizer, a deletion is never undone, and what is gone stays gone; and the
\* finalizer goes after the last job and deployment, or the last that the lists of
\* that pass did not miss.
THEOREM ReconcilerImplementsLifecycle == Spec => KeepsItsPromises
<1>1. Init => Lifecycle!Init
  BY DEF Init, Lifecycle!Init, Children
<1>2. TeardownInv /\ TypeOK' /\ [Next]_vars => [Lifecycle!Next]_Lifecycle!vars
  BY StepsImplement
<1> QED
  BY <1>1, <1>2, TeardownInductive, TypeCorrect, PTL DEF Spec, KeepsItsPromises, Lifecycle!Spec
=============================================================================
