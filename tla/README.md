# A TLA+ model of the workbench operator

The operator (Go, controller-runtime) turns a `Workbench` resource into a
Deployment (the Xpra server), a Service, and one Job per application. This
directory holds TLA+ modules of what it does, TLC configurations that check
them on small instances, and TLAPS proofs of the results that matter most.

Run TLC as `tlc -config core_faults.cfg MCWorkbenchReconciler`, and tlapm on the
six `*Proofs.tla` modules. `PROJECT.json` lists the runs, the mutants, the source
lines each definition stands for, the findings, the hazards and the theorems.

## 1. Inventory

| Part | Source | State | Operations | Talks to |
|---|---|---|---|---|
| Reconciler | `internal/controller/workbench_controller.go`, `job.go`, `deployment.go`, `service.go` | none of its own between passes; within a pass: the workbench read, the deployment and job at hand, `foundJobNames` | `Reconcile` and the functions it calls | API server (reads through a cache), workqueue |
| Server status | `api/v1alpha1/workbench.go`, `updateServerPodHealth` and below | `status.serverDeployment` | `UpdateStatusFromDeployment`, `determineServerPodHealth`, `determineContainerHealth`, `setServerPodHealth` | deployment, pods |
| Application status | `api/v1alpha1/workbench.go` | `status.apps` | `UpdateStatusFromJob`, `SetAppStatusFailed` | jobs |
| API types | `api/v1alpha1/workbench_types.go` | spec and status | validation by the API server | user, operator |
| Storage manager | `internal/controller/storage.go` | none of its own: volumes and claims of the namespace | `ProcessEnabledStorage`, `GetVolumeAndMountSpecs` | API server, called by `Reconcile` and `initJob` |
| Storage providers | `storage_s3.go`, `storage_nfs.go`, `storage_local.go` | none of their own: secrets, drivers, directory jobs | `HasDriver`, `HasSecret`, `Setup`, `CreatePV`, `CreatePVC` | API server |
| Image check | `job.go` (`validateAppImage`) | none | runs a container, reads its `/etc/passwd` | docker or podman |
| Contents of pods | `initJob`, `initDeployment`, `initService` | none | build objects | none |
| Process | `cmd/main.go`, `config.go` | flags | wiring, leader election | manager |
| Charts, kustomizations, generated code, tests | | | | |

What is hard about it:

- a pass makes up to a dozen calls, each of which may fail, conflict or be the
  last before a crash, and the world moves between any two of them;
- it reads through informers' caches, one per kind, which lag independently;
- it must neither lose a wakeup (pods are not watched) nor undo a user's edit
  (whole objects are written back);
- creation and deletion of the workbench meet in the finalizer;
- some errors end a pass and are retried, others are only logged;
- workbenches share the jobs and deployments of the cluster, found by label and
  by name, and those of a namespace share their volumes, claims and directory jobs;
- storage is made in three steps (directory, volume, claim), each of which may fail
  and none of which may fail the pass;
- what the status says depends on the order of conditions, on which pod is the
  newest, and on when a pass looked.

What makes each part correct: the reconciler converges to the spec and a
deleted workbench goes, with nothing created after it and nothing left behind;
a pass touches its own workbench's objects only; the status comes to agree with
the pods and jobs; the sweep spares what the spec wants; storage that cannot be
made is done without, and what is made is made in order. `PROJECT.json` lists the
hazards one by one, each with the properties that cover it.

## 2. Modules

### WorkbenchReconciler

One workbench. Every call to the API server is one action, so that everything
else can happen between two calls. The state:

| Variable | Stands for |
|---|---|
| `wb`, `dep`, `pod`, `svc`, `jobs` | the objects in the API server |
| `cache`, `news` | what the informers have delivered, the events still on their way |
| `queued`, `pc`, `pass` | the workqueue, the next call of the pass, its local variables |
| `edits`, `faults`, `disruptions` | budgets that bound the environment |

| Actions | Code |
|---|---|
| `BeginPass`, `AddFinalizer` | `Reconcile`, up to the finalizer |
| `GetDeployment`, `CreateDeployment`, `ListPods`, `WriteServerStatus`, `UpdateDeployment` | the server: `createDeployment`, `updateServerPodHealth`, `updateDeployment` |
| `GetService`, `CreateService`, `Gate` | `createService`, the readiness gate |
| `InvalidApp`, `GetJob`, `CreateJob`, `WriteAppStatus`, `UpdateJob` | the loop over the apps: `initJob`, `createJob`, `UpdateStatusFromJob`, `updateJob` |
| `ListExtraJobs`, `DeleteExtraJob` | the sweep |
| `ListJobs`, `DeleteJobs`, `ListDeployments`, `DeleteDeployments`, `RemoveFinalizer` | `deleteExternalResources` |
| `Crash` | the process dies and another takes over |
| `Deliver...`, `Resync` | informers (`SetupWithManager`) |
| `EditApp`, `EditVersion`, `DeleteWorkbench` | the user |
| `SyncDeployment`, ..., `CollectGarbage` | Kubernetes |

`CachedReads` chooses the client. The operator runs with the manager's client,
which reads from the caches (`main.go:152`). Where that makes a promise less than it
seems, the property says by how much: a pass whose read missed a job or a deployment
that was there is marked (`pass.missed`, a history variable that no step of the code
depends on), and what such a pass may leave behind is excepted. A direct client is
used in two runs, only to keep them small (`core_disruptions`, `core_two_apps`): their
properties hold with the cached one as well (1 820 000 and 8 530 000 states). A write is
accepted iff the object is still the one read (optimistic concurrency); a failed write
may have been applied or not. `Faulty` names the calls that may fail.

The simplifications are listed at the head of the module. Those to know of: an
informer skips intermediate versions, which are never read; a conflict is a
difference of content, not of resource version; storage has a module of its own.

### WorkbenchLifecycle

What the operator promises of the life of one workbench, in five variables and
five actions, without passes, calls, caches, queues or failures: what is made is
made under the guard; a deletion is not undone; what is gone stays gone; and the
guard goes when nothing guarded is left, unless the operator was not `informed` of it.
`WorkbenchReconciler` implements it under the refinement mapping

| `WorkbenchLifecycle` | `WorkbenchReconciler` |
|---|---|
| `phase`, `guarded` | `wb.phase`, `wb.finalizer` |
| `server`, `service` | `dep # NoDeployment`, `svc` |
| `running` | `Children`, the jobs that exist |
| `informed` | `~TeardownMissed`: no list of this teardown missed a job or the deployment |
| `Apps` | `JobNames` |

`AddFinalizer` implements `Guard`; `CreateDeployment`, `CreateService` and `CreateJob`
implement `Make`; the sweep, the teardown, the TTL and the garbage collector `Unmake`;
`RemoveFinalizer` `Release`; and everything else stutters. `KeepsItsPromises` is
the abstract specification as a property. Its hard step is a pass that creates a
child after the workbench has been deleted under it: `Make` is allowed then, but
only while the guard is there.

### WorkbenchTenancy

Several workbenches, with names and namespaces, and one worker: which jobs and
deployments a pass finds, counts, creates and deletes (`findJobs`, `deleteJobs`,
`deleteDeployments`, the sweep). `JobName` is a parameter, so that colliding names are an
instance.

| Variable | Stands for |
|---|---|
| `phase`, `spec` | the workbenches |
| `jobs`, `servers` | the jobs, by namespace and name, and the deployments in the API server |
| `seenJobs`, `seenServers` | both as the caches have them |
| `orphans`, `strays` | the jobs and deployments whose workbench went without them: the garbage collector's |
| `queued`, `pc`, `pass` | the workqueue, the next call of the pass, its local variables |

Lists and look-ups go to the caches (`ListedJobs`, `ListedServers`), which catch up
in steps of their own; creations, updates and deletions go to the API server. A
teardown is a list (`ListJobs`, `ListServers`), a `DeleteAllOf` confined to the
namespace if the list has anything (`DeleteJobs`, `DeleteServers`), and the removal of
the finalizer if neither list has. A job the list missed is an orphan, perhaps under a
workbench that has been made again with the same name, until it is collected. Calls
fail only when they are refused.

### WorkbenchStorage

The workbenches of one namespace and what they mount. A pass takes the enabled
providers in their order and, for each, looks for the driver, the secret and the
volume, makes the directory and the volume, looks for the claim and makes it; then
comes the gate, the job of the application with the mounts of the moment, and
the sweep. Volumes, claims and directory jobs carry the namespace's name and are
shared; the directory job carries the label of the workbench whose pass made it, and no
owner reference. Volumes, claims and jobs are read from caches. `deleteJob` deletes by
name, so that a pass with an old list may take the job a neighbour has made since; the
history variable `pass.behind` says of which directory jobs its list was old.

| Variable | Stands for |
|---|---|
| `phase`, `storage`, `ready`, `app` | of each workbench: its life, `spec.storage`, the readiness in its status, what its application's job mounts |
| `drivers`, `secrets` | what the administrator has installed |
| `made`, `seen` | the volumes and claims in the API server, and in the cache |
| `mkdir` | the label of each provider's directory job |
| `known`, `listed` | in the cache: the workbenches whose application's job it has, the label of each directory job |
| `queued`, `pc`, `pass` | the workqueue, the next call of the pass, its local variables |

| Actions | Code |
|---|---|
| `ProbeDriver`, `ProbeSecret`, `GetVolume`, `CreateVolume`, `GetClaim`, `CreateClaim` | `processStorageProvider` |
| `Setup` | `Setup` of the NFS and local providers |
| `Proceed`, `LeaveOut` | the loop of `ProcessEnabledStorage`, which goes on after a storage and after an error |
| `CollectMounts`, `CreateApp` | `GetVolumeAndMountSpecs`, called by `initJob`, and `createJob` |
| `ListExtraJobs`, `DeleteExtraJob`, `ListJobs`, `DeleteJobs`, `RemoveFinalizer` | the sweep and the teardown, which meet the directory jobs by their label |
| `DeliverStorage`, `DeliverJobs`, `CollectApp` | the informers, and the garbage collector for the application's job of a workbench that is gone |
| `Administer`, `EditStorage`, `DirectoryJobExpires`, ... | the cluster, its administrator, the users |

Each workbench has one application, and the steps of `Reconcile` that have nothing to
do with storage are those of `WorkbenchReconciler`.

### ServerStatus

What a pass makes of the deployment's conditions and of the newest pod. The
deployment controller keeps its conditions in the order in which they last
changed, pods are made, evicted, refused and collected, and their two containers
(the sidecar `xpra-server-bind`, the server) start, fail their probes, exit and
restart; a container's age is one of less than two minutes, less than five, more.

### MC modules and proofs

`MCWorkbenchReconciler`, `MCWorkbenchStorage` and `MCWorkbenchTenancy` give the
constants that are no literals; `ServerStatus` needs none. The theorems are in
`WorkbenchReconcilerProofs`, `WorkbenchLifecycleProofs` and `WorkbenchRestProofs` (which
extend it), `WorkbenchStorageProofs`, `WorkbenchTenancyProofs` and `ServerStatusProofs`. An operator whose comment begins with
"Mutant" is a plausible mistake in the definition after it, used nowhere: with
it in the place of that definition, TLC finds the property it is listed with
violated.

## 3. Runs that pass

| Run | Question | Bounds | Distinct states |
|---|---|---|---|
| `core_faults` | what holds with stale caches, and after a failure | 1 app, 2 names for it, 2 versions, 1 edit, a crash or 1 failure of any call but the read of the deployment; names and versions up to symmetry | 2 140 000 |
| `core_edits` | the teardown, and an app stopped and started again, with stale caches | 1 app, 2 edits, 1 failed suspension, resumption or deletion | 2 070 000 |
| `core_liveness` | convergence with stale caches | 1 app, 1 edit, 1 failure of a call that ends the pass | 833 000 |
| `core_disruptions` | convergence through disruptions | 1 app, 2 disruptions, direct reads | 378 000 |
| `core_two_apps` | the loop and the sweep | 2 apps, 1 edit, direct reads | 4 790 000 |
| `tenancy_separate` | workbenches that do not share names, with stale caches | 2 workbenches, 1 app each, 1 edit or re-creation | 493 000 |
| `storage` | the storage of a namespace, with its directory jobs, with stale caches | 2 workbenches, created with S3 and NFS, 1 change of a driver, a secret or a spec (to NFS and local), 1 failure or crash | 1 168 000 |
| `status` | readiness through failures, evictions and a roll-out | 2 versions of the deployment, 2 pods, 1 container failure, refusals | 515 000 |

Why these are enough: an edit changes an app at any point of any pass, its name included (which makes the
old job an extra one), so that one edit already gives a pass that works on a spec that is no longer the
user's, with a deletion on top, which is not counted; a second edit lets an app be
stopped and started again. One failure meets every
call in every state; a second one mostly repeats the retry the first began. Two
apps are needed for the sweep (a job counted and one not) and one for all that
is said of an app by itself. Two versions allow an edit that the deployment has to
follow. Names and versions are only ever compared, so that `core_faults`, which checks no
liveness, takes them up to symmetry. Two disruptions allow a job that ends and then
expires. Two workbenches are needed for a directory job that is somebody else's, and one change for a driver
that goes, a secret that comes, or a storage that is asked for later; the pairs of
storages hold one provider with and one without a directory, and two with. Two
workbenches with one application each are needed for a list that has a neighbour's job,
and a re-creation for one that has a namesake's. The theorems of section 5 have no such bounds.

What they show:

- *Under the finalizer* (`FinalizerFirst`, `NoResurrection`, `IInv`): children exist
  only under the finalizer and none is created for a workbench that is gone,
  although caches lag and a pass may run on a workbench deleted meanwhile.
- *No lost wakeup* (`RestsConverged`): whenever no pass runs or is due and no event
  is on its way, the cluster is what the spec asks for, or the workbench is gone.
  This is the property on which a level-triggered controller rests. It holds with
  every call but one allowed to fail; the exception is the deployment, whose failed
  read or creation is logged and forgotten. A failed creation does no harm while a
  new workbench is brought up, since the status does not say ready yet and the
  gate asks for another pass; after the loss of a deployment it does
  (`v_server_forgotten`). `RestsAccurate` says the same of the apps' statuses; it is
  checked with the failures that end a pass, and not with those of the status
  writes, which are logged and forgotten too. `RestInv`, which explains both, is
  checked with every call but one allowed to fail (`core_faults`) and with the
  failures that end a pass (`core_liveness`), where none of its parts is void.
- *No closed gate* (`RestsOpen`): a live workbench rests only with its status saying
  that the server is ready, so that no application waits for a requeue that is not
  due. With stale caches the status may err the other way.
- *The promises* (`KeepsItsPromises`): every step is a step of `WorkbenchLifecycle`, through
  failures and crashes (`core_faults`) and through a longer teardown (`core_edits`).
- *The spec is the user's* (`SpecIsTheUsers`): no whole-object write undoes an edit.
- *Teardown* (`TeardownInv`, `NothingLeftBehind`, `AppsBeforeServer`): complete and in
  order, but for what a list of that pass missed in the cache. The exception is
  needed: without it TLC finds each of the three violated. What the properties rule
  out is every other way to leave something: a failed or half-done deletion, a conflict on the finalizer, a
  pass that still created while the workbench was being deleted, an object that
  comes after the list had been complete.
- *The sweep* (`SweepSparesRunningApps`, `StopSuspends`, `LoopInv`): it spares what is to
  run, whatever the cache has. What is to be stopped it spares unless `createJob` did not
  find the job in the cache and `findJobs`, later in the same pass, did; that exception
  is needed too.
- *Convergence* (`Convergence`, `StatusConvergence`, `ReadyAccurate`,
  `DeletionCompletes`).
- *Tenancy* (`TenancyInv`, `OwnJobsOnly`, `Settles`, `DeletionCompletes`): if names are
  separate, workbenches do not touch each other's jobs, with lists that lag and with
  the jobs of a former workbench of the same name still to be collected; each settles,
  and each that is deleted goes. That it goes without leaving a job is no property of
  the code, whose lists lag.
- *Storage* (`StorageInv`, `DirectoryFirst`): no claim without its volume, no volume
  without the job for its directory having been made before it in the same pass,
  through stale reads of the volume, failures and crashes. Whether that job has run is
  not looked at by the code and not said by the property. `OthersDirectories`: one
  workbench deletes the directory job of another, which has the same name, only by an
  old list. `OwnDirectoriesGo`: a workbench that goes leaves a directory job of its own,
  for which no garbage collector would come, only by an old list. Both exceptions are
  needed. `AppsCome`: whatever is missing and whatever fails, the application is
  started, unless S3 and local storage are asked for together. `DeletionCompletes`: a
  deleted workbench goes, and the application's job goes with it.
- *Readiness* (`ReportsReadiness`, `ReadyIsSeen`).

`CHECK_DEADLOCK FALSE` is set throughout: a reconciled system with its budgets
spent has nothing left to do, and a workbench may be gone for good.

### Fairness

`FairSpec` assumes that the operator's worker serves its queue and that its calls
return, that informers deliver, that Kubernetes' controllers act on what they
see, and that the server's pod becomes ready when it is not. Each is weak
fairness of one action or of the disjunction one thread executes: a worker that
has a call to make makes it, whatever others do. In the tenancy and storage models the start
of a pass is strongly fair for each workbench, since a workqueue is first in,
first out and the worker is busy in between; informers of jobs and deployments and the
garbage collector are weakly fair. Nothing is assumed of users,
failures, crashes, disruptions, the end of a job, administrators, the informers of
volumes and claims, the TTL of directory jobs, or the ten-hour resync. In
`ServerStatus` only the operator and the deployment controller are fair.

## 4. Runs that end in a violation

Each checks one property that a comment of the repository states and the code
does not keep. The trace is short and each step of it is a step of the code.

| Run | Comment | What the code does |
|---|---|---|
| `v_server_forgotten` | workbench_controller.go:58 | logs a failed creation of the deployment, trusts the former status, and ends the pass without a retry |
| `v_sweep_across_namespaces` | workbench_controller.go:37 | sweeps jobs of a namesake in another namespace |
| `v_failure_hidden` | workbench_types.go:217 | writes an empty status, which the API server refuses |
| `v_driver_missing` | storage.go:182 | mounts the claim of a storage whose secret is there and whose driver is not: the claim is never made and the application's pod cannot start |

`v_failure_hidden` and `v_driver_missing`, violations of liveness, are found under the
fair specifications.

Read in the code while modelling it, and not among the runs:

- the teardown lists jobs and deployments from a cache that may lag, and may then
  remove the finalizer with one of them still there, left to the garbage collector
  (job.go:628, deployment.go:273); a directory job, which has no owner, is left to its
  TTL of five minutes;
- the sweep deletes by name what such a list has (job.go:616), and so may take the
  directory job that another workbench of the namespace has made under that name since;
- a stopped app whose job has not reached the cache when it is looked up, and has when
  the extra jobs are listed, loses the job instead of having it suspended (job.go:599);
- an application the user has quit is started again once the TTL has removed its
  job, a day later (job.go:236 and :562);
- S3 and local storage both mount `/mnt/app_data`: with both enabled and the secret
  of S3 present, no application's job is accepted (storage.go:389; `AppsCome` fails
  with the three storages together);
- the sweep at the end of the pass that made a directory job may delete it before
  it has run, and the directory is not made again, since the volume exists
  (storage_nfs.go:65, workbench_controller.go:301);
- a driver or a secret that is installed later is noticed only when something else
  starts a pass (workbench_controller.go:651);
- the server's readiness read before the pod's event arrived stays until another
  event (workbench_controller.go:651), and so does an app's status whose write
  failed (workbench_controller.go:267);
- with a failed creation of the deployment, jobs are created although the server
  is not there (workbench_controller.go:129 and :215);
- the check against a change of an application's name compares it with the name
  the job was looked up by (workbench_controller.go:273);
- a deletion waits for the jobs and deployments of a namesake in another
  namespace, and never deletes them (deployment.go:273, job.go:599);
- the name of a job is ambiguous: uid `a` with app `b-c`, uid `a-b` with app `c`
  (job.go:190);
- a condition Available whose status is False is shown as a running server
  (workbench.go:47), and "Restarting" is shown until something else happens
  (workbench_controller.go:605).

## 5. Theorems

All theorems hold for every value of the constants (any number of apps, names,
versions, failures, edits, workbenches), under the assumptions `ConstantsAssumption`,
`TenancyAssumption`, `StorageAssumption` and `StatusAssumption`, which TLC evaluates
in the runs.

**`WorkbenchReconcilerProofs`.**
`TypeCorrect` goes action by action through lemmas for the common shapes (a read,
a write, `Goto`, `Return`, a delivery). `Inductive` proves `IInv`. `FinalizerFirst` is
not inductive by itself: a pass about to create a child is harmless only if the
workbench still has its finalizer, and that depends on what other steps can do to
it. `IInv` adds what relates a pass and the cache to the object: a workbench that
is seen as live with its finalizer still has it (`SeenFinalizer`), since only a
pass that saw the deletion removes it; a deletion seen has happened
(`SeenDeletion`); and a pass in its creating part runs on a workbench with its
finalizer (`PassOfLive`), one that tears down has seen the deletion and so will
every later reader (`PassOfDeleted`). There being one pass at a time, the two never
meet. `FinalizerIsFirst` and `NothingIsResurrected` follow, for a stale cache too.

`TeardownInductive`, `TeardownIsComplete` and `TeardownIsOrdered` rest on `TeardownOrder`: what
a teardown pass found gone, and did not miss, is gone and stays gone. It stays so
because nothing creates while a pass tears down, the worker being one and the
workbench seen as deleted from then on (`PassOfDeleted`). `pass.missed` is set where a
list shows nothing and something is there, and no theorem assumes anything of the cache.
`LoopInductive` proves the invariant of the loop: an app to run is
still to be visited, at hand, or accounted for in `foundJobNames`, whatever the
cache and the names; `SweepIsSparing` follows. `StoppingSuspends` has an invariant of
the same kind, `StopInv`, for the apps to be stopped: a pass that did not miss a job of such
an app has counted it, or there was none, and none has come since.
`SpecStaysTheUsers` rests on the condition of a write (the object is the one read)
and on the copy a pass writes having the spec it read.

**`WorkbenchRestProofs`.** The operator comes to rest (`Quiet`) only where it should.
Nothing about a resting state is inductive by itself, for it is the outcome of the
whole pass before it. `RestInv` says how far a pass has come, and says it only while
the worker is asleep: nothing is queued, and no event is on its way whose delivery
would queue the workbench (`Asleep`). The argument has four parts.

- What has no event on its way is read as it is (`ReadsCurrent`), and every change of
  what is watched is an event. So a pass that is still asleep began on the workbench
  as it is (`PassOnCurrent`), and nothing watched has changed since: not by others, and
  not by the pass, whose own writes come back as events.
- Hence each of its calls either wakes the worker, after which `RestInv` claims nothing
  until a later pass begins, or adds what it read to what is settled: the deployment
  runs the wanted version once `updateDeployment` is past (`ServerSettled`), the gate was
  open (`ReadySettled`), the jobs of the visited apps are as wanted and what is in
  `foundJobNames` is accounted for (`AppsSettled`), and their statuses agree
  (`StatusSettled`).
- A pass that ends asleep has ended at the end of the loop and of the sweep, since every
  other return asks for a requeue. A deleted workbench does not rest: it has its
  finalizer (`DeletionWaits`), and the pass that removes it writes the workbench.
- The pods are no part of `Asleep`: they are not watched, and nothing settled depends
  on them but the readiness, which is settled as the pass has stored it and not as the
  pod is now.

`RestInductive` proves `RestInv` with no hypothesis. What the results on top of it
assume are failures that the code logs and forgets:

| Theorem | Property | Hypothesis | Without it |
|---|---|---|---|
| `RestIsConvergence` | `RestsConverged` | `DeploymentErrorsKept`: the read of the deployment does not fail, nor its creation unless no deployment is ever lost | `v_server_forgotten` |
| `RestIsOpen` | `RestsOpen` | the write of the server's status does not fail | a failed write leaves the status not ready, with the gate passed |
| `RestIsAccurate` | `RestsAccurate` | the writes of the apps' statuses do not fail | the status of an app stays as it was |
| `AppsRestConverged` | `AppsRest`, the half of `Converged` about the service and the jobs | none | |

TLC finds the property of each of the first three violated when its hypothesis is
dropped (one app, one failure, and for the first an edit of the version or a lost
deployment). A creation that fails before the first deployment exists
is harmless because the status of such a workbench has never said ready
(`NeverReady`), so that the gate asks for another pass. None of the four needs the
names of jobs to differ: two apps that share a name share a job, and rest only if it
is as both want it.

**`WorkbenchLifecycleProofs`.** `ReconcilerImplementsLifecycle`: the initial state maps
to the abstract one, and every step to a step or a stutter. Steps are grouped by
what they do to the mapped variables: creations are `Make` steps because of
`PassOfLive`, the removal of the finalizer is a `Release` step because of
`PassOfDeleted` and of `TeardownOrder`, which is where `informed` is used.

**`WorkbenchStorageProofs`.** `StorageIsInductive` proves `StorageInv`. That a claim has
its volume is not inductive: a pass about to make a claim must know that the volume
is there, because it saw it, in a cache that never runs ahead, or made it
(`PassRelies`). `DirectoriesComeFirst` uses the part of it for the volume about to be
made, `DirectoriesOfOthersStay` the part for the jobs about to be swept, and
`DirectoriesGoWithTheirWorkbench` the part for the finalizer about to go: a list that was not
behind on a directory job (`pass.behind`) told the truth about it, and no later step of the
pass, the environment or another worker makes it otherwise.

**`WorkbenchTenancyProofs`.** Under `Separate` (no two workbenches share a name, nor
two of a namespace a job name) `TenancyInv` is inductive: every job lies under a
name of its owner in the owner's namespace, and what a pass is about to delete is
its own. It is said of the jobs as they are and as the cache has them, since a
pass deletes by what is listed; the informer copies the one to the other. `PassesKeepToTheirOwn` follows;
`v_sweep_across_namespaces` shows that the hypothesis is needed.

**`ServerStatusProofs`.** `TypeCorrect` proves `TypeOK`. Two of its parts are not
inductive. That the restarts shown stay within the failures there were is false of a
step by itself, since a container that has ended restarts without a further failure;
`PodsInv` keeps a budget instead: what a container owes (`Owed`), its restarts and the
one still to come if it has ended, was paid for by failures. The conditions keep their
shape because there is one of a type at most (`ConditionsOK`), which is also why `Without`
may remove the one it finds. `ReadinessIsReported`: for any sequence of pods, in any state of
their containers, the health that a pass computes is ready exactly if the newest pod
and its sidecar are. The proof is a case analysis of the whole chain from
`PodHealth` to `ContainerHealth`.

**Model-checked only.** Every invariant that a run checks is a theorem, and so is every
action property. What is left is liveness (`Convergence`, `StatusConvergence`,
`ReadyAccurate`, `DeletionCompletes`, `Settles`, `ReadyIsSeen`, `AppsCome`), which needs
`ENABLED` and fairness and is beyond the prover. The theorems of `WorkbenchRestProofs`
are its safety half: convergence is that the operator comes to rest, which is
model-checked, and that it rests only where it should, which is proved.

## 6. What is not modelled

- Of storage: the contents of volumes and claims (sizes, modes, attributes), their
  binding, and the directories themselves, which the operator never looks at.
- The contents of objects: images, environment, security contexts, probes.
  `updateDeployment` is kept as the comparison of the image; its handling of a
  deployment with another number of containers is not.
- The image check: only its verdict, as the state `Invalid` of an app.
- Two operator processes at once; the chart deploys with leader election.
- In the core module, a second workbench or a re-created one, which are in
  `WorkbenchTenancy`; and jobs that the API server refuses for good, but for a mount
  path used twice, which is in `WorkbenchStorage`.
- Messages, events and logs; the revision in the status.
- Charts, manifests, generated code and tests.

## 7. Plan

Storage, the abstract lifecycle with its refinement, and the proofs of the sweep, the
spec, the readiness, the tenancy and of where the operator rests are done. What is left,
in the order of what it adds:

1. `JobNames`: the names of jobs and their validation against the patterns of the API
   types, with the apps that the API server refuses and their effect on the loop.
2. Two operator processes during a change of leader.
