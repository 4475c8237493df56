--------------------------- MODULE WorkbenchStorage ---------------------------
(***************************************************************************)
(* The storage of the workbenches of one namespace: StorageManager and its *)
(* three providers, as Reconcile calls them, up to the jobs that mount     *)
(* what they made.                                                         *)
(*                                                                         *)
(* A provider finds its driver and its secret, makes the directory with a  *)
(* job, then a volume, then a claim.  Volumes, claims and directory jobs   *)
(* have names of the namespace, so that its workbenches share them; a      *)
(* directory job carries the label of the workbench whose pass made it and *)
(* no owner reference, so that it is swept and torn down with that         *)
(* workbench's jobs and nobody is told when it changes.                    *)
(*                                                                         *)
(* Simplifications:                                                        *)
(*  - One application for each workbench; Reconcile's other steps (the     *)
(*    finalizer, the server, the service, a stopped app) belong to         *)
(*    WorkbenchReconciler.  What is left of the server is its readiness.   *)
(*  - Volumes, claims and jobs are read from the informers' caches, which  *)
(*    may be behind; when an informer catches up it does so at once.  The  *)
(*    workbench, the drivers and the secrets are read as they are.         *)
(*  - HasSecret and CreatePV read the same secret, one after the other:    *)
(*    one read stands for both.                                            *)
(*  - The five minutes of a directory job's TTL do not pass between the    *)
(*    creation of the job and the next call of the same pass.              *)
(***************************************************************************)
EXTENDS Naturals, FiniteSets

CONSTANTS
    Workbenches,
    Storages,        \* the values of spec.storage
    Asked,           \* those a workbench may be created with
    LocalEnabled,    \* the flag --local-storage-enabled
    Clusters,        \* the drivers and secrets a cluster may have at first
    MaxFaults,       \* bound on failed calls and crashes
    MaxChanges       \* bound on changes of drivers, secrets and spec.storage

Providers == {"s3", "nfs", "local"}
Absent == "absent"

ASSUME StorageAssumption ==
    /\ Absent \notin Workbenches
    /\ Storages \subseteq SUBSET Providers /\ Asked \subseteq Storages
    /\ Clusters \subseteq [drivers : SUBSET Providers, secrets : SUBSET Providers]
    /\ LocalEnabled \in BOOLEAN
    /\ MaxFaults \in Nat /\ MaxChanges \in Nat

VARIABLES
    phase,       \* of each workbench: live, terminating, gone
    storage,     \* its spec.storage
    ready,       \* its status says that the server is ready
    app,         \* the storages its application's job mounts, or NoApp
    drivers,     \* the providers whose CSI driver is installed
    secrets,     \* the providers whose secret exists with all its fields
    made,        \* the volumes and claims in the API server
    mkdir,       \* the label of each provider's directory job, or Absent
    seen,        \* the volumes and claims in the caches
    known,       \* the workbenches whose application's job is in the cache
    listed,      \* the label of each directory job in the cache, or Absent
    queued,      \* the workbenches in the workqueue
    pc, pass,    \* the next call of the running pass, and its memory
    faults, changes

objects == <<app, made, mkdir>>
caches == <<seen, known, listed>>
environment == <<phase, storage, ready, drivers, secrets>>
vars == <<environment, objects, caches, queued, pc, pass, faults, changes>>

-----------------------------------------------------------------------------
(* The objects. *)

\* A provider's volume and claim.
Volume(p) == <<"volume", p>>
Claim(p) == <<"claim", p>>
Things == {"volume", "claim"} \X Providers

\* The providers whose Setup makes a directory; that of S3 does nothing.
WithDirectory == {"nfs", "local"}

\* The providers that mount /mnt/app_data in addition to a path of their own.
WithAppData == {"s3", "local"}

NoApp == {Absent}

\* The directory jobs with a workbench's label.
LabelledDirectories(w) == {p \in Providers : mkdir[p] = w}

\* Mutant: the directory jobs of the namespace, whoever made them.
AnyDirectories(w) == {p \in Providers : listed[p] # Absent}

\* findJobs, which asks the cache: the sweep and the teardown list by label.
ListedDirectories(w) == {p \in Providers : listed[p] = w}

\* The directory jobs of which the cache is not up to date.
Behind == {p \in Providers : listed[p] # mkdir[p]}

\* GetEnabledProviders: local storage needs the operator's flag as well.
Enabled(s) == IF LocalEnabled THEN s ELSE s \ {"local"}

\* HasDriver and HasSecret: local storage needs neither.
HasDriver(p) == p = "local" \/ p \in drivers
HasSecret(p) == p = "local" \/ p \in secrets

\* The API server refuses a pod with two mounts at one path.
MountsAccepted(mounts) == Cardinality(mounts \cap WithAppData) <= 1

-----------------------------------------------------------------------------
(* The running pass. *)

ProviderSteps == {"driver", "secret", "volume", "setup", "createVolume",
                  "claim", "createClaim"}
Steps == ProviderSteps \cup
         {"idle", "mounts", "createApp", "listExtraJobs", "deleteExtraJob",
          "listJobs", "deleteJobs", "removeFinalizer"}

\* A record, so that TLC can compare it with any pass.
NoPass == [running |-> FALSE]
\* behind is a history variable: of which directory jobs its list was not up to date.
Pass == [w : Workbenches, storage : SUBSET Providers, ready : BOOLEAN,
         todo : SUBSET Providers, mounts : SUBSET Providers,
         doomed : SUBSET Providers, behind : SUBSET Providers]

\* Providers are processed in a fixed order.
Rank(p) == CASE p = "s3" -> 1 [] p = "nfs" -> 2 [] p = "local" -> 3
AtHand(p) == p \in pass.todo /\ \A q \in pass.todo : Rank(p) <= Rank(q)

Fails ==
    /\ faults < MaxFaults
    /\ faults' = faults + 1

\* A provider without driver and secret of its own makes no such read.
Probes(p, ok) == IF ok THEN UNCHANGED faults ELSE p # "local" /\ Fails

Reads(ok) == IF ok THEN UNCHANGED faults ELSE Fails

\* A write the API server accepts is applied, unless the call fails: then it
\* may have been applied or not.
Writes(accepted, ok, applied) ==
    \/ /\ ok = accepted
       /\ applied = accepted
       /\ UNCHANGED faults
    \/ /\ accepted
       /\ ~ok
       /\ Fails

Goto(step, p) == pc' = step /\ pass' = p /\ UNCHANGED queued

Return(requeue) ==
    /\ pc' = "idle"
    /\ pass' = NoPass
    /\ queued' = IF requeue THEN queued \cup {pass.w} ELSE queued

InPass == UNCHANGED <<environment, caches, changes>>

\* Where a pass goes on: to the next storage and, when none is left to process,
\* through the readiness gate to the application.
NextStep(p) ==
    CASE p.todo # {}            -> "driver"
      [] p.todo = {} /\ p.ready -> "mounts"
      [] OTHER                  -> "idle"

\* A storage is done.
Proceed(p) ==
    LET rest == [pass EXCEPT !.todo = @ \ {p}]
    IN IF NextStep(rest) = "idle" THEN Return(TRUE) ELSE Goto(NextStep(rest), rest)

\* Mutant: a storage that cannot be made ends the pass with an error.
EndWithError(p) == Return(TRUE)

\* Mutant: a volume that cannot be made is logged, and the claim made all the same.
ClaimAllTheSame(p) == IF pc = "createVolume" THEN Goto("claim", pass) ELSE Proceed(p)

\* Mutant: a directory job that cannot be made is logged, and the volume made.
VolumeAllTheSame(p) == IF pc = "setup" THEN Goto("createVolume", pass) ELSE Proceed(p)

\* A storage cannot be made: ProcessEnabledStorage continues without it.
LeaveOut(p) == Proceed(p)

-----------------------------------------------------------------------------
(* Reconcile: the storage. *)

NewPass(w) == [w |-> w, storage |-> storage[w], ready |-> ready[w],
               todo |-> Enabled(storage[w]), mounts |-> {}, doomed |-> {},
               behind |-> {}]

FirstStep(w) ==
    CASE phase[w] = "live"        -> NextStep(NewPass(w))
      [] phase[w] = "terminating" -> "listJobs"
      [] phase[w] = "gone"        -> "idle"

BeginPass(w) ==
    /\ pc = "idle" /\ w \in queued
    /\ pc' = FirstStep(w)
    /\ pass' = IF FirstStep(w) = "idle" THEN NoPass ELSE NewPass(w)
    /\ queued' = IF phase[w] = "live" /\ FirstStep(w) = "idle" THEN queued ELSE queued \ {w}
    /\ UNCHANGED <<objects, faults>> /\ InPass

ProbeDriver ==
    /\ pc = "driver"
    /\ \E p \in Providers, ok \in BOOLEAN :
         /\ AtHand(p) /\ Probes(p, ok)
         /\ IF ok /\ HasDriver(p) THEN Goto("secret", pass) ELSE LeaveOut(p)
    /\ UNCHANGED objects /\ InPass

ProbeSecret ==
    /\ pc = "secret"
    /\ \E p \in Providers, ok \in BOOLEAN :
         /\ AtHand(p) /\ Probes(p, ok)
         /\ IF ok /\ HasSecret(p) THEN Goto("volume", pass) ELSE LeaveOut(p)
    /\ UNCHANGED objects /\ InPass

\* A volume not found is made, after its directory if it needs one.
GetVolume ==
    /\ pc = "volume"
    /\ \E p \in Providers, ok \in BOOLEAN :
         /\ AtHand(p) /\ Reads(ok)
         /\ CASE ~ok -> LeaveOut(p)
              [] ok /\ Volume(p) \in seen -> Goto("claim", pass)
              [] OTHER -> Goto(IF p \in WithDirectory THEN "setup" ELSE "createVolume", pass)
    /\ UNCHANGED objects /\ InPass

\* A directory job that is there already, whoever made it, is an error.
Setup ==
    /\ pc = "setup"
    /\ \E p \in Providers, ok, applied \in BOOLEAN :
         /\ AtHand(p)
         /\ Writes(HasSecret(p) /\ mkdir[p] = Absent, ok, applied)
         /\ mkdir' = IF applied
                     THEN [mkdir EXCEPT ![p] = pass.w]
                     ELSE mkdir
         /\ IF ok THEN Goto("createVolume", pass) ELSE LeaveOut(p)
    /\ UNCHANGED <<app, made>> /\ InPass

CreateVolume ==
    /\ pc = "createVolume"
    /\ \E p \in Providers, ok, applied \in BOOLEAN :
         /\ AtHand(p) /\ Writes(Volume(p) \notin made, ok, applied)
         /\ made' = IF applied THEN made \cup {Volume(p)} ELSE made
         /\ IF ok THEN Goto("claim", pass) ELSE LeaveOut(p)
    /\ UNCHANGED <<app, mkdir>> /\ InPass

GetClaim ==
    /\ pc = "claim"
    /\ \E p \in Providers, ok \in BOOLEAN :
         /\ AtHand(p) /\ Reads(ok)
         /\ CASE ~ok -> LeaveOut(p)
              [] ok /\ Claim(p) \in seen -> Proceed(p)
              [] OTHER -> Goto("createClaim", pass)
    /\ UNCHANGED objects /\ InPass

CreateClaim ==
    /\ pc = "createClaim"
    /\ \E p \in Providers, ok, applied \in BOOLEAN :
         /\ AtHand(p) /\ Writes(Claim(p) \notin made, ok, applied)
         /\ made' = IF applied THEN made \cup {Claim(p)} ELSE made
         /\ IF ok THEN Proceed(p) ELSE LeaveOut(p)
    /\ UNCHANGED <<app, mkdir>> /\ InPass

-----------------------------------------------------------------------------
(* Reconcile: the application, the sweep and the teardown. *)

\* GetVolumeAndMountSpecs: a storage whose secret can be read is mounted.
CollectMounts ==
    /\ pc = "mounts"
    /\ \E missed \in SUBSET (Enabled(pass.storage) \ {"local"}) :
         /\ IF missed = {} THEN UNCHANGED faults ELSE Cardinality(missed) = 1 /\ Fails
         /\ Goto("createApp",
                 [pass EXCEPT !.mounts = {p \in Enabled(pass.storage) \ missed : HasSecret(p)}])
    /\ UNCHANGED objects /\ InPass

\* createJob: a job found in the cache keeps the mounts it has; one that is there and
\* not in the cache is created in vain.
CreateApp ==
    /\ pc = "createApp"
    /\ \E ok, applied \in BOOLEAN :
         /\ IF pass.w \in known
            THEN ok /\ ~applied /\ UNCHANGED faults
            ELSE Writes(app[pass.w] = NoApp /\ MountsAccepted(pass.mounts), ok, applied)
         /\ app' = IF applied THEN [app EXCEPT ![pass.w] = pass.mounts] ELSE app
         /\ queued' = IF ok THEN queued ELSE queued \cup {pass.w}
         /\ pc' = IF ok THEN "listExtraJobs" ELSE "idle"
         /\ pass' = IF ok THEN pass ELSE NoPass
    /\ UNCHANGED <<made, mkdir>> /\ InPass

\* A directory job is no application's: it is an extra job, whether it has run or not.
ListExtraJobs ==
    /\ pc = "listExtraJobs"
    /\ \E ok \in BOOLEAN :
         LET extra == ListedDirectories(pass.w)
         IN /\ Reads(ok)
            /\ IF ok /\ extra # {}
               THEN Goto("deleteExtraJob", [pass EXCEPT !.doomed = extra, !.behind = Behind])
               ELSE Return(~ok)
    /\ UNCHANGED objects /\ InPass

\* deleteJob: whatever job has the name by now; one that is gone is an error.
DeleteExtraJob ==
    /\ pc = "deleteExtraJob"
    /\ \E p \in pass.doomed, ok, applied \in BOOLEAN :
         /\ Writes(mkdir[p] # Absent, ok, applied)
         /\ mkdir' = IF applied THEN [mkdir EXCEPT ![p] = Absent] ELSE mkdir
         /\ IF ok /\ pass.doomed # {p}
            THEN Goto("deleteExtraJob", [pass EXCEPT !.doomed = @ \ {p}])
            ELSE Return(~ok)
    /\ UNCHANGED <<app, made>> /\ InPass

\* Mutant: the teardown looks for the application's job only.
ListAppJob ==
    /\ pc = "listJobs"
    /\ \E ok \in BOOLEAN :
         /\ Reads(ok)
         /\ CASE ~ok -> Return(TRUE)
              [] ok /\ pass.w \in known -> Goto("deleteJobs", pass)
              [] OTHER -> Goto("removeFinalizer", pass)
    /\ UNCHANGED objects /\ InPass

\* The jobs to be torn down are those in the cache.
ListJobs ==
    /\ pc = "listJobs"
    /\ \E ok \in BOOLEAN :
         /\ Reads(ok)
         /\ CASE ~ok -> Return(TRUE)
              [] ok /\ (pass.w \in known \/ ListedDirectories(pass.w) # {}) ->
                   Goto("deleteJobs", pass)
              [] OTHER -> Goto("removeFinalizer", [pass EXCEPT !.behind = Behind])
    /\ UNCHANGED objects /\ InPass

\* Mutant: after the deletion the pass waits for its events.
DeleteAndWait ==
    /\ pc = "deleteJobs"
    /\ \E ok, applied \in BOOLEAN :
         /\ Writes(TRUE, ok, applied)
         /\ app' = IF applied THEN [app EXCEPT ![pass.w] = NoApp] ELSE app
         /\ mkdir' = [p \in Providers |->
                        IF applied /\ mkdir[p] = pass.w THEN Absent ELSE mkdir[p]]
         /\ Return(~ok)
    /\ UNCHANGED made /\ InPass

\* DeleteAllOf, which goes by the labels in the API server; a call that fails may
\* have deleted some of the jobs.
DeleteJobs ==
    /\ pc = "deleteJobs"
    /\ \E ok, applied, keepsApp \in BOOLEAN, kept \in SUBSET LabelledDirectories(pass.w) :
         /\ Writes(TRUE, ok, applied)
         /\ ok => ~keepsApp /\ kept = {}
         /\ app' = IF applied /\ ~keepsApp THEN [app EXCEPT ![pass.w] = NoApp] ELSE app
         /\ mkdir' = [p \in Providers |->
                        IF applied /\ p \in LabelledDirectories(pass.w) \ kept
                        THEN Absent ELSE mkdir[p]]
         /\ Return(TRUE)
    /\ UNCHANGED made /\ InPass

\* The update is refused if the spec is no longer the one read.  The workbench goes,
\* and its status with it.
RemoveFinalizer ==
    /\ pc = "removeFinalizer"
    /\ \E ok, applied \in BOOLEAN :
         /\ Writes(storage[pass.w] = pass.storage, ok, applied)
         /\ phase' = IF applied THEN [phase EXCEPT ![pass.w] = "gone"] ELSE phase
         /\ ready' = IF applied THEN [ready EXCEPT ![pass.w] = FALSE] ELSE ready
         /\ Return(~ok)
    /\ UNCHANGED <<objects, storage, drivers, secrets, caches, changes>>

\* Another process takes over: its informers list everything afresh.
Crash ==
    /\ Fails
    /\ pc' = "idle" /\ pass' = NoPass
    /\ queued' = {w \in Workbenches : phase[w] # "gone"}
    /\ seen' = made /\ known' = {w \in Workbenches : app[w] # NoApp} /\ listed' = mkdir
    /\ UNCHANGED <<environment, objects, changes>>

Storing ==
    \/ ProbeDriver \/ ProbeSecret \/ GetVolume \/ Setup \/ CreateVolume
    \/ GetClaim \/ CreateClaim

Reconcile ==
    \/ Storing
    \/ CollectMounts \/ CreateApp \/ ListExtraJobs \/ DeleteExtraJob
    \/ ListJobs \/ DeleteJobs \/ RemoveFinalizer

-----------------------------------------------------------------------------
(* The environment. *)

Elsewhere == UNCHANGED <<pc, pass, faults>>

\* One of the two informers, of volumes and of claims, catches up.
DeliverStorage ==
    /\ \E kind \in {"volume", "claim"} :
         seen' = seen \cup {thing \in made : thing[1] = kind}
    /\ seen' # seen
    /\ UNCHANGED <<environment, objects, known, listed, queued, changes>> /\ Elsewhere

\* The informer of the jobs catches up; only the application's job has an owner to
\* be told.
DeliverJobs ==
    /\ known' = {w \in Workbenches : app[w] # NoApp}
    /\ listed' = mkdir
    /\ <<known, listed>>' # <<known, listed>>
    /\ queued' = queued \cup (known \ known') \cup (known' \ known)
    /\ UNCHANGED <<environment, objects, seen, changes>> /\ Elsewhere

\* The garbage collector: the job of the application is owned by the workbench, the
\* directory jobs are not.
CollectApp(w) ==
    /\ phase[w] = "gone" /\ app[w] # NoApp
    /\ app' = [app EXCEPT ![w] = NoApp]
    /\ UNCHANGED <<environment, made, mkdir, caches, queued, changes>> /\ Elsewhere

\* Until then every pass asks for another.
ServerBecomesReady(w) ==
    /\ phase[w] = "live" /\ ~ready[w]
    /\ ready' = [ready EXCEPT ![w] = TRUE]
    /\ UNCHANGED <<phase, storage, drivers, secrets, objects, caches, queued, changes>>
    /\ Elsewhere

\* A directory job has finished and its TTL has passed.  Nobody is told: the
\* operator does not own it.
DirectoryJobExpires(p) ==
    /\ mkdir[p] # Absent
    /\ ~(pc = "createVolume" /\ AtHand(p))
    /\ mkdir' = [mkdir EXCEPT ![p] = Absent]
    /\ UNCHANGED <<environment, app, made, caches, queued, changes>> /\ Elsewhere

\* An administrator installs or removes a driver or a secret.
Administer ==
    /\ changes < MaxChanges
    /\ changes' = changes + 1
    /\ \E p \in (UNION Storages) \ {"local"} :
         \/ /\ drivers' = IF p \in drivers THEN drivers \ {p} ELSE drivers \cup {p}
            /\ UNCHANGED secrets
         \/ /\ secrets' = IF p \in secrets THEN secrets \ {p} ELSE secrets \cup {p}
            /\ UNCHANGED drivers
    /\ UNCHANGED <<phase, storage, ready, objects, caches, queued>> /\ Elsewhere

EditStorage(w) ==
    /\ phase[w] # "gone" /\ changes < MaxChanges
    /\ changes' = changes + 1
    /\ \E s \in Storages \ {storage[w]} : storage' = [storage EXCEPT ![w] = s]
    /\ queued' = queued \cup {w}
    /\ UNCHANGED <<phase, ready, drivers, secrets, objects, caches>> /\ Elsewhere

DeleteWorkbench(w) ==
    /\ phase[w] = "live"
    /\ phase' = [phase EXCEPT ![w] = "terminating"]
    /\ queued' = queued \cup {w}
    /\ UNCHANGED <<storage, ready, drivers, secrets, objects, caches, changes>> /\ Elsewhere

-----------------------------------------------------------------------------
Init ==
    /\ phase = [w \in Workbenches |-> "live"]
    /\ storage \in [Workbenches -> Asked]
    /\ ready = [w \in Workbenches |-> FALSE]
    /\ app = [w \in Workbenches |-> NoApp]
    /\ \E c \in Clusters : drivers = c.drivers /\ secrets = c.secrets
    /\ made = {} /\ seen = {}
    /\ mkdir = [p \in Providers |-> Absent]
    /\ known = {} /\ listed = mkdir
    /\ queued = Workbenches
    /\ pc = "idle" /\ pass = NoPass
    /\ faults = 0 /\ changes = 0

Cluster ==
    \/ DeliverStorage \/ DeliverJobs \/ Administer
    \/ \E p \in Providers : DirectoryJobExpires(p)
    \/ \E w \in Workbenches :
         ServerBecomesReady(w) \/ EditStorage(w) \/ DeleteWorkbench(w) \/ CollectApp(w)

Next ==
    \/ \E w \in Workbenches : BeginPass(w)
    \/ Reconcile
    \/ Crash
    \/ Cluster

Spec == Init /\ [][Next]_vars

\* The worker serves its queue, first in, first out; the informer of the jobs and the
\* garbage collector catch up; servers become ready; a directory job, an
\* administrator or a user owes nothing.
FairSpec ==
    /\ Spec
    /\ WF_vars(Reconcile) /\ WF_vars(DeliverJobs)
    /\ \A w \in Workbenches : /\ SF_vars(BeginPass(w))
                              /\ WF_vars(ServerBecomesReady(w))
                              /\ WF_vars(CollectApp(w))

-----------------------------------------------------------------------------
(* Safety. *)

\* Every variable has the shape it is declared with.
TypeOK ==
    /\ phase \in [Workbenches -> {"live", "terminating", "gone"}]
    /\ storage \in [Workbenches -> Storages]
    /\ ready \in [Workbenches -> BOOLEAN]
    /\ app \in [Workbenches -> (SUBSET Providers) \cup {NoApp}]
    /\ drivers \subseteq Providers /\ secrets \subseteq Providers
    /\ made \subseteq Things /\ seen \subseteq made
    /\ mkdir \in [Providers -> Workbenches \cup {Absent}]
    /\ known \subseteq Workbenches
    /\ listed \in [Providers -> Workbenches \cup {Absent}]
    /\ queued \subseteq Workbenches
    /\ pc \in Steps
    /\ IF pc = "idle" THEN pass = NoPass ELSE pass \in Pass
    /\ faults \in 0 .. MaxFaults /\ changes \in 0 .. MaxChanges

\* A claim names its volume and binds to no other: none exists without it,
\* whatever processStorageProvider met before it came to the claim.
ClaimsHaveVolumes == \A p \in Providers : Claim(p) \in made => Volume(p) \in made

\* What a pass under way relies on: the volume is there before the claim is
\* looked at; the directory job it has just made is there when it makes the
\* volume; what it is about to sweep has, where its list was up to date, its label;
\* where that was so nothing of its workbench is left when it lets go of it.
PassRelies ==
    /\ pc \in {"claim", "createClaim"} =>
         \A p \in Providers : AtHand(p) => Volume(p) \in made
    /\ pc = "createVolume" =>
         \A p \in WithDirectory : AtHand(p) => mkdir[p] = pass.w
    /\ pc = "deleteExtraJob" =>
         \A p \in pass.doomed \ pass.behind : mkdir[p] \in {Absent, pass.w}
    /\ pc = "removeFinalizer" =>
         \A p \in Providers \ pass.behind : mkdir[p] # pass.w

StorageInv == TypeOK /\ ClaimsHaveVolumes /\ PassRelies

\* A step of the running pass.
PassMoves == pc # "idle" /\ <<pc, pass>> # <<pc', pass'>>

\* A volume with a directory appears only in the pass that made its directory job,
\* and while that job exists: processStorageProvider creates the volume after
\* Setup succeeded, and a Setup that failed, or found another's job, is no
\* reason to go on.  Whether the job has run by then, nobody asks.
DirectoryFirst ==
    [][\A p \in WithDirectory : Volume(p) \notin made /\ Volume(p) \in made' =>
          PassMoves /\ mkdir[p] = pass.w]_vars

\* The directory jobs of the workbenches of a namespace have one name.  A pass deletes
\* one that a neighbour made only where its list was behind: findJobs still has the
\* job this workbench made under that name, and deleteJob, which asks for no uid,
\* takes the job that is there.
OthersDirectories ==
    [][PassMoves => \A p \in Providers :
          mkdir'[p] = Absent => mkdir[p] \in {Absent, pass.w} \/ p \in pass.behind]_vars

\* A workbench goes with a directory job of its own left behind only where the list of
\* its last pass did not have that job yet: deleteExternalResources counts them too,
\* although nobody owns them and the garbage collector would leave them.
OwnDirectoriesGo ==
    [][\A w \in Workbenches : phase[w] # "gone" /\ phase'[w] = "gone" =>
          LabelledDirectories(w) \subseteq pass.behind]_vars

-----------------------------------------------------------------------------
(* Liveness. *)

\* "Don't fail the entire reconciliation if one storage type fails": whichever
\* drivers and secrets are missing and whichever call fails, a workbench that is
\* not deleted gets the job of its application.
AppsCome == <>[](\A w \in Workbenches : phase[w] = "live" => app[w] # NoApp)

\* A deleted workbench goes, and the job of its application with it, whether the
\* teardown or the garbage collector takes that job: directory jobs, whose end is no
\* event, and a list that is behind, hold it up for a time only.
DeletionCompletes ==
    <>[](\A w \in Workbenches : phase[w] # "live" => phase[w] = "gone" /\ app[w] = NoApp)

\* "Workbench will work without this storage": the pod of the application can
\* start, since every claim its job mounts exists.
CanStart(w) == app[w] # NoApp /\ \A p \in app[w] : Claim(p) \in made
WorksWithoutStorage == <>[](\A w \in Workbenches : phase[w] = "live" => CanStart(w))
=============================================================================
